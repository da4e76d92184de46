---------------------------- MODULE ChunkedBody ----------------------------
(***************************************************************************)
(* The HTTP/1 chunked coding, both ways: ChunkedDecoder, fed by a caller   *)
(* that resubmits what was not consumed, and on the other end of the wire  *)
(* either ChunkedEncoder or a peer that composes any size lines, data and  *)
(* trailer lines.  The wire cuts the stream anywhere.                      *)
(*                                                                         *)
(* A byte is a one-letter class: "0" to "3" are the hex digits (Base of    *)
(* them), "x" any other token byte, "D" a name of TRAILER_DENIED, "!" a    *)
(* byte no name and no value may hold.                                     *)
(***************************************************************************)
EXTENDS Integers, Sequences, SequencesExt, FiniteSets, TLC

CONSTANTS
  Base, MAX_SIZE_DIGITS,  \* the radix and the digit cap of a chunk size
  MaxExt,                 \* max_chunk_ext_bytes
  MaxLine, MaxCount,      \* max_field_line_bytes, max_field_count
  MaxList, Overhead,      \* max_header_list_bytes and the 32 a field costs
  Slack, MaxScan,         \* TRAILER_SEARCH_CAP_SLACK, HeadScanBudget::MAX_BYTES
  MAX_DENIABLE_NAME_LEN,
  MapToHyphen,            \* UnderscorePolicy::MapToHyphen
  SizeLines,              \* what a peer may write for a size: [bytes, size], size = Bad
  Terminators,            \* and behind it or behind the data
  Data,                   \* chunk data
  TrailerLines,           \* trailer lines without their end: [bytes, field], field = Bad
  MaxChunks, MaxTrailers, MaxAhead

VARIABLES
  dec,      \* the ChunkedDecoder
  err,      \* the RejectReason of the last decode, None before it
  buf,      \* bytes the caller has read and the decoder has not consumed
  fresh,    \* decode has not been called since bytes arrived or data was returned
  body,     \* the octets reported by Data events
  wire,     \* bytes under way
  sender,   \* "peer" or "encoder", and where in the message it is
  expect    \* what the message sent so far means

bvars == <<dec, err, buf, fresh, body, wire, sender, expect>>

None == "none"
Bad == -1
CRLF == <<"CR", "LF">>
Value == ("0" :> 0) @@ ("1" :> 1) @@ ("2" :> 2) @@ ("3" :> 3)
Digits == {d \in DOMAIN Value : Value[d] < Base}
tchar == Digits \cup {"x", "D", "-", "_"}
Ows == {"sp"}

\* The first position of a byte of S in s, Len(s) + 1 when there is none.
FirstIn(s, S) == IF \E i \in DOMAIN s : s[i] \in S
                 THEN CHOOSE i \in DOMAIN s : s[i] \in S /\ \A j \in 1 .. i - 1 : s[j] \notin S
                 ELSE Len(s) + 1
From(s, i) == SubSeq(s, i, Len(s))
Upto(s, n) == SubSeq(s, 1, IF n < Len(s) THEN n ELSE Len(s))

trim_ows(v) ==
  LET solid == {i \in DOMAIN v : v[i] \notin Ows}
  IN IF solid = {} THEN <<>>
     ELSE SubSeq(v, CHOOSE i \in solid : \A j \in solid : i <= j,
                    CHOOSE i \in solid : \A j \in solid : j <= i)

------------------------------------------------------------------------------
(* Fields of a section: HeaderListBudget and FieldSectionBuilder.           *)

NoBudget == [count |-> 0, used |-> 0]
charge(b, name, value) ==
  [count |-> b.count + 1, used |-> b.used + Len(name) + Len(value) + Overhead]
charged(b) == IF b.count > MaxCount THEN "FieldCountExceeded"
              ELSE IF b.used > MaxList THEN "HeaderListTooLarge" ELSE None

normalize_name(raw) == [i \in DOMAIN raw |-> IF raw[i] = "_" THEN "-" ELSE raw[i]]
mapped(raw) == "_" \in ToSet(raw)

\* A field of a finished section remembers whether its name held an underscore.
underscore_collision(slots, raw) ==
  \E i \in DOMAIN slots : slots[i].name = normalize_name(raw) /\ slots[i].mapped # mapped(raw)

push_normalized(slots, raw, value) ==
  IF mapped(raw) /\ ~MapToHyphen THEN "FieldNameUnderscore"
  ELSE IF \E i \in DOMAIN raw : raw[i] \notin tchar THEN "FieldNameInvalidByte"
  ELSE IF \E i \in DOMAIN value : value[i] \in {"!", "CR", "LF"} THEN "FieldValueInvalidByte"
  ELSE IF underscore_collision(slots, raw) THEN "FieldNameUnderscore" ELSE None

trailer_denied(raw) == Len(raw) <= MAX_DENIABLE_NAME_LEN /\ normalize_name(raw) = <<"D">>

------------------------------------------------------------------------------
(* ChunkedDecoder.  A step takes the decoder and the rest of the buffer and *)
(* gives [dec, used, step, err]: how far the cursor moved and whether the   *)
(* loop goes on.                                                            *)

NewDecoder ==
  [state |-> "Size", remaining |-> 0, delivered |-> 0, ext_bytes |-> 0, size_digits |-> 0,
   ext_mode |-> "TopLevel", building |-> <<>>, trailers |-> None, budget |-> NoBudget,
   trailer_scan |-> 0]

Step(d, used, step) == [dec |-> d, used |-> used, step |-> step, err |-> None]
Refuse(d, reason) == [dec |-> d, used |-> 0, step |-> "Err", err |-> reason]

\* The digits are taken into remaining as they come, whether or not the
\* boundary is in the buffer.
step_size(d, s) ==
  LET at == FirstIn(s, {";", "CR", "LF"})
      digits == Upto(s, at - 1)
      take[i \in 0 .. Len(digits)] == IF i = 0 THEN d.remaining
                                      ELSE take[i - 1] * Base + Value[digits[i]]
      n == d.size_digits + Len(digits)
      e == [d EXCEPT !.remaining = take[Len(digits)], !.size_digits = n]
      wrong == FirstIn(digits, {"x", "D", "-", "_", "DQ", "BS", "sp", ":", "!"})
  IN IF wrong <= Len(digits) /\ d.size_digits + wrong <= MAX_SIZE_DIGITS + 1
       THEN Refuse(d, "ChunkSizeInvalid")
     ELSE IF n > MAX_SIZE_DIGITS THEN Refuse(d, "ChunkSizeOverflow")
     ELSE IF at > Len(s) THEN Step(e, Len(s), "NeedMore")
     ELSE IF s[at] = "LF" THEN Refuse(d, "ChunkTerminatorInvalid")
     ELSE IF n = 0 THEN Refuse(d, "ChunkSizeInvalid")
     ELSE IF s[at] = ";"
       THEN Step([e EXCEPT !.ext_bytes = 1, !.ext_mode = "AfterSemicolon", !.state = "Ext"],
                 at, "Continue")
     ELSE Step([e EXCEPT !.state = "SizeCrlf"], at, "Continue")

ext_next(mode, b) ==
  CASE mode = "AfterSemicolon" /\ b \in {";", "CR"} -> "Bad"
    [] mode \in {"Quoted", "QuotedEscaped"} /\ b \in {"CR", "LF"} -> "Bad"
    [] mode \in {"AfterSemicolon", "TopLevel"} /\ b = "DQ" -> "Quoted"
    [] mode = "TopLevel" /\ b = "CR" -> "End"
    [] mode = "TopLevel" /\ b = ";" -> "AfterSemicolon"
    [] mode \in {"AfterSemicolon", "TopLevel"} ->
         IF b \in tchar \cup Ows THEN "TopLevel" ELSE "Bad"
    [] mode = "Quoted" -> IF b = "BS" THEN "QuotedEscaped" ELSE IF b = "DQ" THEN "TopLevel"
                          ELSE "Quoted"
    [] mode = "QuotedEscaped" -> "Quoted"

\* One byte of an extension.
step_ext(d, s) ==
  IF s = <<>> THEN Step(d, 0, "NeedMore")
  ELSE LET m == ext_next(d.ext_mode, s[1])
           e == [d EXCEPT !.ext_bytes = @ + 1]
       IN IF e.ext_bytes > MaxExt THEN Refuse(d, "ChunkExtTooLong")
          ELSE IF m = "Bad" THEN Refuse(d, "ChunkExtInvalid")
          ELSE IF m = "End" THEN Step([e EXCEPT !.state = "SizeCrlf"], 1, "Continue")
          ELSE Step([e EXCEPT !.ext_mode = m], 1, "Continue")

AfterSize(d) ==
  IF d.remaining = 0 THEN [d EXCEPT !.building = <<>>, !.budget = NoBudget, !.state = "Trailers"]
  ELSE [d EXCEPT !.ext_bytes = 0, !.size_digits = 0, !.state = "Data"]

step_size_crlf(d, s) ==
  IF s = <<>> THEN Step(d, 0, "NeedMore")
  ELSE IF s[1] # "LF" THEN Refuse(d, "ChunkTerminatorInvalid")
  ELSE Step(AfterSize(d), 1, "Continue")

step_data(d, s) ==
  LET n == IF d.remaining < Len(s) THEN d.remaining ELSE Len(s)
  IN IF n = 0 THEN Step(d, 0, "NeedMore")
     ELSE Step([d EXCEPT !.remaining = @ - n, !.delivered = @ + n,
                         !.state = IF d.remaining = n THEN "DataCrlf" ELSE "Data"], n, "Data")


\* The CR is not consumed without its LF.
step_data_crlf(d, s) ==
  IF s = <<>> \/ s = <<"CR">> THEN Step(d, 0, "NeedMore")
  ELSE IF Upto(s, 2) # CRLF THEN Refuse(d, "ChunkTerminatorInvalid")
  ELSE Step([d EXCEPT !.state = "Size"], 2, "Continue")

find_crlf(s) ==
  LET at == {i \in 1 .. Len(s) - 1 : s[i] = "CR" /\ s[i + 1] = "LF"}
  IN IF at = {} THEN 0 ELSE CHOOSE i \in at : \A j \in at : i <= j

\* One trailer line, or the empty line that ends the message.
trailer_line(d, line, used) ==
  LET bare == FirstIn(line, {"CR", "LF"})
      colon == FirstIn(line, {":"})
      name == Upto(line, colon - 1)
      value == trim_ows(From(line, colon + 1))
      b == charge(d.budget, name, value)
      pushed == push_normalized(d.building, name, value)
  IN IF line = <<>>
       THEN Step([d EXCEPT !.trailers = d.building, !.state = "Done"], used, "Done")
     ELSE IF line[1] \in Ows THEN Refuse(d, "ObsFold")
     ELSE IF bare <= Len(line) THEN Refuse(d, IF line[bare] = "CR" THEN "BareCr" ELSE "BareLf")
     ELSE IF colon > Len(line) THEN Refuse(d, "RequestLineMalformed")
     ELSE IF colon = 1 THEN Refuse(d, "FieldNameEmpty")
     ELSE IF line[colon - 1] \in Ows THEN Refuse(d, "WhitespaceBeforeColon")
     ELSE IF Len(name) + Len(value) > MaxLine THEN Refuse(d, "FieldLineTooLong")
     ELSE IF charged(b) # None THEN Refuse(d, charged(b))
     ELSE IF pushed # None THEN Refuse(d, pushed)
     ELSE IF trailer_denied(name) THEN Refuse(d, "TrailerFieldForbidden")
     ELSE Step([d EXCEPT !.budget = b,
                  !.building = Append(@, [name |-> normalize_name(name), value |-> value,
                                          mapped |-> mapped(name)])], used, "Continue")

step_trailers(d, s) ==
  LET cap == MaxLine + Slack
      rel == find_crlf(Upto(s, cap))
      scanned == d.trailer_scan + (IF rel = 0 THEN Len(Upto(s, cap)) ELSE rel + 1)
      e == [d EXCEPT !.trailer_scan = scanned]
  IN IF scanned > MaxScan \/ (rel = 0 /\ Len(s) > cap) THEN Refuse(d, "FieldLineTooLong")
     ELSE IF rel = 0 THEN Step(e, 0, "NeedMore")
     ELSE trailer_line(e, Upto(s, rel - 1), rel + 1)

step_of(d, s) ==
  CASE d.state = "Size" -> step_size(d, s)
    [] d.state = "Ext" -> step_ext(d, s)
    [] d.state = "SizeCrlf" -> step_size_crlf(d, s)
    [] d.state = "Data" -> step_data(d, s)
    [] d.state = "DataCrlf" -> step_data_crlf(d, s)
    [] d.state = "Trailers" -> step_trailers(d, s)
    [] d.state = "Done" -> Step(d, 0, "Done")

\* The loop, up to the step that returns.  An iteration consumes a byte or
\* returns, so there are at most one more than there are bytes.
run(d0, s) ==
  LET go[n \in 0 .. Len(s) + 1] ==
        IF n = 0 THEN Step(d0, 0, "Continue")
        ELSE LET r == go[n - 1]
                 next == step_of(r.dec, From(s, r.used + 1))
             IN IF r.step # "Continue" THEN r ELSE [next EXCEPT !.used = r.used + next.used]
  IN go[Len(s) + 1]

Returned(r) ==
  /\ dec' = r.dec /\ err' = r.err
  /\ buf' = From(buf, r.used + 1)
  /\ fresh' = (r.step = "Data")
  /\ body' = IF r.step = "Data"
             THEN body \o SubSeq(buf, r.used - (r.dec.delivered - dec.delivered) + 1, r.used)
             ELSE body

\* decode, and the caller's rule: advance by consumed_this_call.
decode ==
  /\ fresh /\ err = None /\ dec.state # "Done"
  /\ Returned(run(dec, buf))
  /\ UNCHANGED <<wire, sender, expect>>

\* A read returns some of what is under way.
Arrive(n) ==
  /\ ~fresh /\ err = None /\ dec.state # "Done"
  /\ n \in 1 .. Len(wire)
  /\ buf' = buf \o Upto(wire, n) /\ wire' = From(wire, n + 1)
  /\ fresh' = TRUE
  /\ UNCHANGED <<dec, err, body, sender, expect>>

------------------------------------------------------------------------------
(* ChunkedEncoder.                                                          *)

hex_digits(n) ==
  IF n < Base THEN <<CHOOSE d \in Digits : Value[d] = n>>
  ELSE <<CHOOSE d \in Digits : Value[d] = n \div Base, CHOOSE d \in Digits : Value[d] = n % Base>>

write_chunk(data) == IF data = <<>> THEN <<>> ELSE hex_digits(Len(data)) \o CRLF \o data \o CRLF

\* None when a field may not travel as a trailer: nothing is written.
write_trailers(fields) ==
  IF \E i \in DOMAIN fields : trailer_denied(fields[i].name) THEN <<>>
  ELSE <<"0">> \o CRLF
       \o FlattenSeq([i \in DOMAIN fields |->
            fields[i].name \o <<":", "sp">> \o fields[i].value \o CRLF])
       \o CRLF

------------------------------------------------------------------------------
(* The sending side, and what its message means.                            *)

Room == Len(wire) <= MaxAhead /\ expect.verdict = "open"
Put(bytes) == wire' = wire \o bytes /\ UNCHANGED <<dec, err, buf, fresh, body>>

\* The encoder is handed data, possibly none.
SendChunk(data) ==
  /\ sender.by = "encoder" /\ sender.at = "chunks" /\ sender.n < MaxChunks /\ Room
  /\ Put(write_chunk(data))
  /\ sender' = [sender EXCEPT !.n = @ + 1]
  /\ expect' = [expect EXCEPT !.body = @ \o data]

\* finish; what follows on the connection is the next message.
SendEnd(fields) ==
  LET bytes == write_trailers(fields)
  IN /\ sender.by = "encoder" /\ sender.at = "chunks" /\ Room
     /\ bytes # <<>>
     /\ Put(bytes \o <<"x">>)
     /\ sender' = [sender EXCEPT !.at = "end"]
     /\ expect' = [expect EXCEPT !.verdict = "done", !.trailers = fields]

\* A peer writes a size line, its terminator, data and the terminator behind it;
\* a size that is wrong or a terminator that is wrong makes the message wrong.
PeerChunk(line, end, data, close) ==
  LET n == line.size
      wrong == n = Bad \/ end # CRLF
      bytes == line.bytes \o end \o (IF wrong \/ n = 0 THEN <<>> ELSE data \o close)
  IN /\ sender.by = "peer" /\ sender.at = "chunks" /\ sender.n < MaxChunks /\ Room
     /\ wrong \/ n = 0 => data = <<>> /\ close = CRLF
     /\ ~wrong => Len(data) = n
     /\ Put(bytes)
     /\ sender' = [sender EXCEPT !.n = @ + 1, !.at = IF ~wrong /\ n = 0 THEN "trailers" ELSE @]
     /\ expect' = [expect EXCEPT
                     !.body = IF wrong THEN @ ELSE @ \o data,
                     !.verdict = IF wrong \/ close # CRLF THEN "bad" ELSE @]

\* A second field under a name that differs in the underscore only is refused,
\* and so is one past the limits.
Refused(f) ==
  LET fs == Append(expect.trailers, f)
  IN \/ f.mapped /\ ~MapToHyphen
     \/ \E i \in DOMAIN fs : fs[i].name = f.name /\ fs[i].mapped # f.mapped
     \/ Len(fs) > MaxCount \/ Len(f.name) + Len(f.value) > MaxLine
     \/ FoldSeq(LAMBDA g, n : n + Len(g.name) + Len(g.value) + Overhead, 0, fs) > MaxList

PeerTrailer(line) ==
  LET wrong == Len(line.field) # 1 \/ (Len(line.field) = 1 /\ Refused(line.field[1]))
  IN /\ sender.by = "peer" /\ sender.at = "trailers" /\ Room
     /\ Len(expect.trailers) < MaxTrailers
     /\ Put(line.bytes \o CRLF)
     /\ sender' = sender
     /\ expect' = [expect EXCEPT !.trailers = IF wrong THEN @ ELSE @ \o line.field,
                                 !.verdict = IF wrong THEN "bad" ELSE @]

PeerEnd ==
  /\ sender.by = "peer" /\ sender.at = "trailers" /\ Room
  /\ Put(CRLF \o <<"x">>)
  /\ sender' = [sender EXCEPT !.at = "end"]
  /\ expect' = [expect EXCEPT !.verdict = "done"]

Init ==
  /\ dec = NewDecoder /\ err = None /\ buf = <<>> /\ fresh = FALSE /\ body = <<>>
  /\ wire = <<>>
  /\ \E by \in {"encoder", "peer"} : sender = [by |-> by, at |-> "chunks", n |-> 0]
  /\ expect = [body |-> <<>>, trailers |-> <<>>, verdict |-> "open"]

\* A section the encoder is given is within the limits the receiver sets too.
Fields == {f \in {line.field : line \in TrailerLines} :
             \A i \in DOMAIN f : Len(f[i].name) + Len(f[i].value) <= MaxLine}

Next ==
  \/ decode
  \/ \E n \in 1 .. Len(wire) : Arrive(n)
  \/ \E data \in Data : SendChunk(data)
  \/ \E f \in Fields : SendEnd(f)
  \/ \E line \in SizeLines, end, close \in Terminators, data \in Data :
       PeerChunk(line, end, data, close)
  \/ \E line \in TrailerLines : PeerTrailer(line)
  \/ PeerEnd

------------------------------------------------------------------------------
Plain(fields) == [i \in DOMAIN fields |-> <<fields[i].name, fields[i].value>>]

\* ChunkedDecoder::decode: wherever the stream is cut, the octets reported are
\* the octets sent, and a message is finished with its own trailers and with
\* the next message's bytes untouched, or refused at its first fault with
\* everything before it delivered.
DecodesWhatWasSent ==
  /\ IsPrefix(body, expect.body) /\ dec.delivered = Len(body)
  /\ err # None => expect.verdict = "bad" /\ body = expect.body
  /\ dec.state = "Done" =>
       /\ expect.verdict = "done" /\ body = expect.body
       /\ Plain(dec.trailers) = Plain(expect.trailers)
       /\ buf \o wire = <<"x">>

\* A decoder that has seen the whole message does not wait for more of it.
NeverStalls ==
  wire = <<>> /\ ~fresh /\ expect.verdict # "open" => err # None \/ dec.state = "Done"

\* What a caller has to keep for the next call is bounded by one trailer line,
\* and by the half of a line end anywhere else.
KeepsLittle ==
  ~fresh /\ err = None /\ dec.state # "Done" =>
    Len(buf) <= (IF dec.state = "Trailers" THEN MaxLine + Slack
                 ELSE IF dec.state = "DataCrlf" THEN 1 ELSE 0)
=============================================================================
