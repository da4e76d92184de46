----------------------------- MODULE ProbeCodec ------------------------------
(* irontraffic-resilience/src/health/{http,tcp,mod}.rs: the response parsers *)
(* of the HTTP and TCP health checks, fed by a peer that sends any bytes in   *)
(* any pieces and closes when it likes, and reused from a pool for one check  *)
(* after another.  The twelve bytes of a status line are one symbol: the      *)
(* status it names, or a malformed line.                                      *)
EXTENDS Integers, Sequences, SequencesExt, FiniteSets

CONSTANTS
  Http,                       \* TRUE: HttpCheckCodec; FALSE: TcpCheckCodec
  StatusLines,                \* status-line symbols; "bad" is malformed
  Expected, Retriable,        \* sets of status symbols
  NoBody,                     \* statuses whose responses have no body: 204 and 304
  Bytes,                      \* bytes after the status line, CR and LF among them
  HeadMethod, Receive,        \* method_is_head, the configured patterns
  MaxHead, BufferSize,        \* max_head_bytes, response_buffer_size
  MatchBatch,                 \* MATCH_BATCH_BYTES
  MaxSent, MaxChecks          \* bounds

VARIABLES
  phase, status, crlf, head_scanned, body, matched_at_len, verdict_pending,
  sent,                       \* everything this check's peer sent (history)
  closed,                     \* the peer closed (history)
  checks

pvars == <<phase, status, crlf, head_scanned, body, matched_at_len, verdict_pending, sent,
           closed, checks>>

CR == "r"
LF == "n"
Undecided == [outcome |-> "none", fate |-> "none"]
Crlf == <<CR, LF, CR, LF>>

\* Where pat first occurs in b at or after pos, or 0.
Position(b, pos, pat) ==
  LET at == {i \in pos .. Len(b) - Len(pat) + 1 : SubSeq(b, i, i + Len(pat) - 1) = pat}
  IN IF at = {} THEN 0 ELSE CHOOSE i \in at : \A j \in at : i <= j

\* Each pattern is searched after the leftmost match of the one before it.
patterns_match(b, pats) ==
  LET Step(pos, pat) ==
        IF pos = 0 THEN 0
        ELSE LET i == Position(b, pos, pat) IN IF i = 0 THEN 0 ELSE i + Len(pat)
  IN FoldLeft(Step, 1, pats) # 0

\* HttpCheckSpec::validate and TcpCheckSpec::validate, of what the parsers use.
validate ==
  /\ BufferSize >= 1 /\ MaxHead >= 1
  /\ Http => Expected # {}
  /\ \A i \in DOMAIN Receive : Receive[i] # <<>>
  /\ HeadMethod => Receive = <<>>

Fresh == [phase |-> IF Http THEN "StatusLine" ELSE "Body", status |-> "none", crlf |-> 0,
          head_scanned |-> 0, body |-> <<>>, matched_at_len |-> 0, verdict |-> Undecided]

finish(c, outcome, fate) ==
  [c EXCEPT !.phase = "Finished", !.verdict = [outcome |-> outcome, fate |-> fate]]

consume_status_line_byte(c, s) ==
  LET d == [c EXCEPT !.head_scanned = @ + 1]
  IN IF s = "bad" THEN finish(d, "Protocol", "Close")
     ELSE [d EXCEPT !.status = s, !.crlf = 0, !.phase = "Head"]

\* After a mismatch the byte may itself begin the terminator.
Restart(c, b) == IF b = CR THEN 1 ELSE 0

Judge(s) == IF s \in Retriable THEN "RetriableStatus"
            ELSE IF s \notin Expected THEN "Status" ELSE "Pass"

consume_head_byte(c, b) ==
  LET d == [c EXCEPT !.head_scanned = @ + 1]
      e == [d EXCEPT !.crlf = IF Crlf[c.crlf + 1] = b THEN @ + 1 ELSE Restart(c, b)]
      fate == IF HeadMethod \/ e.status \in NoBody THEN "Reusable" ELSE "Close"
  IN IF d.head_scanned > MaxHead THEN finish(d, "Protocol", "Close")
     ELSE IF e.crlf < 4 THEN e
     ELSE IF Judge(e.status) # "Pass" THEN finish(e, Judge(e.status), fate)
     ELSE IF Receive = <<>> \/ HeadMethod THEN finish(e, "Pass", fate)
     ELSE [e EXCEPT !.body = <<>>, !.matched_at_len = 0, !.phase = "Body"]

\* Also the loop body of TcpCheckCodec::on_bytes: the patterns
\* are tried when the buffer fills, or once per MatchBatch bytes.
consume_body_byte(c, b) ==
  LET d == [c EXCEPT !.body = IF Len(@) < BufferSize THEN Append(@, b) ELSE @]
      full == Len(d.body) = BufferSize
      e == [d EXCEPT !.matched_at_len = Len(d.body)]
  IN IF ~(full \/ Len(d.body) - d.matched_at_len >= MatchBatch) THEN d
     ELSE IF patterns_match(d.body, Receive) THEN finish(e, "Pass", "Close")
     ELSE IF full THEN finish(e, "Body", "Close")
     ELSE e

Consume(c, b) ==
  CASE c.phase = "StatusLine" -> consume_status_line_byte(c, b)
    [] c.phase = "Head" -> consume_head_byte(c, b)
    [] c.phase = "Body" -> consume_body_byte(c, b)
    [] c.phase = "Finished" -> c

Codec == [phase |-> phase, status |-> status, crlf |-> crlf, head_scanned |-> head_scanned,
          body |-> body, matched_at_len |-> matched_at_len, verdict |-> verdict_pending]

Becomes(c) ==
  /\ phase' = c.phase /\ status' = c.status /\ crlf' = c.crlf
  /\ head_scanned' = c.head_scanned /\ body' = c.body
  /\ matched_at_len' = c.matched_at_len /\ verdict_pending' = c.verdict

------------------------------------------------------------------------------
Init ==
  /\ validate
  /\ phase = Fresh.phase /\ status = Fresh.status /\ crlf = 0 /\ head_scanned = 0
  /\ body = <<>> /\ matched_at_len = 0 /\ verdict_pending = Undecided
  /\ sent = <<>> /\ closed = FALSE /\ checks = 1

\* on_bytes with a chunk of one byte or of two: the chunk's end is not part of
\* the state, and bytes behind a verdict are not read.
Chunks ==
  LET Alphabet(n) == IF Http /\ n = 0 THEN StatusLines ELSE Bytes
  IN {<<b>> : b \in Alphabet(Len(sent))}
     \cup {<<b, c>> : b \in Alphabet(Len(sent)), c \in Alphabet(Len(sent) + 1)}

on_bytes(chunk) ==
  /\ ~closed /\ Len(sent) + Len(chunk) <= MaxSent
  /\ sent' = sent \o chunk
  /\ Becomes(FoldLeft(Consume, Codec, chunk))
  /\ UNCHANGED <<closed, checks>>

on_eof ==
  /\ ~closed /\ closed' = TRUE
  /\ Becomes(IF phase \in {"StatusLine", "Head"} THEN finish(Codec, "Protocol", "Close")
             ELSE IF phase = "Finished" THEN Codec
             ELSE IF patterns_match(body, Receive) THEN finish(Codec, "Pass", "Close")
             ELSE finish(Codec, "Body", "Close"))
  /\ UNCHANGED <<sent, checks>>

Cleared(c) == Fresh

\* The pool hands the codec to the next check.
reset ==
  /\ phase = "Finished" /\ checks < MaxChecks
  /\ checks' = checks + 1
  /\ sent' = <<>> /\ closed' = FALSE
  /\ Becomes(Cleared(Codec))

Next == on_eof \/ reset \/ \E chunk \in Chunks : on_bytes(chunk)

------------------------------------------------------------------------------
\* The patterns occur in b in order and without overlap, at any places.
Occurs(b, pats) ==
  \E at \in [DOMAIN pats -> 1 .. Len(b) + 1] :
    \A i \in DOMAIN pats :
      /\ at[i] + Len(pats[i]) - 1 <= Len(b)
      /\ SubSeq(b, at[i], at[i] + Len(pats[i]) - 1) = pats[i]
      /\ i > 1 => at[i] >= at[i - 1] + Len(pats[i - 1])

\* What the whole response deserves, were it read at once: where the head ends,
\* what the status says, and whether the retained part of the body matches.
Deserved ==
  LET ends == {n \in 5 .. Len(sent) : SubSeq(sent, n - 3, n) = Crlf}
      end == IF ~Http THEN 0 ELSE IF ends = {} THEN MaxHead + 1
             ELSE CHOOSE n \in ends : \A m \in ends : n <= m
      after == SubSeq(sent, end + 1, Len(sent))
      rest == SubSeq(after, 1, IF Len(after) < BufferSize THEN Len(after) ELSE BufferSize)
  IN IF Http /\ (sent = <<>> \/ sent[1] = "bad" \/ end > MaxHead) THEN "Protocol"
     ELSE IF Http /\ Judge(sent[1]) # "Pass" THEN Judge(sent[1])
     ELSE IF Occurs(rest, Receive) THEN "Pass"
     ELSE "Body"

\* The verdict is a function of the bytes, never of how they were cut, of when
\* the patterns were tried or of what an earlier check left in the codec.
VerdictDeserved ==
  verdict_pending # Undecided => verdict_pending.outcome = Deserved

\* The peer decides neither how much is retained nor how long the head is read.
Bounded == Len(body) <= BufferSize /\ head_scanned <= MaxHead + 1

\* A response that is decided is decided: later bytes and the close change
\* nothing, and a connection is only reused at a message boundary.
VerdictFinal ==
  verdict_pending # Undecided /\ checks' = checks => verdict_pending' = verdict_pending

ReusesAtBoundary ==
  verdict_pending # Undecided /\ verdict_pending.fate = "Reusable" =>
    Http /\ (HeadMethod \/ status \in NoBody) /\ crlf = 4
==============================================================================
