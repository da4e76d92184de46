---------------------------- MODULE ProxyHeader -----------------------------
(***************************************************************************)
(* The PROXY protocol: V2Encoder writes a header in front of a stream, and *)
(* ProxyHeader::parse is called again on everything received so far        *)
(* whenever a read brings more, until it completes or refuses.             *)
(*                                                                         *)
(* A unit is a number, and every field that the code reads in one piece is *)
(* one unit: a keyword or an address of the text format; a port or a       *)
(* length of the binary one.  A port in text is written in its digits.     *)
(* The sizes of the binary format are scaled: a 4-unit signature, a        *)
(* 7-unit fixed part, 1 and 2 units for an IPv4 and an IPv6 address.       *)
(***************************************************************************)
EXTENDS Integers, Sequences, SequencesExt, FiniteSets, TLC

CONSTANTS
  Streams,          \* what a peer may send, {} when the encoder writes it
  Sockets,          \* addresses the encoder is given
  ValueLens,        \* lengths of TLV values it is asked to append
  Prior,            \* what the encoder's buffer already holds
  App,              \* what the sender's client sends behind the header
  MaxTlvs,          \* bound: TLVs offered
  MAX_V1_LINE, MaxDigits, MaxPort,
  MAX_PAYLOAD_LEN

VARIABLES
  out,       \* the encoder's buffer
  enc,       \* "idle", "open", "finished" or "dropped"
  ends,      \* the two addresses begin was given
  kept,      \* TLVs written
  skipped,   \* TLVs left out for space
  sent,      \* the stream on its way to the receiver
  got,       \* how much of it has been read
  verdict    \* what the last parse said

pvars == <<out, enc, ends, kept, skipped, sent, got, verdict>>

Sp == 32
CR == 13
LF == 10
V1_PREFIX == <<80, Sp>>
V2_SIGNATURE == <<CR, LF, 0, 81>>
UNKNOWN == 85
TCP4 == 52
TCP6 == 54
\* The text of an address and the address it stands for.
Ipv4Text == (104 :> <<4>>) @@ (105 :> <<5>>)
Ipv6Text == (106 :> <<6, 6>>)
Digit == 48 .. 57

Partial == [st |-> "partial"]
Err(e) == [st |-> "error", why |-> e]
Complete(addrs, consumed, tlvs) ==
  [st |-> "complete", addrs |-> addrs, consumed |-> consumed, tlvs |-> tlvs]
Unspec == <<>>
Tcp(src, dst) == <<src, dst>>
Socket(ip, port) == [ip |-> ip, port |-> port]
Least(S) == CHOOSE i \in S : \A j \in S : i <= j

------------------------------------------------------------------------------
(* v1: a line of text.                                                      *)

find_crlf(s) ==
  LET at == {i \in 1 .. Len(s) - 1 : s[i] = CR /\ s[i + 1] = LF}
  IN IF at = {} THEN 0 ELSE Least(at)

has_bare_lf(s) == \E i \in DOMAIN s : s[i] = LF /\ (i = 1 \/ s[i - 1] # CR)

contains_double_space(s) == \E i \in 1 .. Len(s) - 1 : s[i] = Sp /\ s[i + 1] = Sp

\* splitn(n, ' '): the last of at most n pieces keeps the spaces left in it.
Pieces(s, n) ==
  LET spaces == {i \in DOMAIN s : s[i] = Sp}
      cut == {i \in spaces : Cardinality({j \in spaces : j < i}) < n - 1} \cup {0, Len(s) + 1}
      nth(k) == CHOOSE i \in cut : Cardinality({j \in cut : j < i}) = k
  IN [k \in 1 .. Cardinality(cut) - 1 |-> SubSeq(s, nth(k - 1) + 1, nth(k) - 1)]

split_first_field(line) ==
  LET p == Pieces(line, 2) IN <<p[1], IF Len(p) = 2 THEN p[2] ELSE <<>> >>

\* The number a string of digits stands for, -1 when it is not a port.
parse_port(f) ==
  LET value == FoldLeft(LAMBDA n, d : 10 * n + d - 48, 0, f)
  IN IF f = <<>> \/ Len(f) > MaxDigits \/ ~(ToSet(f) \subseteq Digit) \/ value > MaxPort
     THEN -1 ELSE value

parses(f, text) == Len(f) = 1 /\ f[1] \in DOMAIN text

v1_addrs(rest, text) ==
  LET f == Pieces(rest, 4)
  IN IF /\ Len(f) = 4
        /\ parses(f[1], text) /\ parses(f[2], text)
        /\ parse_port(f[3]) # -1 /\ parse_port(f[4]) # -1
     THEN Tcp(Socket(text[f[1][1]], parse_port(f[3])), Socket(text[f[2][1]], parse_port(f[4])))
     ELSE Unspec

v1_line(line, consumed) ==
  LET keyword == split_first_field(line)[1]
      rest == split_first_field(line)[2]
      tcp(text) ==
        IF v1_addrs(rest, text) = Unspec THEN Err("V1BadField")
        ELSE Complete(v1_addrs(rest, text), consumed, 0)
  IN IF keyword = <<UNKNOWN>> THEN Complete(Unspec, consumed, 0)
     ELSE IF line # <<>> /\ Sp \in {line[1], Last(line)} THEN Err("V1BadField")
     ELSE IF contains_double_space(line) THEN Err("V1BadField")
     ELSE IF keyword = <<TCP4>> THEN tcp(Ipv4Text)
     ELSE IF keyword = <<TCP6>> THEN tcp(Ipv6Text)
     ELSE Err("V1BadProtocol")

v1_parse(buf) ==
  LET scan == SubSeq(buf, 1, IF Len(buf) < MAX_V1_LINE THEN Len(buf) ELSE MAX_V1_LINE)
      crlf == find_crlf(scan)
  IN IF crlf # 0
       THEN v1_line(SubSeq(buf, Len(V1_PREFIX) + 1, crlf - 1), crlf + 1)
     ELSE IF Len(buf) >= MAX_V1_LINE THEN Err("V1LineTooLong")
     ELSE IF has_bare_lf(scan) THEN Err("V1BareLf")
     ELSE Partial

------------------------------------------------------------------------------
(* v2: a fixed part, an address block and TLVs.                             *)

FIXED_HEADER_LEN == Len(V2_SIGNATURE) + 3
Local == 32      \* 0x20
Proxy == 33      \* 0x21

\* The size of a family's address block and whether a TCP peer is named by it.
family_shape ==
  (0 :> <<0, FALSE>>) @@ (17 :> <<4, TRUE>>) @@ (33 :> <<6, TRUE>>)
  @@ (18 :> <<4, FALSE>>) @@ (34 :> <<6, FALSE>>) @@ (49 :> <<8, FALSE>>)
  @@ (50 :> <<8, FALSE>>)

\* The number of TLVs in a region, -1 when one does not fit in it.
walk_tlvs(region) ==
  LET rest(o) == Len(region) - o
      walk[o \in 0 .. Len(region)] ==
        IF rest(o) = 0 THEN 0
        ELSE IF rest(o) < 2 \/ rest(o) < 2 + region[o + 2] THEN -1
        ELSE LET n == walk[o + 2 + region[o + 2]] IN IF n = -1 THEN -1 ELSE n + 1
  IN walk[0]

v2_addrs(b, required) ==
  LET n == (required - 2) \div 2
  IN Tcp(Socket(SubSeq(b, 1, n), b[required - 1]), Socket(SubSeq(b, n + 1, 2 * n), b[required]))

v2_parse(buf) ==
  LET fixed == Len(V2_SIGNATURE)
      ver_cmd == buf[fixed + 1]
      fam_proto == buf[fixed + 2]
      len == buf[fixed + 3]
      required == family_shape[fam_proto][1]
      total == FIXED_HEADER_LEN + len
      block == SubSeq(buf, FIXED_HEADER_LEN + 1, total)
      tlvs == walk_tlvs(SubSeq(block, required + 1, len))
  IN IF Len(buf) < FIXED_HEADER_LEN THEN Partial
     ELSE IF ver_cmd \div 16 # 2 THEN Err("V2BadVersion")
     ELSE IF ver_cmd \notin {Local, Proxy} THEN Err("V2BadCommand")
     ELSE IF fam_proto \notin DOMAIN family_shape THEN Err("V2BadFamily")
     ELSE IF Len(buf) < total THEN Partial
     ELSE IF len < required THEN Err("V2LengthTooSmall")
     ELSE IF ver_cmd = Local THEN Complete(Unspec, total, 0)
     ELSE IF tlvs = -1 THEN Err("V2BadTlv")
     ELSE Complete(IF family_shape[fam_proto][2] THEN v2_addrs(block, required) ELSE Unspec,
                   total, tlvs)

\* Below the length of the signature only the beginnings of the two formats pass.
parse_by_length(buf) ==
  IF Len(buf) < Len(V2_SIGNATURE)
    THEN IF IsPrefix(buf, V2_SIGNATURE) \/ IsPrefix(buf, V1_PREFIX) THEN Partial
         ELSE Err("NotAProxyHeader")
  ELSE IF IsPrefix(V2_SIGNATURE, buf) THEN v2_parse(buf)
  ELSE IF IsPrefix(V1_PREFIX, buf) THEN v1_parse(buf)
  ELSE Err("NotAProxyHeader")

\* The two formats share no first byte; one is chosen as soon as it is certain.
parse(buf) ==
  IF IsPrefix(V2_SIGNATURE, buf) THEN v2_parse(buf)
  ELSE IF IsPrefix(V1_PREFIX, buf) THEN v1_parse(buf)
  ELSE IF IsPrefix(buf, V2_SIGNATURE) \/ IsPrefix(buf, V1_PREFIX) THEN Partial
  ELSE Err("NotAProxyHeader")

------------------------------------------------------------------------------
(* The encoder, and the caller that parses after every read.                *)

start == Len(Prior)
family(socket) == IF Len(socket.ip) = 1 THEN 17 ELSE 33
Payload == Len(out) - start - FIXED_HEADER_LEN

Init ==
  /\ out = Prior /\ enc = "idle" /\ ends = <<>> /\ kept = 0 /\ skipped = 0
  /\ sent \in IF Streams = {} THEN {<<>>} ELSE Streams
  /\ got = 0 /\ verdict = Partial

\* Addresses of two families are refused with nothing written.
begin(src, dst) ==
  /\ Streams = {} /\ enc = "idle" /\ family(src) = family(dst)
  /\ out' = out \o V2_SIGNATURE \o <<Proxy, family(src), 0>> \o src.ip \o dst.ip
                \o <<src.port, dst.port>>
  /\ enc' = "open" /\ ends' = Tcp(src, dst)
  /\ UNCHANGED <<kept, skipped, sent, got, verdict>>

\* A value longer than any payload is an error that changes nothing.
append_tlv(n) ==
  /\ enc = "open" /\ n <= MAX_PAYLOAD_LEN /\ kept + skipped < MaxTlvs
  /\ IF Payload + 2 + n > MAX_PAYLOAD_LEN
     THEN skipped' = skipped + 1 /\ UNCHANGED <<out, kept>>
     ELSE /\ out' = out \o <<2, n>> \o [i \in 1 .. n |-> i]
          /\ kept' = kept + 1 /\ UNCHANGED skipped
  /\ UNCHANGED <<enc, ends, sent, got, verdict>>

\* The length is patched in from what was written; a length that cannot be
\* right truncates the buffer back to where the header began.
finish ==
  /\ enc = "open"
  /\ IF Payload \in 4 .. MAX_PAYLOAD_LEN
     THEN /\ out' = [out EXCEPT ![start + FIXED_HEADER_LEN] = Payload]
          /\ enc' = "finished"
     ELSE out' = SubSeq(out, 1, start) /\ enc' = "dropped"
  /\ UNCHANGED <<ends, kept, skipped, sent, got, verdict>>

\* encode_v2 drops the encoder on the first error.
drop ==
  /\ enc = "open"
  /\ out' = SubSeq(out, 1, start) /\ enc' = "dropped"
  /\ UNCHANGED <<ends, kept, skipped, sent, got, verdict>>

Send ==
  /\ enc = "finished" /\ sent = <<>>
  /\ sent' = SubSeq(out, start + 1, Len(out)) \o App
  /\ UNCHANGED <<out, enc, ends, kept, skipped, got, verdict>>

\* A read brings any part of what is under way; the caller parses from the
\* front, closes on an error and stops at a complete header.
Read(n) ==
  /\ verdict = Partial /\ got + n <= Len(sent)
  /\ got' = got + n
  /\ verdict' = parse(SubSeq(sent, 1, got'))
  /\ UNCHANGED <<out, enc, ends, kept, skipped, sent>>

Next ==
  \/ \E src, dst \in Sockets : begin(src, dst)
  \/ \E n \in ValueLens : append_tlv(n)
  \/ finish
  \/ drop
  \/ Send
  \/ \E n \in 1 .. Len(sent) : Read(n)

Spec == Init /\ [][Next]_pvars

------------------------------------------------------------------------------
(* What a header is, independently of how it is read.                       *)

Numeral(n) == IF n < 10 THEN <<48 + n>> ELSE <<48 + (n \div 10), 48 + (n % 10)>>
Writes(f, n) ==
  /\ Len(f) <= MaxDigits
  /\ \E z \in 0 .. Len(f) : f = [i \in 1 .. z |-> 48] \o Numeral(n)

IsUnknown(h) ==
  /\ Len(h) \in Len(V1_PREFIX) + 3 .. MAX_V1_LINE /\ find_crlf(h) = Len(h) - 1
  /\ IsPrefix(V1_PREFIX, h) /\ h[3] = UNKNOWN /\ h[4] \in {Sp, CR}

\* The port fields of h are SubSeq(h, 9, i) and what follows up to the CRLF.
TcpLine(h, keyword, text, i) ==
  /\ Len(h) <= MAX_V1_LINE /\ h[5] \in DOMAIN text /\ h[7] \in DOMAIN text
  /\ h = V1_PREFIX \o <<keyword, Sp, h[5], Sp, h[7], Sp>> \o SubSeq(h, 9, i) \o <<Sp>>
         \o SubSeq(h, i + 2, Len(h) - 2) \o <<CR, LF>>

TcpMeanings(h, keyword, text) ==
  UNION {{Tcp(Socket(text[h[5]], m), Socket(text[h[7]], n)) :
            m \in {x \in 0 .. MaxPort : Writes(SubSeq(h, 9, i), x)},
            n \in {x \in 0 .. MaxPort : Writes(SubSeq(h, i + 2, Len(h) - 2), x)}} :
         i \in {k \in 9 .. Len(h) - 4 : TcpLine(h, keyword, text, k)}}

IsTlvs(r) ==
  \E cuts \in SUBSET (0 .. Len(r)) :
    /\ {0, Len(r)} \subseteq cuts
    /\ \A i \in cuts \ {Len(r)} : i + 2 <= Len(r) /\ i + 2 + r[i + 2] \in cuts

V2Meanings(h) ==
  LET b == SubSeq(h, FIXED_HEADER_LEN + 1, Len(h))
      command == h[FIXED_HEADER_LEN - 2]
      fam == h[FIXED_HEADER_LEN - 1]
      need == family_shape[fam][1]
      framed ==
        /\ Len(h) >= FIXED_HEADER_LEN /\ IsPrefix(V2_SIGNATURE, h)
        /\ h[FIXED_HEADER_LEN] = Len(b) /\ fam \in DOMAIN family_shape /\ need <= Len(b)
      named == CASE fam = 17 -> Tcp(Socket(<<b[1]>>, b[3]), Socket(<<b[2]>>, b[4]))
                 [] fam = 33 -> Tcp(Socket(<<b[1], b[2]>>, b[5]), Socket(<<b[3], b[4]>>, b[6]))
                 [] OTHER -> Unspec
  IN {a \in {Unspec} : framed /\ command = Local}
     \cup {a \in IF framed THEN {named} ELSE {} :
             command = Proxy /\ IsTlvs(SubSeq(b, need + 1, Len(b)))}

\* The addresses that h, taken as one header, names; none when h is not a header.
Meanings(h) ==
  {a \in {Unspec} : IsUnknown(h)} \cup TcpMeanings(h, TCP4, Ipv4Text)
  \cup TcpMeanings(h, TCP6, Ipv6Text) \cup V2Meanings(h)

\* ProxyHeader::parse: however the stream was cut into reads, exactly a header
\* at its front completes, with the addresses it names, and nothing behind it is
\* consumed; a refused stream holds none.  One exception is real: a bare LF in
\* the text that an UNKNOWN line may carry is refused when a read ends before
\* the CRLF and ignored when the line arrives whole.
ReadsHeaders ==
  LET front(k) == SubSeq(sent, 1, k)
      none(n) == \A k \in 1 .. n : Meanings(front(k)) = {}
      whole == \E k \in 1 .. Len(sent) : IsUnknown(front(k))
  IN CASE verdict.st = "complete" -> Meanings(front(verdict.consumed)) = {verdict.addrs}
       [] verdict.st = "error" -> none(Len(sent)) \/ (verdict.why = "V1BareLf" /\ whole)
       [] OTHER -> none(got)

\* MAX_V1_LINE and the declared length: the receiver never waits for more than
\* the longest line or the length it was told.
WaitsNoLonger ==
  verdict = Partial /\ got >= FIXED_HEADER_LEN =>
    got < IF IsPrefix(V2_SIGNATURE, sent) THEN FIXED_HEADER_LEN + sent[FIXED_HEADER_LEN]
          ELSE MAX_V1_LINE

\* V2Encoder and parse: what the encoder finishes, the next hop reads as the same
\* addresses and as many TLVs, and what follows the header is the client's own
\* stream, whatever was skipped for space; an encoder that fails or is dropped
\* leaves the buffer as it found it.
HeaderArrives ==
  /\ IsPrefix(Prior, out)
  /\ enc = "dropped" => out = Prior
  /\ enc = "finished" /\ verdict # Partial =>
       /\ verdict.st = "complete" /\ verdict.addrs = ends /\ verdict.tlvs = kept
       /\ SubSeq(sent, verdict.consumed + 1, Len(sent)) = App
  /\ enc = "finished" /\ sent # <<>> /\ got >= Len(sent) - Len(App) => verdict # Partial
=============================================================================
