-------------------------------- MODULE Hops --------------------------------
(***************************************************************************)
(* Who is the client?  A request crosses a row of hops that all run this   *)
(* code: each reads the Forwarded and X-Forwarded-* fields into a          *)
(* ForwardedChain, resolves the peer's identity under its TrustPolicy,     *)
(* strips what it read, and writes its own fields for the next one.        *)
(*                                                                         *)
(* A value is a sequence of units: an address, a port, a word, or one of   *)
(* the bytes the parser tells apart ("DQ" is a double quote, "BS" a        *)
(* backslash).                                                             *)
(***************************************************************************)
EXTENDS Integers, Sequences, SequencesExt, FiniteSets

CONSTANTS
  V4, V6,        \* addresses
  Client,        \* where requests really come from
  Balancer,      \* an L4 balancer in front of the first hop, which sends PROXY headers
  Rows,          \* rows of hops: [addr, policy, cidrs, hops, forwarded, x_forwarded]
  Claims,        \* sections a client may send: sequences of <<name, value>>
  MaxBytes, MaxElements      \* max_forwarded_bytes, max_forwarded_elements

VARIABLES
  row,       \* the hops a request crosses
  at,        \* hops passed
  fields,    \* the identity fields on their way to the next hop
  peer,      \* [ip, port] of the connection they travel on
  declared,  \* what a PROXY header on it declares, or None
  ids,       \* the PeerIdentity each hop resolved
  refused    \* the RejectReason of the hop that refused the request

ovars == <<row, at, fields, peer, declared, ids, refused>>

None == [ip |-> "", port |-> ""]
Ows == {" "}
Ports == {"0", "1"}

------------------------------------------------------------------------------
(* forwarded.rs                                                             *)

trim_ows(v) ==
  LET solid == {i \in DOMAIN v : v[i] \notin Ows}
  IN IF solid = {} THEN <<>>
     ELSE SubSeq(v, CHOOSE i \in solid : \A j \in solid : i <= j,
                    CHOOSE i \in solid : \A j \in solid : j <= i)

TopLevelSplit(v, delim) ==
  LET step(s, u) ==
        IF s.escaped THEN [s EXCEPT !.escaped = FALSE, !.parts[Len(s.parts)] = Append(@, u)]
        ELSE IF ~s.quoted /\ u = delim THEN [s EXCEPT !.parts = Append(@, <<>>)]
        ELSE [s EXCEPT !.parts[Len(s.parts)] = Append(@, u),
                       !.quoted = IF u = "DQ" THEN ~@ ELSE @,
                       !.escaped = s.quoted /\ u = "BS"]
  IN FoldLeft(step, [parts |-> << <<>> >>, quoted |-> FALSE, escaped |-> FALSE], v).parts

unescape(v) ==
  LET step(s, u) == IF ~s.escaped /\ u = "BS" THEN [s EXCEPT !.escaped = TRUE]
                    ELSE [escaped |-> FALSE, text |-> Append(s.text, u)]
  IN FoldLeft(step, [escaped |-> FALSE, text |-> <<>>], v).text

Quoted(v) == Len(v) >= 2 /\ v[1] = "DQ" /\ Last(v) = "DQ"
Interior(v) == SubSeq(v, 2, Len(v) - 1)

Addr(ip, port) == [kind |-> "Addr", ip |-> ip, port |-> IF port = "0" THEN "" ELSE port]
Node(kind) == [kind |-> kind, ip |-> "", port |-> ""]

\* An address alone, or followed by ":" and a port.
with_port(ip, rest) ==
  IF rest = <<>> THEN Addr(ip, "")
  ELSE IF Len(rest) = 2 /\ rest[1] = ":" /\ rest[2] \in Ports THEN Addr(ip, rest[2])
  ELSE Node("Unknown")

classify_unquoted(v) ==
  CASE v = <<>> \/ v = <<"unknown">> -> Node("Unknown")
    [] v # <<>> /\ v[1] = "_h" -> Node("Obfuscated")
    [] v # <<>> /\ v[1] = "[" ->
         IF Len(v) >= 3 /\ v[2] \in V6 /\ v[3] = "]" THEN with_port(v[2], SubSeq(v, 4, Len(v)))
         ELSE Node("Unknown")
    [] OTHER -> IF v[1] \in V4 THEN with_port(v[1], Tail(v)) ELSE Node("Unknown")

parse_node_name(v) ==
  IF v # <<>> /\ v[1] = "DQ"
    THEN IF Quoted(v) THEN classify_unquoted(unescape(Interior(v))) ELSE Node("Unknown")
  ELSE classify_unquoted(v)

parse_proto(v) ==
  LET w == IF Quoted(v) THEN unescape(Interior(v)) ELSE v
  IN IF w = <<"http">> \/ w = <<"https">> THEN w[1] ELSE ""

\* The parameters of an element as <<name, value>>, <<"">> for a missing "=".
Param(pair) ==
  LET eq == {i \in DOMAIN pair : pair[i] = "="}
      i == CHOOSE i \in eq : \A j \in eq : i <= j
  IN IF eq = {} THEN <<<<"">>, <<>>>>
     ELSE <<trim_ows(SubSeq(pair, 1, i - 1)), trim_ows(SubSeq(pair, i + 1, Len(pair)))>>

Params(element) == LET p == TopLevelSplit(element, ";") IN [i \in DOMAIN p |-> Param(trim_ows(p[i]))]

\* What the element gives a parameter: nothing, or one value.
Given(params, name) == SelectSeq(params, LAMBDA p : p[1] = <<name>>)

\* An element, or the reason it is refused; the first fault in it decides.
from_params(params) ==
  LET syntax == {i \in DOMAIN params : params[i][1] = <<"">>}
      twice == {i \in DOMAIN params : /\ params[i][1] \in {<<"for">>, <<"proto">>, <<"host">>, <<"by">>}
                                      /\ \E j \in 1 .. i - 1 : params[j][1] = params[i][1]}
      first == CHOOSE i \in syntax \cup twice : \A j \in syntax \cup twice : i <= j
      node == Given(params, "for")
      proto == Given(params, "proto")
  IN IF syntax \cup twice # {}
       THEN [err |-> IF first \in syntax THEN "ForwardedSyntax" ELSE "ForwardedDuplicateParam"]
     ELSE [err |-> "", node |-> IF node = <<>> THEN Node("Absent") ELSE parse_node_name(node[1][2]),
           proto |-> IF proto = <<>> THEN "" ELSE parse_proto(proto[1][2]), from_xff |-> FALSE]

parse_element(raw) == IF trim_ows(raw) = <<>> THEN [err |-> "ForwardedSyntax"] ELSE from_params(Params(trim_ows(raw)))

xff_element(raw) ==
  IF trim_ows(raw) = <<>> THEN [err |-> "ForwardedSyntax"]
  ELSE [err |-> "", node |-> parse_node_name(trim_ows(raw)), proto |-> "", from_xff |-> TRUE]

Chain(err, bytes, elements) == [err |-> err, bytes |-> bytes, elements |-> elements]

add_element(c, e) ==
  IF c.err # "" THEN c
  ELSE IF Len(c.elements) >= MaxElements THEN [c EXCEPT !.err = "ForwardedElementLimit"]
  ELSE IF e.err # "" THEN [c EXCEPT !.err = e.err] ELSE [c EXCEPT !.elements = Append(@, e)]

charge_bytes(c, v) ==
  IF c.err # "" THEN c
  ELSE IF c.bytes + Len(v) > MaxBytes THEN [c EXCEPT !.err = "ForwardedBytesLimit"]
  ELSE [c EXCEPT !.bytes = @ + Len(v)]

Values(section, name) == SelectSeq(section, LAMBDA f : f[1] = name)

with_forwarded(c, f) ==
  FoldLeft(LAMBDA d, span : add_element(d, parse_element(span)), charge_bytes(c, f[2]), TopLevelSplit(f[2], ","))
with_xff(c, f) ==
  FoldLeft(LAMBDA d, span : add_element(d, xff_element(span)), charge_bytes(c, f[2]), TopLevelSplit(f[2], ","))

\* X-Forwarded-Proto speaks for the nearest element that has no proto of its own.
with_proto(c, proto) ==
  IF c.err # "" \/ proto = "" \/ c.elements = <<>> \/ Last(c.elements).proto # "" THEN c
  ELSE [c EXCEPT !.elements[Len(c.elements)].proto = proto]

last_proto(values) ==
  IF values = <<>> THEN "" ELSE parse_proto(trim_ows(Last(TopLevelSplit(Last(values)[2], ","))))

from_section(s) ==
  LET f == FoldLeft(with_forwarded, Chain("", 0, <<>>), Values(s, "forwarded"))
      x == FoldLeft(with_xff, f, Values(s, "x-forwarded-for"))
      p == FoldLeft(LAMBDA c, v : charge_bytes(c, v[2]), x, Values(s, "x-forwarded-proto"))
  IN with_proto(p, last_proto(Values(s, "x-forwarded-proto")))

------------------------------------------------------------------------------
(* peer.rs                                                                  *)

nearest_proto(elements, start) ==
  LET with == {i \in start .. Len(elements) : elements[i].proto # ""}
  IN IF with = {} THEN "" ELSE elements[CHOOSE i \in with : \A j \in with : i <= j].proto

chain_mixes_families(elements) ==
  \E i, j \in DOMAIN elements : elements[i].from_xff /\ ~elements[j].from_xff

Identity(client, port, source, proto, hops, trusted) ==
  [client |-> client, client_port |-> port, source |-> source, forwarded_proto |-> proto,
   trusted_hops |-> hops, peer_trusted |-> trusted]

\* The element the walk from the near end stops at, 0 when it fails closed:
\* the first one that is not a trusted address, or the last of them all.
walk_trusted_cidrs(elements, cidrs) ==
  LET n == Len(elements)
      trusted(i) == elements[i].node.kind = "Addr" /\ elements[i].node.ip \in cidrs
      stop == {i \in 1 .. n : (~trusted(i) \/ i = 1) /\ \A j \in i + 1 .. n : trusted(j)}
      i == CHOOSE i \in stop : TRUE
  IN IF stop = {} \/ elements[i].node.kind # "Addr" THEN 0 ELSE i

from_chain(elements, i, hops, trusted) ==
  Identity(elements[i].node.ip, elements[i].node.port, "ForwardedChain",
           nearest_proto(elements, i), hops, trusted)

by_hop_count(elements, n, closed) ==
  LET i == Len(elements) - n + 1
  IN IF i < 1 \/ i > Len(elements) \/ elements[i].node.kind # "Addr" THEN closed
     ELSE from_chain(elements, i, n, FALSE)

by_cidrs(elements, cidrs, i, closed) ==
  IF i = 0 THEN closed
  ELSE from_chain(elements, i,
         Cardinality({j \in i .. Len(elements) : elements[j].node.ip \in cidrs}), TRUE)

resolve_identity(base, source, elements, hop) ==
  LET trusted == hop.policy = "TrustedCidrs" /\ base.ip \in hop.cidrs
      closed == Identity(base.ip, base.port, source, "", 0, trusted)
  IN IF hop.policy = "None" \/ chain_mixes_families(elements) THEN closed
     ELSE IF hop.policy = "HopCount" THEN by_hop_count(elements, hop.hops, closed)
     ELSE IF ~trusted \/ elements = <<>> THEN closed
     ELSE by_cidrs(elements, hop.cidrs, walk_trusted_cidrs(elements, hop.cidrs), closed)

write_node(ip, port) ==
  (IF ip \in V6 THEN <<"[", ip, "]">> ELSE <<ip>>) \o IF port = "" THEN <<>> ELSE <<":", port>>

client_needs_quote(id) == id.client \in V6 \/ id.client_port # ""
quote(v, needed) == IF needed THEN <<"DQ">> \o v \o <<"DQ">> ELSE v

write_forwarded_element(id, hop, scheme) ==
  <<"for", "=">> \o quote(write_node(id.client, id.client_port), client_needs_quote(id))
  \o <<";", "by", "=">> \o quote(write_node(hop.addr, "1"), TRUE)
  \o <<";", "proto", "=", scheme, ";", "host", "=", "h">>

\* serialize_request_head: the identity fields of a request, whose own were
\* stripped at ingress.
written(id, hop, scheme) ==
  (IF hop.forwarded THEN << <<"forwarded", write_forwarded_element(id, hop, scheme)>> >> ELSE <<>>)
  \o IF hop.x_forwarded
     THEN << <<"x-forwarded-for", write_node(id.client, "")>>, <<"x-forwarded-proto", <<scheme>>>> >>
     ELSE <<>>

\* The hop appends its own fields behind the ones it received.
appended(id, hop, scheme) == fields \o written(id, hop, scheme)

strip_and_write(id, hop, scheme) == written(id, hop, scheme)

------------------------------------------------------------------------------
Init == row = <<>> /\ at = 0 /\ fields = <<>> /\ peer = None /\ declared = None /\ ids = <<>> /\ refused = ""

\* A client sends a request, straight to the first hop or through a balancer
\* that declares its address.
Send(r, claim, balanced) ==
  /\ row = <<>> /\ row' = r
  /\ fields' = claim
  /\ peer' = [ip |-> IF balanced THEN Balancer ELSE Client, port |-> "1"]
  /\ declared' = IF balanced THEN [ip |-> Client, port |-> "1"] ELSE None
  /\ UNCHANGED <<at, ids, refused>>

passed(chain, id, hop) ==
  IF chain.err # "" THEN refused' = chain.err /\ UNCHANGED <<at, fields, peer, declared, ids>>
  ELSE /\ at' = at + 1 /\ ids' = Append(ids, id)
       /\ fields' = strip_and_write(id, hop, "https")
       /\ peer' = [ip |-> hop.addr, port |-> "1"] /\ declared' = None
       /\ UNCHANGED refused

resolved(chain, hop) ==
  passed(chain, resolve_identity(IF declared = None THEN peer ELSE declared,
                                 IF declared = None THEN "Socket" ELSE "ProxyProtocol",
                                 chain.elements, hop), hop)

Relay == /\ refused = "" /\ at < Len(row)
         /\ resolved(from_section(fields), row[at + 1])
         /\ UNCHANGED row

Next == Relay \/ \E r \in Rows, claim \in Claims, balanced \in BOOLEAN : Send(r, claim, balanced)

------------------------------------------------------------------------------
\* The first hop takes nobody's word for the client.
Edge == row # <<>> /\ (row[1].policy = "None" \/ (row[1].policy = "TrustedCidrs" /\ Client \notin row[1].cidrs))
\* Hop k hears of the client through hops that each trust the one before and
\* write one family of fields.
Heard(k) == /\ \A i \in 2 .. k : row[i].policy = "TrustedCidrs" /\ row[i - 1].addr \in row[i].cidrs
            /\ \A i \in 1 .. k - 1 : row[i].forwarded # row[i].x_forwarded

\* resolve_identity, strip_ingress and write_forwarded_element together: a hop
\* that the client's hops vouch for knows the client, whatever the client wrote
\* about itself, and as the default emission of both families makes the next
\* hop fail closed, it then names the nearest hop.
TrueClient ==
  Edge => \A k \in DOMAIN ids :
    /\ ids[k].client \in {Client} \cup {row[i].addr : i \in 1 .. k - 1}
    /\ Heard(k) => ids[k].client = Client
    /\ k > 1 /\ row[k - 1].forwarded /\ row[k - 1].x_forwarded => ids[k].client = row[k - 1].addr

\* A scheme is believed only together with the client it came with, and then
\* it is the one the nearest hop spoke.
SchemeFromHop ==
  Edge => \A k \in DOMAIN ids :
    ids[k].forwarded_proto # "" =>
      k > 1 /\ ids[k].source = "ForwardedChain" /\ ids[k].forwarded_proto = "https"

\* What one hop writes no next hop refuses.
RefusedAtTheEdge == refused # "" => at = 0
=============================================================================
