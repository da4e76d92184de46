----------------------------- MODULE ClientAuth ------------------------------
(***************************************************************************)
(* Which configuration a ClientHello is answered with and whether the      *)
(* client's certificates are taken: revocation lists are loaded,           *)
(* configurations compiled against them and bound to names, the listener   *)
(* built, and then connections read a hello, are given a configuration and *)
(* have their chain verified.                                              *)
(*                                                                         *)
(* A name is a model value in its normal form, Parent its parent; "bad" is *)
(* an SNI that has none.  A hash of names is a function, that of issuers   *)
(* is taken to be injective.  A serial is a sequence of bytes.  The path   *)
(* building of the verifier library is external: a chain leads to its root.*)
(***************************************************************************)
EXTENDS Integers, Sequences, SequencesExt, FiniteSets

CONSTANTS
  Names, Parent,              \* Parent[n], "none" for a single label
  Hash,                       \* name -> key
  TooBroad,                   \* parents no wildcard may have
  MAX_BINDINGS, MaxHello,
  Crls,                       \* CRLs offered: [issuer, this, next, delta, signed, serials]
  MaxEntries, WideAbove, LongestSerial,
  Bits,                       \* packed serial -> the bits of the filter it sets
  CrlSkew, NoNextTtl, StaleGrace,
  Configs,                    \* [mode, anchors, enforced, allow_unknown, context]
  Bindings,                   \* [wild, name, config] that may be bound
  Hellos,                     \* [sni, len, formed]
  Chains,                     \* [root, certs], certs a sequence of [serial, issuer, formed]
  MaxLoads, MaxConns, MaxTime

VARIABLES
  now,
  indices,           \* RevocationIndexes built, in order
  loads,
  bindings, overflowed, no_sni, fallback,
  listener,          \* <<>> until built
  conn,              \* the connection being accepted
  conns

avars == <<now, indices, loads, bindings, overflowed, no_sni, fallback, listener, conn, conns>>

------------------------------------------------------------------------------
(* crl.rs                                                                   *)

\* Leading zeros go, the last byte stays.
normalize_serial(s) ==
  LET lead == {i \in DOMAIN s : i < Len(s) /\ \A j \in 1 .. i : s[j] = 0}
  IN IF s = <<>> THEN <<0>> ELSE SubSeq(s, Cardinality(lead) + 1, Len(s))

pack_serial(s) == [i \in 1 .. WideAbove |-> IF i <= WideAbove - Len(s) THEN 0 ELSE s[i - (WideAbove - Len(s))]]
Head16(s) == SubSeq(s, 1, WideAbove)

EffectiveNext(c) == IF c.next = <<>> THEN c.this + NoNextTtl ELSE c.next[1]

\* Entries held after the first n: every narrow one, each wide one once.
Filed(serials, n) ==
  LET norm == [i \in 1 .. n |-> normalize_serial(serials[i])]
  IN Cardinality({i \in 1 .. n : Len(norm[i]) <= WideAbove})
     + Cardinality({s \in ToSet(norm) : Len(s) > WideAbove})

\* parse, verify_signature and RevocationIndex::build: what they refuse.
Builds(c, t) ==
  /\ ~c.delta /\ c.signed
  /\ c.this <= t + CrlSkew /\ EffectiveNext(c) + CrlSkew >= t
  /\ \A i \in DOMAIN c.serials : Filed(c.serials, i - 1) < MaxEntries
  /\ \A i \in DOMAIN c.serials : Len(normalize_serial(c.serials[i])) <= LongestSerial

Normal(c) == {normalize_serial(s) : s \in ToSet(c.serials)}
Packed(c) == {pack_serial(s) : s \in {s \in Normal(c) : Len(s) <= WideAbove}}
Wide(c) == {s \in Normal(c) : Len(s) > WideAbove}
Index(c) ==
  [issuer |-> c.issuer, this |-> c.this, next |-> c.next, serials |-> Packed(c), wide |-> Wide(c),
   bloom |-> UNION {Bits[p] : p \in Packed(c) \cup {Head16(s) : s \in Wide(c)}}]

Probe(idx, s) ==
  IF Len(s) > WideAbove THEN s \in idx.wide
  ELSE Bits[pack_serial(s)] \subseteq idx.bloom /\ pack_serial(s) \in idx.serials
is_revoked(idx, serial) == Probe(idx, normalize_serial(serial))

freshness(idx, t) ==
  IF t <= EffectiveNext(idx) THEN "Fresh"
  ELSE IF t <= EffectiveNext(idx) + StaleGrace THEN "Stale" ELSE "Expired"

\* CrlSet::from_indices: of an issuer's the first with the latest thisUpdate.
for_issuer(issuer, idxs) ==
  LET of == {i \in DOMAIN idxs : idxs[i].issuer = issuer}
  IN IF of = {} THEN <<>>
     ELSE <<idxs[CHOOSE i \in of : \A j \in of : idxs[i].this > idxs[j].this \/ (idxs[i].this = idxs[j].this /\ i <= j)]>>

load_crl(c) ==
  /\ loads < MaxLoads /\ loads' = loads + 1 /\ listener = <<>>
  /\ indices' = IF Builds(c, now) THEN Append(indices, Index(c)) ELSE indices
  /\ UNCHANGED <<now, bindings, overflowed, no_sni, fallback, listener, conn, conns>>

------------------------------------------------------------------------------
(* verify_client.rs                                                         *)

Rank(mode) == CASE mode = "None" -> 0 [] mode = "Optional" -> 1 [] mode = "Required" -> 2

\* ClientAuth::compile, IronClientVerifier::new and compile_with_client_auth:
\* the configuration with the CRLs of the moment, <<>> when refused.  The
\* context a ticketer must have is the identity of the anchors.
Context(c) == IF c.mode = "None" THEN {} ELSE c.anchors
compile(c) ==
  IF /\ c.mode # "None" => c.anchors # {} /\ (c.enforced => indices # <<>>)
     /\ c.context # <<>> => c.context[1] = Context(c)
  THEN <<[config |-> c, crls |-> indices]>> ELSE <<>>

\* What one certificate of the chain is refused for, "" if nothing.
Refusal(cert, cfg) ==
  LET idx == for_issuer(cert.issuer, cfg.crls)
  IN IF ~cert.formed THEN "BadEncoding"
     ELSE IF idx = <<>> THEN IF cfg.config.allow_unknown THEN "" ELSE "Unknown"
     ELSE IF freshness(idx[1], now) = "Expired" /\ ~cfg.config.allow_unknown THEN "Unknown"
     ELSE IF is_revoked(idx[1], cert.serial) THEN "Revoked" ELSE ""

verify_client_cert(chain, cfg) ==
  /\ chain.root \in cfg.config.anchors
  /\ cfg.config.enforced => \A i \in DOMAIN chain.certs : Refusal(chain.certs[i], cfg) = ""

------------------------------------------------------------------------------
(* listener.rs                                                              *)

push(b) ==
  IF Len(bindings) >= MAX_BINDINGS
  THEN overflowed' = TRUE /\ UNCHANGED bindings
  ELSE bindings' = Append(bindings, [wild |-> b.wild, name |-> b.name, tls |-> compile(b.config)[1]])
       /\ UNCHANGED overflowed

\* bind_exact and bind_wildcard.
bind(b) ==
  /\ listener = <<>>
  /\ compile(b.config) # <<>>
  /\ IF b.wild /\ b.name \in TooBroad THEN UNCHANGED <<bindings, overflowed>> ELSE push(b)
  /\ UNCHANGED <<now, indices, loads, no_sni, fallback, listener, conn, conns>>

set_no_sni(c) ==
  /\ listener = <<>> /\ compile(c) # <<>> /\ no_sni' = compile(c)
  /\ UNCHANGED <<now, indices, loads, bindings, overflowed, fallback, listener, conn, conns>>
set_fallback(c) ==
  /\ listener = <<>> /\ compile(c) # <<>> /\ fallback' = compile(c)
  /\ UNCHANGED <<now, indices, loads, bindings, overflowed, no_sni, listener, conn, conns>>

Auth(tls) == Rank(tls.config.mode)
Bound == DOMAIN bindings
Strongest == {i \in Bound : \A j \in Bound : Auth(bindings[j].tls) <= Auth(bindings[i].tls)}
NotWeaker(opt) == opt # <<>> => \A i \in Strongest : Auth(opt[1]) >= Auth(bindings[i].tls)

\* The checks of build.
Unique == \A i, j \in Bound : i # j => bindings[i].name # bindings[j].name \/ bindings[i].wild # bindings[j].wild
Agreeing ==
  \A i, j \in Bound :
    ~bindings[i].wild /\ bindings[j].wild /\ bindings[j].name = Parent[bindings[i].name]
      => Auth(bindings[i].tls) = Auth(bindings[j].tls)
OnlyFallback == Unique /\ Agreeing /\ NotWeaker(fallback)
Lints == Unique /\ Agreeing /\ NotWeaker(fallback) /\ NotWeaker(no_sni)

\* A key two names share is the later binding's.
MapOf(wild) ==
  LET of == {i \in Bound : bindings[i].wild = wild}
  IN [k \in {Hash[bindings[i].name] : i \in of} |->
        CHOOSE i \in of : Hash[bindings[i].name] = k /\ \A j \in of : Hash[bindings[j].name] = k => j <= i]

build ==
  /\ listener = <<>> /\ ~overflowed /\ Lints
  /\ listener' = <<[exact |-> MapOf(FALSE), wild |-> MapOf(TRUE)]>>
  /\ UNCHANGED <<now, indices, loads, bindings, overflowed, no_sni, fallback, conn, conns>>

Hit(map, name) == name # "none" /\ Hash[name] \in DOMAIN map /\ bindings[map[Hash[name]]].name = name
resolve_by_name(sni) ==
  IF sni = "bad" THEN fallback
  ELSE IF Hit(listener[1].exact, sni) THEN <<bindings[listener[1].exact[Hash[sni]]].tls>>
  ELSE IF Hit(listener[1].wild, Parent[sni]) THEN <<bindings[listener[1].wild[Hash[Parent[sni]]]].tls>>
  ELSE fallback

\* client_auth_for_name.
client_auth_for_name(n) == LET c == resolve_by_name(n) IN IF c = <<>> THEN 0 ELSE Auth(c[1])

NoConn == [step |-> "none", hello |-> <<>>, consumed |-> 0, tls |-> <<>>, chain |-> <<>>, at |-> 0]

Connect(h) ==
  /\ listener # <<>> /\ conn.step \notin {"reading", "ready"} /\ conns < MaxConns
  /\ conns' = conns + 1
  /\ conn' = [NoConn EXCEPT !.step = "reading", !.hello = <<h>>]
  /\ UNCHANGED <<now, indices, loads, bindings, overflowed, no_sni, fallback, listener>>

\* try_accept, once the hello is whole.
Accept(c, tls) == IF tls = <<>> THEN [c EXCEPT !.step = "rejected"] ELSE [c EXCEPT !.step = "ready", !.tls = tls]
Read(c) ==
  IF c.consumed > MaxHello THEN [c EXCEPT !.step = "rejected"]
  ELSE IF c.consumed < c.hello[1].len THEN c
  ELSE IF ~c.hello[1].formed THEN [c EXCEPT !.step = "rejected"]
  ELSE Accept(c, IF c.hello[1].sni = "none" THEN no_sni ELSE resolve_by_name(c.hello[1].sni))
feed(n) ==
  /\ conn.step = "reading"
  /\ conn' = Read([conn EXCEPT !.consumed = @ + n])
  /\ UNCHANGED <<now, indices, loads, bindings, overflowed, no_sni, fallback, listener, conns>>

\* The rest of the handshake: the client shows a chain or none.
Finish(shown) ==
  LET cfg == conn.tls[1]
      ok == IF cfg.config.mode = "None" THEN TRUE
            ELSE IF shown = <<>> THEN cfg.config.mode = "Optional"
            ELSE verify_client_cert(shown[1], cfg)
  IN /\ conn.step = "ready"
     /\ conn' = [conn EXCEPT !.step = IF ok THEN "established" ELSE "refused", !.at = now,
                             !.chain = IF cfg.config.mode = "None" THEN <<>> ELSE shown]
     /\ UNCHANGED <<now, indices, loads, bindings, overflowed, no_sni, fallback, listener, conns>>

Pass(t) ==
  /\ t \in now + 1 .. MaxTime /\ now' = t
  /\ UNCHANGED <<indices, loads, bindings, overflowed, no_sni, fallback, listener, conn, conns>>

Init ==
  /\ now = 0 /\ indices = <<>> /\ loads = 0
  /\ bindings = <<>> /\ overflowed = FALSE /\ no_sni = <<>> /\ fallback = <<>>
  /\ listener = <<>> /\ conn = NoConn /\ conns = 0

Next ==
  \/ \E c \in Crls : load_crl(c)
  \/ \E b \in Bindings : bind(b)
  \/ \E c \in Configs : set_no_sni(c) \/ set_fallback(c)
  \/ build
  \/ \E h \in Hellos : Connect(h)
  \/ \E n \in 1 .. 2 : feed(n)
  \/ \E ch \in Chains : Finish(<<ch>>)
  \/ Finish(<<>>)
  \/ \E t \in 0 .. MaxTime : Pass(t)

------------------------------------------------------------------------------
(* Properties                                                               *)

Covers(b, n) == IF b.wild THEN b.name = Parent[n] ELSE b.name = n
Authed(n) == {Auth(bindings[i].tls) : i \in {i \in Bound : Covers(bindings[i], n)}}

\* No way to reach a name authenticates the client less than a binding for it
\* asks: not the wildcard when the exact binding is hidden by a colliding
\* hash, not the fallback, and not a hello without a name (build's checks).
NeverWeaker ==
  listener # <<>> =>
    /\ \A n \in Names : resolve_by_name(n) # <<>> =>
         \A k \in Authed(n) : Auth(resolve_by_name(n)[1]) >= k
    /\ no_sni # <<>> => \A n \in Names : \A k \in Authed(n) : Auth(no_sni[1]) >= k

\* Of the lists a configuration was compiled with, the one that speaks for an
\* issuer is the newest; a certificate it lists is in no established chain
\* where revocation is enforced, however its serial is written and however old
\* the list is; and one nobody speaks for only where that is allowed
\* (verify_client_cert, is_revoked, from_indices).
Listed(cert, crls) ==
  \E i \in DOMAIN crls :
    /\ crls[i].issuer = cert.issuer
    /\ \A j \in DOMAIN crls : crls[j].issuer = cert.issuer => crls[j].this <= crls[i].this
    /\ \A j \in 1 .. i - 1 : crls[j].issuer = cert.issuer => crls[j].this < crls[i].this
    /\ normalize_serial(cert.serial) \in
         crls[i].wide \cup {normalize_serial(p) : p \in crls[i].serials}
Spoken(cert, crls) == \E i \in DOMAIN crls : crls[i].issuer = cert.issuer /\ EffectiveNext(crls[i]) + StaleGrace >= conn.at
NeverRevoked ==
  (conn.step = "established" /\ conn.chain # <<>> /\ conn.tls[1].config.enforced) =>
    \A i \in DOMAIN conn.chain[1].certs :
      LET cert == conn.chain[1].certs[i]
      IN /\ ~Listed(cert, conn.tls[1].crls)
         /\ conn.tls[1].config.allow_unknown \/ Spoken(cert, conn.tls[1].crls)

\* A connection is established without a certificate only where its
\* configuration does not require one, and with one only under an anchor of
\* that configuration; what the request path is told of a name
\* (client_auth_for_name) is what the handshake for that name asked; and two
\* bindings whose tickets open each other's sessions trust the same anchors
\* (compile_with_client_auth).
AuthKept ==
  /\ conn.step = "established" =>
       /\ conn.tls[1].config.mode = "Required" => conn.chain # <<>>
       /\ conn.chain # <<>> => conn.chain[1].root \in conn.tls[1].config.anchors
       /\ conn.hello[1].sni # "none" => client_auth_for_name(conn.hello[1].sni) = Auth(conn.tls[1])
  /\ \A i, j \in Bound :
       LET a == bindings[i].tls.config  b == bindings[j].tls.config
       IN (a.context # <<>> /\ a.context = b.context) => Context(a) = Context(b)

\* What client authentication on a listener promises together.
ClientAuthSound == NeverWeaker /\ NeverRevoked /\ AuthKept
=============================================================================
