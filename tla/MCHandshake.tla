-------------------- MODULE MCHandshake --------------------------------------
(* What stands between an accepted connection and its first request: four  *)
(* tasks competing for two slots of the registry, session tickets and      *)
(* early data, the certificate store and its staples, the configuration    *)
(* and client authentication of a listener; and the other handshake, the   *)
(* upgrade to WebSocket, with the frames of the tunnel it opens.  In a     *)
(* behaviour one part moves and the others stay as they started.           *)
EXTENDS ConnRegistry, Integers, Sequences

VARIABLES
  part,
  node, resumed, gens, ticket_current, rotated_at, rotation, thread, flips,
  begun, admitted, wrote, presented,
  cell, pending, first_pending, next_generation, now, failed, submits, firm,
  book, promised,
  staple_cell, staple_pending, staple_first_pending, staple_next_generation,
  staple_now, staple_failed, staple_submits, staple_firm, staple_book,
  staple_promised, tracked, ticks, passed, swept,
  listen_now, indices, loads, bindings, overflowed, no_sni, fallback,
  listener, conn, conns,
  shake, dec, budget, upgrade_now, wire, buf, header, got, out, err, sent,
  spent, upgrade_paced

FourTasks == {"t1", "t2", "t3", "t4"}

Keys(p, q, c) == [primary |-> p, previous |-> q, context |-> c]
TwoRoots ==
  <<Keys("r1", "none", "c1"), Keys("r2", "r1", "c1"), Keys("r2", "r1", "c2")>>
AnyTicket ==
  [root : {"r1", "r2"}, context : {"c1", "c2"}, epoch : 0 .. 3,
   intact : BOOLEAN, sized : {TRUE}]
  \cup {[root |-> "r1", context |-> "c1", epoch |-> 0, intact |-> TRUE,
          sized |-> FALSE]}
AllFacts ==
  [client_auth_enforced : BOOLEAN, method : {"Get", "Head", "Other"},
   has_body_framing : BOOLEAN, route : {"Deny", "Allow", "AllowQuery"},
   has_query : BOOLEAN, bytes_received : {1, 2}, psk_identity : {"short", "p"}]
Early(id) ==
  [client_auth_enforced |-> FALSE, method |-> "Get", has_body_framing |-> FALSE,
   route |-> "Allow", has_query |-> FALSE, bytes_received |-> 1,
   psk_identity |-> id]
Bits3(b, m) == [base |-> b, masks |-> m]
Places ==
  [p |-> Bits3(0, <<{1}, {1}>>), q |-> Bits3(0, <<{1, 2}, {2}>>),
   r |-> Bits3(0, <<{2}, {1, 2}>>)]

Ab == <<"a", ".", "b">>
Cab == <<"c", ".", "a", ".", "b">>
CAB == <<"c", ".", "A", ".", "b", ".">>
Bab == <<"b", ".", "a", ".", "b">>
StarAb == <<"*", ".", "a", ".", "b">>
Cred(fp, type, end, must, staple) ==
  [fp |-> fp, type |-> type, not_after |-> end, must_staple |-> must,
   staple |-> staple]
\* Two seeds of the name hash, under each of which two names collide.
Hashed(k, l, m) ==
  [n \in {Ab, Cab, Bab, <<"b">>} |->
     IF n = Ab THEN k ELSE IF n = Cab THEN l ELSE IF n = Bab THEN m ELSE 3]
H1 == Hashed(1, 2, 2)
H2 == Hashed(1, 1, 2)
E1 == Cred(1, 1, 2, FALSE, <<>>)
R1 == Cred(2, 3, 1, FALSE, <<>>)
M1 == Cred(3, 1, 3, TRUE, <<9>>)
M0 == Cred(3, 1, 3, TRUE, <<>>)
Install(e, w, c) == [op |-> "Install", exact |-> e, wildcard |-> w, cred |-> c]
Answerable(n, k, e) ==
  [op |-> "InstallChallenge", name |-> n, key |-> k, expires |-> e]
CertUpdates ==
  {Install(<<CAB>>, <<>>, E1), Install(<<>>, <<StarAb>>, R1),
   Install(<<Bab, Ab>>, <<>>, M1), Install(<<>>, <<<<"*", ".", "b">>>>, E1),
   [op |-> "Replace", fp |-> 1, cred |-> M1],
   [op |-> "Replace", fp |-> 3, cred |-> M0],
   [op |-> "Remove", names |-> <<Ab>>], [op |-> "Remove", names |-> <<Cab>>],
   [op |-> "SetDefault", cred |-> E1], Answerable(Ab, "k1", 2),
   Answerable(Bab, "k2", 1), [op |-> "RemoveChallenge", name |-> Ab]}
Asks(a, s, c) == [alpn |-> a, sni |-> s, caps |-> c]
CertHellos ==
  {Asks(<<"h2">>, n, c) :
     n \in {<<>>, Ab, CAB, Bab, <<"-">>}, c \in {{1}, {3}, {1, 3}, {}}}
  \cup {Asks(<<"acme">>, n, {1}) : n \in {Ab, Bab}}
  \cup {Asks(<<"h2", "acme">>, Ab, {1})}

Track(c, n, u, i) == [cred |-> c, names |-> n, url |-> u, issuer |-> i]
D1 == Cred(2, 1, 2, TRUE, <<0>>)
G1 == Cred(1, 3, 2, FALSE, <<>>)
Served(def, sans) == [default |-> def, cred |-> D1, sans |-> sans]
MustStaple(n) == {Track(D1, <<n>>, "ok", TRUE)}
FewTracks ==
  MustStaple(Cab) \cup
  {Track(G1, <<Bab>>, "ok", TRUE), Track(D1, <<Cab>>, "none", TRUE),
   Track(G1, <<Bab>>, "barred", TRUE),
   Track(Cred(3, 1, 2, FALSE, <<>>), <<Bab>>, "ok", FALSE)}
Good ==
  [fetched |-> TRUE, successful |-> TRUE, certs |-> <<>>, by_issuer |-> TRUE,
   signed |-> TRUE, count |-> 1, mine |-> TRUE, this |-> 0, next |-> <<2>>,
   nonce |-> "echo", status |-> "Good"]
Nothing == [Good EXCEPT !.fetched = FALSE]
Revoking == {Good, Nothing, [Good EXCEPT !.status = "Revoked"]}
Delegated(e) ==
  [Good EXCEPT !.by_issuer = FALSE,
               !.certs = <<[named |-> TRUE, eku |-> e, vouched |-> TRUE]>>]
AnyAnswer ==
  Revoking \cup
  {[Good EXCEPT !.next = <<>>, !.nonce = "none"], Delegated(TRUE), Delegated(FALSE),
   [Good EXCEPT !.this = 2], [Good EXCEPT !.next = <<-2>>],
   [Good EXCEPT !.nonce = "other"], [Good EXCEPT !.mine = FALSE],
   [Good EXCEPT !.status = "Unknown"]}

ParentOf == [ab |-> "b", cab |-> "ab", bab |-> "ab", b |-> "none"]
KeyOf == [ab |-> 1, cab |-> 2, bab |-> 2, b |-> 3]
BitsOf ==
  [s \in (0 .. 2) \X (0 .. 2) |-> {(s[1] + s[2]) % 3, (s[1] * s[2]) % 3}]
Crl(i, t, n, s) ==
  [issuer |-> i, this |-> t, next |-> n, delta |-> FALSE, signed |-> TRUE,
   serials |-> s]
SomeCrls ==
  {Crl("ca", 0, <<1>>, <<<<0, 1>>, <<1, 2, 0>>>>), Crl("ca", 1, <<>>, <<<<2, 1>>>>),
   [Crl("cb", 0, <<2>>, <<>>) EXCEPT !.delta = TRUE], Crl("cb", 0, <<0>>, <<<<1>>>>),
   Crl("cb", 0, <<1>>, <<<<1>>, <<2>>, <<1, 1>>>>)}
Asked(m, a, e, u, c) ==
  [mode |-> m, anchors |-> a, enforced |-> e, allow_unknown |-> u, context |-> c]
Required(e) == Asked("Required", {"ca"}, e, FALSE, <<{"ca"}>>)
Optional(e) == Asked("Optional", {"ca", "cb"}, e, TRUE, <<>>)
Anybody == Asked("None", {}, FALSE, FALSE, <<{}>>)
Unanchored == Asked("Required", {}, FALSE, FALSE, <<>>)
OthersTickets == Asked("Optional", {"ca"}, FALSE, FALSE, <<{"cb"}>>)
Bind(w, n, c) == [wild |-> w, name |-> n, config |-> c]
SomeBindings ==
  {Bind(FALSE, "cab", Required(FALSE)), Bind(FALSE, "bab", Anybody),
   Bind(FALSE, "bab", Required(FALSE)), Bind(FALSE, "cab", OthersTickets),
   Bind(TRUE, "ab", Required(FALSE)), Bind(TRUE, "ab", Optional(FALSE)),
   Bind(TRUE, "b", Required(FALSE))}
Hello(s, l, f) == [sni |-> s, len |-> l, formed |-> f]
SomeHellos ==
  {Hello("cab", 1, TRUE), Hello("none", 1, TRUE), Hello("bad", 2, TRUE),
   Hello("bab", 2, FALSE), Hello("bab", 3, TRUE)}
Cert(s, i) == [serial |-> s, issuer |-> i, formed |-> TRUE]
Chain(r, cs) == [root |-> r, certs |-> cs]
SomeChains ==
  {Chain("ca", <<Cert(<<0, 1>>, "ca")>>),
   Chain("ca", <<Cert(<<2>>, "ca"), Cert(<<0, 1, 2, 0>>, "ca")>>),
   Chain("cb", <<Cert(<<1>>, "cb")>>), Chain("ca", <<Cert(<<2, 1>>, "ca")>>),
   Chain("ca", <<[Cert(<<2>>, "ca") EXCEPT !.formed = FALSE]>>)}

Upgrading ==
  [duplicate_upgrade |-> FALSE, upgrade |-> "websocket",
   connection_has_upgrade |-> TRUE, method |-> "GET", framing |-> "Empty",
   version |-> <<"13">>, key |-> <<"k1">>, extensions |-> FALSE, protocol |-> <<>>]
Switching ==
  [status |-> 101, duplicate_upgrade |-> FALSE, upgrade |-> "websocket",
   connection_has_upgrade |-> TRUE, accept |-> <<<<"accept", "k1">>>>,
   extensions |-> FALSE, protocol |-> <<>>, value_off |-> 0]
Upgrades ==
  {[u EXCEPT !.extensions = TRUE] :
     u \in {[Upgrading EXCEPT !.duplicate_upgrade = d, !.upgrade = w, !.method = m,
                              !.connection_has_upgrade = c, !.framing = f] :
             d \in BOOLEAN, w \in {"none", "websocket", "h2c"}, c \in BOOLEAN,
             m \in {"GET", "POST"}, f \in {"Empty", "Length"}}}
  \cup
  {[Upgrading EXCEPT !.version = v, !.key = k, !.protocol = p] :
     v \in {<<>>, <<"13">>, <<"8">>, <<"x">>, <<"13", "13">>},
     k \in {<<>>, <<"k1">>, <<"short">>, <<"bad">>, <<"k1", "k2">>},
     p \in {<<>>, <<<<"a", ",", " ", "b">>>>, <<<<"a", "b", ",">>, <<" ", "a">>>>,
            <<<<"a", ",", "b", ",", "a">>>>, <<<<"a", "b", ",", "b", "a">>>>}}
Switches ==
  {[Switching EXCEPT !.status = s, !.duplicate_upgrade = d, !.upgrade = w,
                     !.connection_has_upgrade = c, !.extensions = e] :
     s \in {101, 200}, d \in BOOLEAN, w \in {"none", "websocket", "h2c"},
     c \in BOOLEAN, e \in BOOLEAN}
  \cup
  {[Switching EXCEPT !.accept = a, !.protocol = p, !.value_off = o] :
     a \in {<<>>, <<<<"accept", "k1">>>>, <<<<"accept", "k2">>>>,
            <<<<"accept", "k1">>, <<"accept", "k1">>>>},
     p \in {<<>>, <<<<"a">>>>, <<<<"b">>>>, <<<<"a", "b">>>>, <<<<"a">>, <<"b">>>>},
     o \in {0, 8}}
Frame(op, fin, form, len, p) ==
  [rsv |-> 0, opcode |-> op, fin |-> fin, masked |-> TRUE, form |-> form,
   len |-> len, key |-> <<1, 0>>, payload |-> p]
Fragments ==
  {Frame("Text", TRUE, 7, 1, <<1>>), Frame("Text", FALSE, 7, 1, <<0>>),
   Frame("Continuation", TRUE, 7, 2, <<1, 1>>), Frame("Continuation", FALSE, 7, 0, <<>>),
   Frame("Ping", TRUE, 7, 1, <<1>>), Frame("Close", TRUE, 7, 2, <<1, 0>>)}
Paced ==
  {Frame("Text", TRUE, 7, 0, <<>>), Frame("Text", TRUE, 7, 2, <<1, 0>>),
   Frame("Ping", TRUE, 7, 0, <<>>)}
AnyFrame ==
  Fragments \cup
  {Frame("Binary", TRUE, 16, 3, <<0, 1, 1>>), Frame("Binary", TRUE, 64, 4, <<1, 0, 0, 1>>),
   Frame("Ping", FALSE, 7, 0, <<>>), Frame("Pong", TRUE, 16, 3, <<1, 1, 1>>),
   Frame("Close", TRUE, 7, 0, <<>>), Frame("Close", TRUE, 7, 1, <<1>>),
   Frame("Close", TRUE, 7, 2, <<0, 1>>), Frame("Text", TRUE, 16, 2, <<1, 1>>),
   Frame("Text", TRUE, 64, 3, <<1, 1, 1>>), Frame("Text", TRUE, 64, 8, <<>>),
   Frame("Text", TRUE, 64, 5, <<1, 1, 1, 1, 1>>), Frame("Reserved", TRUE, 7, 0, <<>>),
   [Frame("Text", TRUE, 7, 0, <<>>) EXCEPT !.rsv = 1],
   [Frame("Text", TRUE, 7, 1, <<1>>) EXCEPT !.masked = FALSE]}

ticket ==
  <<node, resumed, gens, ticket_current, rotated_at, rotation, thread, flips,
    begun, admitted, wrote, presented>>
Ticket == INSTANCE Resumption WITH
  Configs <- TwoRoots, Tickets <- AnyTicket, MaxEpoch <- 3, Threads <- {},
  Facts <- {}, RotateSecs <- 9, MaxTime <- 0, MaxPresentations <- 0,
  SLOT_COUNT <- 3, ACCEPTED_EPOCHS <- 3, Locate <- Places,
  WORDS_PER_BLOCK <- 2, Words <- 2, EarlyEnabled <- TRUE, MaxBytes <- 1,
  current <- ticket_current

Replay == INSTANCE Resumption WITH
  Threads <- {"t", "u"}, Facts <- {Early("p")}, RotateSecs <- 1, MaxTime <- 2,
  Configs <- <<>>, Tickets <- {}, MaxEpoch <- 0, MaxPresentations <- 3,
  SLOT_COUNT <- 3, ACCEPTED_EPOCHS <- 3, Locate <- Places,
  WORDS_PER_BLOCK <- 2, Words <- 2, EarlyEnabled <- TRUE, MaxBytes <- 1,
  current <- ticket_current

Eager == INSTANCE Resumption WITH
  Threads <- {"t"}, Facts <- AllFacts \cup {Early("q"), Early("r")},
  RotateSecs <- 9, MaxTime <- 0, Configs <- <<>>, Tickets <- {},
  MaxEpoch <- 0, MaxPresentations <- 3, SLOT_COUNT <- 3, ACCEPTED_EPOCHS <- 3,
  Locate <- Places, WORDS_PER_BLOCK <- 2, Words <- 2, EarlyEnabled <- TRUE,
  MaxBytes <- 1, current <- ticket_current

certs ==
  <<cell, pending, first_pending, next_generation, now, failed, submits, firm,
    book, promised>>
Certs == INSTANCE CertStore WITH
  Hashers <- {H1, H2}, First <- [default |-> <<>>, cred |-> R1, sans |->
  <<StarAb, <<"_">>, Cab>>], Updates <- CertUpdates, MaxSubmits <- 3,
  Debounce <- 1, MaxTime <- 2, Hellos <- CertHellos, MAX_NAME_LEN <- 6,
  MaxLabel <- 1, MAX_LABELS <- 3, SUFFIX_DENY <- {}, FirstHasher <- H1,
  MAX_INDEX_GROUPS <- 3, MAX_CHALLENGES <- 1, MaxPending <- 2,
  RequireEcdsa <- TRUE

staple ==
  <<staple_cell, staple_pending, staple_first_pending, staple_next_generation,
    staple_now, staple_failed, staple_submits, staple_firm, staple_book,
    staple_promised, tracked, ticks, passed, swept>>
Staple == INSTANCE Staples WITH
  First <- Served(<<D1>>, <<Cab>>), Updates <- {Install(<<Cab, Bab>>, <<>>,
  Cred(4, 3, 1, FALSE, <<>>))}, Tracks <- MustStaple(Cab),
  Answers <- AnyAnswer, MaxTime <- 4, MaxTicks <- 3, Hashers <- {H1},
  MaxSubmits <- 1, Debounce <- 0, Hellos <- {}, MAX_RESPONDER_CERTS <- 2,
  Margin <- 1, MinInterval <- 1, MaxInterval <- 3, BackoffBase <- 2,
  BackoffMax <- 3, FailAfter <- 2, Skew <- 0, NoNextTtl <- 1, MaxFetches <- 1,
  MAX_NAME_LEN <- 6, MaxLabel <- 1, MAX_LABELS <- 3, SUFFIX_DENY <- {},
  FirstHasher <- H1, MAX_INDEX_GROUPS <- 3, MAX_CHALLENGES <- 1,
  MaxPending <- 2, RequireEcdsa <- TRUE, cell <- staple_cell,
  pending <- staple_pending, first_pending <- staple_first_pending,
  next_generation <- staple_next_generation, now <- staple_now,
  failed <- staple_failed, submits <- staple_submits, firm <- staple_firm,
  book <- staple_book, promised <- staple_promised

Queue == INSTANCE Staples WITH
  First <- Served(<<D1>>, <<Cab>>), Updates <- {}, Tracks <- FewTracks,
  Answers <- {Good, Nothing}, MaxTime <- 1, MaxTicks <- 3, Hashers <- {H1},
  MaxSubmits <- 1, Debounce <- 0, Hellos <- {}, MAX_RESPONDER_CERTS <- 2,
  Margin <- 1, MinInterval <- 1, MaxInterval <- 3, BackoffBase <- 2,
  BackoffMax <- 3, FailAfter <- 2, Skew <- 0, NoNextTtl <- 1, MaxFetches <- 1,
  MAX_NAME_LEN <- 6, MaxLabel <- 1, MAX_LABELS <- 3, SUFFIX_DENY <- {},
  FirstHasher <- H1, MAX_INDEX_GROUPS <- 3, MAX_CHALLENGES <- 1,
  MaxPending <- 2, RequireEcdsa <- TRUE, cell <- staple_cell,
  pending <- staple_pending, first_pending <- staple_first_pending,
  next_generation <- staple_next_generation, now <- staple_now,
  failed <- staple_failed, submits <- staple_submits, firm <- staple_firm,
  book <- staple_book, promised <- staple_promised

Wild == INSTANCE Staples WITH
  First <- Served(<<>>, <<StarAb>>), Updates <- {},
  Tracks <- MustStaple(StarAb), Answers <- Revoking, MaxTime <- 1,
  MaxTicks <- 3, Hashers <- {H1}, MaxSubmits <- 1, Debounce <- 0,
  Hellos <- {}, MAX_RESPONDER_CERTS <- 2, Margin <- 1, MinInterval <- 1,
  MaxInterval <- 3, BackoffBase <- 2, BackoffMax <- 3, FailAfter <- 2,
  Skew <- 0, NoNextTtl <- 1, MaxFetches <- 1, MAX_NAME_LEN <- 6,
  MaxLabel <- 1, MAX_LABELS <- 3, SUFFIX_DENY <- {}, FirstHasher <- H1,
  MAX_INDEX_GROUPS <- 3, MAX_CHALLENGES <- 1, MaxPending <- 2,
  RequireEcdsa <- TRUE, cell <- staple_cell, pending <- staple_pending,
  first_pending <- staple_first_pending,
  next_generation <- staple_next_generation, now <- staple_now,
  failed <- staple_failed, submits <- staple_submits, firm <- staple_firm,
  book <- staple_book, promised <- staple_promised

listen ==
  <<listen_now, indices, loads, bindings, overflowed, no_sni, fallback,
    listener, conn, conns>>
Listen == INSTANCE ClientAuth WITH
  Names <- {"ab", "cab", "bab"}, MAX_BINDINGS <- 3, Crls <- {},
  Configs <- {Required(FALSE), Anybody}, Bindings <- SomeBindings,
  Hellos <- SomeHellos, Chains <- {Chain("ca", <<Cert(<<0, 1>>, "ca")>>)},
  MaxLoads <- 0, MaxTime <- 0, Parent <- ParentOf, Hash <- KeyOf,
  TooBroad <- {"b"}, MaxHello <- 2, MaxEntries <- 2, WideAbove <- 2,
  LongestSerial <- 3, Bits <- BitsOf, CrlSkew <- 0, NoNextTtl <- 1,
  StaleGrace <- 1, MaxConns <- 1, now <- listen_now

Revoke == INSTANCE ClientAuth WITH
  Names <- {"cab"}, MAX_BINDINGS <- 1, Crls <- SomeCrls,
  Configs <- {Unanchored}, Bindings <- {Bind(FALSE, "cab", Required(TRUE)),
  Bind(FALSE, "cab", Optional(TRUE))}, Hellos <- {Hello("cab", 1, TRUE)},
  Chains <- SomeChains, MaxLoads <- 2, MaxTime <- 3, Parent <- ParentOf,
  Hash <- KeyOf, TooBroad <- {"b"}, MaxHello <- 2, MaxEntries <- 2,
  WideAbove <- 2, LongestSerial <- 3, Bits <- BitsOf, CrlSkew <- 0,
  NoNextTtl <- 1, StaleGrace <- 1, MaxConns <- 1, now <- listen_now

upgrade ==
  <<shake, dec, budget, upgrade_now, wire, buf, header, got, out, err, sent,
    spent, upgrade_paced>>
Upgrade == INSTANCE Tunnel WITH
  Requests <- Upgrades, Responses <- Switches, Frames <- AnyFrame,
  MaxFrames <- 2, MaxAhead <- 1, MAX_SUBPROTOCOLS <- 2,
  MAX_SUBPROTOCOL_BYTES <- 3, MaxOffset <- 8, MaskedDirection <- TRUE,
  ReservedAllowed <- FALSE, MaxShort <- 2, Base <- 2, MaxFrame <- 4,
  KeyLen <- 2, InvalidCodes <- {0, 1}, PingCost <- 5, Second <- 4, Wrap <- 16,
  FrameCapacity <- 99, FrameRate <- 1, ByteCapacity <- 99, ByteRate <- 1,
  Gaps <- {}, now <- upgrade_now, paced <- upgrade_paced

Pieces == INSTANCE Tunnel WITH
  Frames <- Fragments, MaxFrames <- 4, MaxAhead <- 1, Requests <- {Upgrading},
  Responses <- {Switching}, MAX_SUBPROTOCOLS <- 2, MAX_SUBPROTOCOL_BYTES <- 3,
  MaxOffset <- 8, MaskedDirection <- TRUE, ReservedAllowed <- FALSE,
  MaxShort <- 2, Base <- 2, MaxFrame <- 4, KeyLen <- 2, InvalidCodes <- {0,
  1}, PingCost <- 5, Second <- 4, Wrap <- 16, FrameCapacity <- 99,
  FrameRate <- 1, ByteCapacity <- 99, ByteRate <- 1, Gaps <- {},
  now <- upgrade_now, paced <- upgrade_paced

Slowed == INSTANCE Tunnel WITH
  Frames <- Paced, MaxFrames <- 3, MaxAhead <- 0, FrameCapacity <- 6,
  FrameRate <- 3, ByteCapacity <- 4, ByteRate <- 2, Gaps <- {1, 3, 6, 17},
  Requests <- {Upgrading}, Responses <- {Switching}, MAX_SUBPROTOCOLS <- 2,
  MAX_SUBPROTOCOL_BYTES <- 3, MaxOffset <- 8, MaskedDirection <- TRUE,
  ReservedAllowed <- FALSE, MaxShort <- 2, Base <- 2, MaxFrame <- 4,
  KeyLen <- 2, InvalidCodes <- {0, 1}, PingCost <- 5, Second <- 4, Wrap <- 16,
  now <- upgrade_now, paced <- upgrade_paced

vars == <<part, rvars, ticket, certs, staple, listen, upgrade>>

HandshakeInit ==
  /\ part \in {"registry", "ticket", "replay", "early", "certs", "staple",
      "queue", "wild", "listen", "revoke", "upgrade", "pieces", "paced"}
  /\ Init
  /\ IF part = "replay" THEN Replay!Init ELSE IF part = "early" THEN Eager!Init ELSE Ticket!Init
  /\ Certs!Init
  /\ IF part = "queue" THEN Queue!Init ELSE IF part = "wild" THEN Wild!Init ELSE Staple!Init
  /\ IF part = "revoke" THEN Revoke!Init ELSE Listen!Init
  /\ IF part = "pieces" THEN Pieces!Init ELSE IF part = "paced" THEN Slowed!Init ELSE Upgrade!Init


HandshakeNext ==
  \/ part = "registry" /\ Next
     /\ UNCHANGED <<part, ticket, certs, staple, listen, upgrade>>
  \/ part = "ticket" /\ Ticket!Next
     /\ UNCHANGED <<part, rvars, certs, staple, listen, upgrade>>
  \/ part = "replay" /\ Replay!Next
     /\ UNCHANGED <<part, rvars, certs, staple, listen, upgrade>>
  \/ part = "early" /\ Eager!Next
     /\ UNCHANGED <<part, rvars, certs, staple, listen, upgrade>>
  \/ part = "certs" /\ Certs!Next
     /\ UNCHANGED <<part, rvars, ticket, staple, listen, upgrade>>
  \/ part = "staple" /\ Staple!Next
     /\ UNCHANGED <<part, rvars, ticket, certs, listen, upgrade>>
  \/ part = "queue" /\ Queue!Next
     /\ UNCHANGED <<part, rvars, ticket, certs, listen, upgrade>>
  \/ part = "wild" /\ Wild!Next
     /\ UNCHANGED <<part, rvars, ticket, certs, listen, upgrade>>
  \/ part = "listen" /\ Listen!Next
     /\ UNCHANGED <<part, rvars, ticket, certs, staple, upgrade>>
  \/ part = "revoke" /\ Revoke!Next
     /\ UNCHANGED <<part, rvars, ticket, certs, staple, upgrade>>
  \/ part = "upgrade" /\ Upgrade!Next
     /\ UNCHANGED <<part, rvars, ticket, certs, staple, listen>>
  \/ part = "pieces" /\ Pieces!Next
     /\ UNCHANGED <<part, rvars, ticket, certs, staple, listen>>
  \/ part = "paced" /\ Slowed!Next
     /\ UNCHANGED <<part, rvars, ticket, certs, staple, listen>>

HandshakeSpec == HandshakeInit /\ [][HandshakeNext]_vars

-----------------------------------------------------------------------------
\* ClusterTicketer, EarlyDataFilter and evaluate: a ticket is opened only
\* with the key, epoch and context it was sealed under; early data is taken
\* only for a request that may be repeated; an identity filed long enough ago
\* is still remembered across rotations, and none is remembered that was
\* never presented.
ResumptionSound ==
  /\ part = "ticket" => Ticket!ResumptionSound
  /\ part = "replay" => Replay!ResumptionSound
  /\ part = "early" => Eager!ResumptionSound



\* Names to remove are exact or of the form *.parent (builder.rs:71): so the
\* store no longer serves a certificate that its responder called revoked,
\* whatever its names.
RevokedWithdrawn ==
  part \in {"staple", "queue", "wild"} => Wild!RevokedWithdrawn

\* ListenerTls, IronClientVerifier and RevocationIndex: no way to a name
\* authenticates the client less than its binding, a listed serial is never
\* admitted, and a chain is taken only under the anchors of the configuration
\* that was chosen.
ClientAuthSound ==
  /\ part = "listen" => Listen!ClientAuthSound
  /\ part = "revoke" => Revoke!ClientAuthSound

=============================================================================
