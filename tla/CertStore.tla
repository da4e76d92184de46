------------------------------ MODULE CertStore ------------------------------
(***************************************************************************)
(* The certificates a node serves: updates are checked as they are         *)
(* submitted, wait for a debounce, and are built into a new index and      *)
(* challenge map that are published as one generation; a ClientHello is    *)
(* resolved against the generation published.                              *)
(*                                                                         *)
(* A name is a sequence of bytes, "A" the only upper-case one.  The arena  *)
(* of an index is abstracted to the set of its groups.  A credential is    *)
(* [fp, type, not_after, must_staple, staple], type its rank as a KeyType  *)
(* and staple when its OCSP staple ends, if it has one; a keyed hash is a  *)
(* function from names to keys.  The hash of the challenge map is taken to *)
(* be injective.                                                           *)
(***************************************************************************)
EXTENDS Integers, Sequences, SequencesExt, FiniteSets

CONSTANTS
  MAX_NAME_LEN, MaxLabel, MAX_LABELS, SUFFIX_DENY,
  Hashers, FirstHasher,       \* keys a random seed may give
  MAX_INDEX_GROUPS, MAX_CHALLENGES,
  First,                      \* the first index: [cred, sans, default]
  Updates, MaxSubmits,        \* CertUpdates the control plane may submit
  MaxPending, Debounce, MaxTime,
  RequireEcdsa,               \* TlsPolicy::require_ecdsa_capable_clients
  Hellos                      \* [alpn, sni, caps]

Nothing == <<>>              \* Option::None; Some(x) is <<x>>

VARIABLES
  cell,              \* the TlsMaterial published: [certs, challenge, generation]
  pending,
  first_pending,     \* first_pending_ms
  next_generation,
  now,
  failed,            \* the error of the last flush
  submits,
  firm,              \* [accepted, applied]: updates that may not be dropped
  book,              \* [wild, name, fp]: what was published and not removed since
  promised           \* challenges published and not removed: name -> [key, expires]

svars == <<cell, pending, first_pending, next_generation, now, failed, submits, firm, book, promised>>

------------------------------------------------------------------------------
(* name.rs                                                                  *)

Legal == {"a", "b", "c", "-"}
Lower(c) == IF c = "A" THEN "a" ELSE c
Dots(b) == {i \in DOMAIN b : b[i] = "."}
label_count(b) == Cardinality(Dots(b)) + 1

\* The labels, as [from, to].
Labels(b) ==
  {r \in ({0} \cup Dots(b)) \X (Dots(b) \cup {Len(b) + 1}) :
     r[1] < r[2] /\ \A i \in Dots(b) : ~(r[1] < i /\ i < r[2])}
validate_label(b, r) ==
  /\ r[2] - r[1] - 1 \in 1 .. MaxLabel
  /\ b[r[1] + 1] # "-" /\ b[r[2] - 1] # "-"

Bad == <<>>
Unrooted(raw) == IF raw # <<>> /\ raw[Len(raw)] = "." THEN SubSeq(raw, 1, Len(raw) - 1) ELSE raw
Checked(b) ==
  IF /\ b # <<>> /\ Len(b) <= MAX_NAME_LEN /\ label_count(b) <= MAX_LABELS
     /\ \A i \in DOMAIN b : b[i] = "." \/ Lower(b[i]) \in Legal
     /\ \A r \in Labels(b) : validate_label(b, r)
  THEN [i \in DOMAIN b |-> Lower(b[i])] ELSE Bad
\* The name in its stored form, Bad for none.
normalize(raw) == Checked(Unrooted(raw))

parent(name) ==
  IF Dots(name) = {} THEN Bad
  ELSE SubSeq(name, (CHOOSE i \in Dots(name) : \A j \in Dots(name) : i <= j) + 1, Len(name))

Stars(raw) == {i \in DOMAIN raw : raw[i] = "*"}
wildcard_parent(raw) ==
  IF Len(raw) > 2 /\ raw[1] = "*" /\ raw[2] = "." /\ Stars(raw) = {1} THEN SubSeq(raw, 3, Len(raw)) ELSE Bad

\* validate_wildcard_parent, and the parent it accepts.
broad(name) == label_count(name) < 2 \/ name \in SUFFIX_DENY
wildcard_name(raw) ==
  LET name == normalize(wildcard_parent(raw)) IN IF name = Bad \/ broad(name) THEN Bad ELSE name

------------------------------------------------------------------------------
(* index.rs.  A builder is [entries, default], an entry [wild, name, cred]. *)

Entry(wild, name, cred) == [wild |-> wild, name |-> name, cred |-> cred]
Known(name) == IF name = Bad THEN <<>> ELSE <<name>>

\* upsert_from_sans: a name that does not validate is skipped.
upsert_from_sans(cred, sans) ==
  FlattenSeq([i \in DOMAIN sans |->
    IF Len(sans[i]) > 1 /\ sans[i][1] = "*" /\ sans[i][2] = "."
    THEN [n \in DOMAIN Known(wildcard_name(sans[i])) |-> Entry(TRUE, wildcard_name(sans[i]), cred)]
    ELSE [n \in DOMAIN Known(normalize(sans[i])) |-> Entry(FALSE, normalize(sans[i]), cred)]])

InstalledOn(b, u) ==
  [b EXCEPT !.entries = @ \o [i \in DOMAIN u.exact |-> Entry(FALSE, normalize(u.exact[i]), u.cred)]
                          \o [i \in DOMAIN u.wildcard |-> Entry(TRUE, wildcard_name(u.wildcard[i]), u.cred)]]

replace_by_fingerprint(b, u) ==
  [b EXCEPT !.entries = [i \in DOMAIN @ |-> IF @[i].cred.fp = u.fp THEN [@[i] EXCEPT !.cred = u.cred] ELSE @[i]]]

Named(b, name) == SelectSeq(b.entries, LAMBDA e : e.name = name)
Others(b, name) == SelectSeq(b.entries, LAMBDA e : e.name # name)

\* remove: both groups of the name, and the default if it is one of theirs.
remove(b, name) ==
  [entries |-> Others(b, name),
   default |-> IF b.default # Nothing /\ \E e \in ToSet(Named(b, name)) : e.cred.fp = b.default[1].fp
               THEN Nothing ELSE b.default]

Removed(b, u) == FoldLeft(LAMBDA acc, n : remove(acc, normalize(n)), b, u.names)

\* Of a name's credentials of one type the one that lasts longest is kept, the
\* least fingerprint among those, the first filed of that.
Beats(es, i, j) ==
  \/ es[i].cred.not_after > es[j].cred.not_after
  \/ /\ es[i].cred.not_after = es[j].cred.not_after
     /\ es[i].cred.fp < es[j].cred.fp \/ (es[i].cred.fp = es[j].cred.fp /\ i < j)
Winner(es, type) ==
  LET of == {i \in DOMAIN es : es[i].cred.type = type}
  IN es[CHOOSE i \in of : \A j \in of \ {i} : Beats(es, i, j)].cred
Of(entries, wild, name) == SelectSeq(entries, LAMBDA e : e.wild = wild /\ e.name = name)
CredSet(es) == [t \in {e.cred.type : e \in ToSet(es)} |-> Winner(es, t)]
Groups(entries) ==
  {[wild |-> k[1], name |-> k[2], creds |-> CredSet(Of(entries, k[1], k[2]))] :
     k \in {<<e.wild, e.name>> : e \in ToSet(entries)}}

Collide(h, groups) == \E a, b \in groups : a # b /\ a.wild = b.wild /\ h[a.name] = h[b.name]

\* The map of one kind of group: key -> group.
MapOf(h, groups, wild) ==
  LET mine == {g \in groups : g.wild = wild}
  IN [k \in {h[g.name] : g \in mine} |-> CHOOSE g \in mine : h[g.name] = k]

Index(h, groups, default) ==
  [hasher |-> h, exact |-> MapOf(h, groups, FALSE), wild |-> MapOf(h, groups, TRUE), default |-> default]

\* rebuild_entries: what is left of the entries is the winners.
rebuild_entries(index) ==
  LET map(m) == UNION {{Entry(m[k].wild, m[k].name, m[k].creds[t]) : t \in DOMAIN m[k].creds} : k \in DOMAIN m}
  IN SetToSeq(map(index.exact) \cup map(index.wild))

\* select: the types in order of rank, the first the peer can verify.
select(group, caps) ==
  LET can == DOMAIN group.creds \cap caps
  IN IF can = {} THEN Nothing ELSE <<group.creds[CHOOSE t \in can : \A u \in can : t <= u]>>

Found(map, h, name) == name # Bad /\ h[name] \in DOMAIN map /\ map[h[name]].name = name
\* The group a name is answered from.
Answering(index, name) ==
  IF Found(index.exact, index.hasher, name) THEN <<index.exact[index.hasher[name]]>>
  ELSE IF name # Bad /\ Found(index.wild, index.hasher, parent(name))
    THEN <<index.wild[index.hasher[parent(name)]]>> ELSE <<>>

Or(cred, default) == IF cred = Nothing THEN default ELSE cred
resolve(index, name, caps) ==
  IF Answering(index, name) = <<>> THEN index.default
  ELSE Or(select(Answering(index, name)[1], caps), index.default)

name_has_ecdsa(index, name) ==
  Answering(index, name) # <<>> /\ DOMAIN Answering(index, name)[1].creds \cap {1, 2} # {}

------------------------------------------------------------------------------
(* challenge.rs: a map from names to [key, expires], and resolver.rs.       *)

Live(challenge, t) ==
  [n \in {n \in DOMAIN challenge : challenge[n].expires > t} |-> challenge[n]]
lookup(challenge, name) ==
  IF name \in DOMAIN Live(challenge, now) THEN <<challenge[name].key>> ELSE Nothing

alpn_verdict(alpn) ==
  IF Len(alpn) = 1 THEN IF alpn[1] = "acme" THEN "Challenge" ELSE "Normal"
  ELSE IF \E i \in 1 .. 3 : i <= Len(alpn) /\ alpn[i] = "acme" THEN "RefuseAcmeMixed" ELSE "Normal"

RefusesRsa(index, name, caps, cred) ==
  /\ RequireEcdsa /\ caps \cap {1, 2} = {}
  /\ cred # Nothing /\ cred[1].type = 3 /\ name_has_ecdsa(index, name)

Chosen(index, name, caps, cred) == IF RefusesRsa(index, name, caps, cred) THEN Nothing ELSE cred
resolve_parts(m, hello) ==
  CASE alpn_verdict(hello.alpn) = "RefuseAcmeMixed" -> Nothing
    [] alpn_verdict(hello.alpn) = "Challenge" -> lookup(m.challenge, normalize(hello.sni))
    [] hello.sni = Bad -> m.certs.default
    [] OTHER -> Chosen(m.certs, normalize(hello.sni), hello.caps,
                       resolve(m.certs, normalize(hello.sni), hello.caps))

------------------------------------------------------------------------------
(* builder.rs                                                               *)

is_droppable(u) == u.op \in {"Install", "InstallChallenge", "Replace"}
AllNamed(raws) == \A i \in DOMAIN raws : normalize(raws[i]) # Bad
validate_update(u) ==
  CASE u.op = "Install" -> AllNamed(u.exact) /\ \A i \in DOMAIN u.wildcard : wildcard_name(u.wildcard[i]) # Bad
    [] u.op = "Remove" -> AllNamed(u.names)
    [] u.op \in {"InstallChallenge", "RemoveChallenge"} -> normalize(u.name) # Bad
    [] OTHER -> TRUE
Bare(cred) == cred.must_staple /\ cred.staple = Nothing
carries_bare(u) == u.op \in {"Install", "Replace", "SetDefault"} /\ Bare(u.cred)

Capped(us) ==
  IF Len(us) > MaxPending /\ \E i \in DOMAIN us : is_droppable(us[i])
  THEN RemoveAt(us, CHOOSE i \in DOMAIN us : is_droppable(us[i]) /\ \A j \in 1 .. i - 1 : ~is_droppable(us[j]))
  ELSE us

Accepted(u) == validate_update(u) /\ ~carries_bare(u)
Firm(us) == Len(SelectSeq(us, LAMBDA u : ~is_droppable(u)))

\* submit, for each of the updates a source has.
Submit(us) ==
  LET ok == SelectSeq(us, Accepted)
  IN /\ pending' = FoldLeft(LAMBDA acc, u : Capped(Append(acc, u)), pending, ok)
     /\ firm' = [firm EXCEPT !.accepted = @ + Firm(ok)]
     /\ UNCHANGED <<cell, first_pending, next_generation, failed, book, promised>>
submit(u) == submits < MaxSubmits /\ submits' = submits + 1 /\ Submit(<<u>>) /\ UNCHANGED now

Builder == [certs |-> [entries |-> rebuild_entries(cell.certs), default |-> cell.certs.default],
            challenge |-> Live(cell.challenge, now), full |-> FALSE]

Put(challenge, name, u) ==
  [n \in DOMAIN challenge \cup {name} |->
     IF n = name THEN [key |-> u.key, expires |-> u.expires] ELSE challenge[n]]
insert(b, name, u) ==
  IF name \notin DOMAIN b.challenge /\ Cardinality(DOMAIN b.challenge) >= MAX_CHALLENGES
  THEN [b EXCEPT !.full = TRUE] ELSE [b EXCEPT !.challenge = Put(@, name, u)]

Without(f, k) == [n \in DOMAIN f \ {k} |-> f[n]]

Apply(b, u) ==
  IF b.full THEN b
  ELSE CASE u.op = "Install" -> [b EXCEPT !.certs = InstalledOn(@, u)]
         [] u.op = "Replace" -> [b EXCEPT !.certs = replace_by_fingerprint(@, u)]
         [] u.op = "Remove" -> [b EXCEPT !.certs = Removed(@, u)]
         [] u.op = "SetDefault" -> [b EXCEPT !.certs.default = <<u.cred>>]
         [] u.op = "InstallChallenge" -> insert(b, normalize(u.name), u)
         [] u.op = "RemoveChallenge" -> [b EXCEPT !.challenge = Without(@, normalize(u.name))]

\* What a batch leaves on the book, and the challenges it leaves standing.
Page(e) == [wild |-> e.wild, name |-> e.name, fp |-> e.cred.fp]
Booked(us) ==
  FoldLeft(LAMBDA g, u :
    CASE u.op = "Install" -> g \cup {Page(e) : e \in ToSet(InstalledOn([entries |-> <<>>], u).entries)}
      [] u.op = "Remove" -> {e \in g : \A i \in DOMAIN u.names : e.name # normalize(u.names[i])}
      [] u.op = "Replace" -> {IF e.fp = u.fp THEN [e EXCEPT !.fp = u.cred.fp] ELSE e : e \in g}
      [] OTHER -> g, book, us)
PromisedAfter(us) ==
  FoldLeft(LAMBDA p, u : CASE u.op = "InstallChallenge" -> Put(p, normalize(u.name), u)
                           [] u.op = "RemoveChallenge" -> Without(p, normalize(u.name))
                           [] OTHER -> p, promised, us)

Fail(e) == failed' = <<e>> /\ UNCHANGED <<cell, pending, next_generation, firm, book, promised>>

Publish(h, b, groups) ==
  /\ cell' = [certs |-> Index(h, groups, b.certs.default), challenge |-> b.challenge,
              generation |-> next_generation]
  /\ next_generation' = next_generation + 1
  /\ pending' = <<>> /\ failed' = Nothing
  /\ firm' = [firm EXCEPT !.applied = @ + Firm(pending)]
  /\ book' = Booked(pending) /\ promised' = PromisedAfter(pending)

\* Three hashers are tried: the one inherited, then two drawn at random.
Build(b, groups) ==
  IF b.full THEN Fail("Full")
  ELSE IF Cardinality(groups) > MAX_INDEX_GROUPS THEN Fail("IndexTooLarge")
  ELSE IF ~Collide(cell.certs.hasher, groups) THEN Publish(cell.certs.hasher, b, groups)
  ELSE \E h1, h2 \in Hashers :
         IF ~Collide(h1, groups) THEN Publish(h1, b, groups)
         ELSE IF ~Collide(h2, groups) THEN Publish(h2, b, groups) ELSE Fail("NameHashCollision")

BuildFrom(b) == Build(b, Groups(b.certs.entries))
build_and_publish == BuildFrom(FoldLeft(Apply, Builder, pending))

\* flush_if_due on the control-plane tick; the debounce starts at the first
\* tick that finds something pending.
Due(since, t) == t - since >= Debounce \/ Len(pending) >= MaxPending
flush_if_due(t) ==
  /\ t \in now .. MaxTime /\ pending # <<>> /\ now' = t
  /\ LET since == IF first_pending = Nothing THEN t ELSE first_pending[1]
     IN IF Due(since, t)
        THEN /\ build_and_publish
             /\ first_pending' = IF failed' = Nothing THEN Nothing ELSE <<since>>
        ELSE first_pending' = <<since>> /\ UNCHANGED <<cell, pending, next_generation, failed, firm, book, promised>>
  /\ UNCHANGED submits

\* flush_now, at startup.
flush_now ==
  /\ pending # <<>> /\ next_generation = 1
  /\ build_and_publish
  /\ first_pending' = IF failed' = Nothing THEN Nothing ELSE first_pending
  /\ UNCHANGED <<now, submits>>

FirstIndex == Index(FirstHasher, Groups(upsert_from_sans(First.cred, First.sans)), First.default)

Init ==
  /\ cell = [certs |-> FirstIndex, challenge |-> [n \in {} |-> Nothing], generation |-> 0]
  /\ pending = <<>> /\ first_pending = Nothing /\ next_generation = 1 /\ now = 0 /\ failed = Nothing
  /\ submits = 0 /\ firm = [accepted |-> 0, applied |-> 0] /\ book = {Page(e) : e \in ToSet(upsert_from_sans(First.cred, First.sans))}
  /\ promised = [n \in {} |-> Nothing]

Next ==
  \/ \E u \in Updates : submit(u)
  \/ \E t \in 0 .. MaxTime : flush_if_due(t)
  \/ flush_now

------------------------------------------------------------------------------
(* Properties                                                               *)

Filed(wild, name) == {e.fp : e \in {e \in book : e.wild = wild /\ e.name = name}}

\* For every ClientHello: a name with an exact entry is answered from its
\* exact entries, else one with a wildcard entry for its parent from those,
\* and from the default only when neither has a key the client can verify;
\* hashes that collide never lend a name the credential of another (resolve,
\* and the retries of build_inner).
ServesTheName ==
  \A hello \in Hellos :
    alpn_verdict(hello.alpn) = "Normal" /\ hello.sni # Bad =>
      LET name == normalize(hello.sni)
          filed == IF name = Bad THEN {}
                   ELSE IF Filed(FALSE, name) # {} THEN Filed(FALSE, name) ELSE Filed(TRUE, parent(name))
          cred == resolve(cell.certs, name, hello.caps)
      IN IF cred = Nothing THEN cell.certs.default = Nothing
         ELSE \/ cred[1].fp \in filed /\ cred[1].type \in hello.caps
              \/ cred = cell.certs.default

\* The names a generation has are those installed and not removed: no build
\* loses one, and a removed one is in no group any more (from_previous, remove).
NamesKept ==
  LET groups == {cell.certs.exact[k] : k \in DOMAIN cell.certs.exact}
                  \cup {cell.certs.wild[k] : k \in DOMAIN cell.certs.wild}
  IN {<<g.wild, g.name>> : g \in groups} = {<<e.wild, e.name>> : e \in book}

\* No generation serves a credential that demands a staple without one, for
\* any hello, whichever update brought it (submit).
NeverBare ==
  \A hello \in Hellos :
    alpn_verdict(hello.alpn) = "Normal" =>
      LET cred == resolve_parts(cell, hello) IN cred # Nothing => ~Bare(cred[1])

\* A removal or a change of the default that was accepted is never dropped:
\* it waits, through failed builds too, until a generation applies it; what
\* may be dropped never takes more than the cap (submit, flush_inner).
FirmKept ==
  /\ firm.accepted = firm.applied + Firm(pending)
  /\ Len(pending) > MaxPending => \A i \in DOMAIN pending : ~is_droppable(pending[i])

\* A challenge published is answered until it expires or is removed, however
\* many generations follow and however full the map is (from_previous, insert).
ChallengesKept ==
  \A n \in DOMAIN promised : promised[n].expires > now => lookup(cell.challenge, n) = <<promised[n].key>>

\* No tick leaves an update waiting past the debounce unless its build failed,
\* and a build that failed leaves the generation published whole.
FlushesInTime ==
  /\ first_pending # Nothing => pending # <<>> /\ (now - first_pending[1] < Debounce \/ failed # Nothing)
  /\ cell.generation = next_generation - 1

=============================================================================
