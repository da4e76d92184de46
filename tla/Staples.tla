------------------------------- MODULE Staples -------------------------------
(***************************************************************************)
(* The OCSP updater beside the certificate store: which certificates are   *)
(* due, what an answer is worth, when to ask again, and what the store is  *)
(* told.  The task that calls tick and submits what it returns is not in   *)
(* the tree: it is taken to submit them at once, in order.                 *)
(*                                                                         *)
(* An answer is what the checks of validate_staple tell apart, its times   *)
(* relative to the fetch; a responder URL is "ok" or "barred".             *)
(***************************************************************************)
EXTENDS Integers, Sequences, SequencesExt, FiniteSets

CONSTANTS
  MAX_NAME_LEN, MaxLabel, MAX_LABELS, SUFFIX_DENY, Hashers, FirstHasher,
  MAX_INDEX_GROUPS, MAX_CHALLENGES, First, Updates, MaxSubmits, MaxPending,
  Debounce, MaxTime, RequireEcdsa, Hellos,
  Tracks,                     \* [cred, names, url, issuer] that may be tracked
  Answers,                    \* what a responder may say
  MAX_RESPONDER_CERTS, Margin, MinInterval, MaxInterval, BackoffBase,
  BackoffMax, FailAfter, Skew, NoNextTtl, MaxFetches, MaxTicks

VARIABLES
  cell, pending, first_pending, next_generation, now, failed, submits, firm,
  book, promised,
  tracked,                    \* Vec<Tracked>
  ticks,
  passed,                     \* fp -> ticks in a row that found it due and left it
  swept                       \* fp -> times it was withdrawn as stale

Store == INSTANCE CertStore
svars == <<cell, pending, first_pending, next_generation, now, failed, submits, firm, book, promised>>
upvars == <<tracked, ticks, passed, swept>>
spvars == <<svars, upvars>>

SetMin(S) == CHOOSE x \in S : \A y \in S : x <= y
SetMax(S) == CHOOSE x \in S : \A y \in S : x >= y

------------------------------------------------------------------------------
(* ocsp.rs                                                                  *)

\* The issuer itself, or the first certificate sent that has the responder's
\* name, if it may sign and the issuer signed it.
resolve_signer(a) ==
  \/ a.by_issuer
  \/ \E i \in DOMAIN a.certs :
       /\ a.certs[i].named /\ \A j \in 1 .. i - 1 : ~a.certs[j].named
       /\ a.certs[i].eku /\ a.certs[i].vouched

EffectiveNext(a) == IF a.next = <<>> THEN a.this + NoNextTtl ELSE a.next[1]

\* validate_staple, all its errors but CertificateRevoked one.
validate_staple(a) ==
  IF /\ a.successful /\ Len(a.certs) <= MAX_RESPONDER_CERTS /\ resolve_signer(a) /\ a.signed
     /\ a.count = 1 /\ a.mine
     /\ a.this <= Skew /\ 0 - EffectiveNext(a) <= Skew
     /\ a.nonce # "other"
  THEN a.status ELSE "Invalid"

------------------------------------------------------------------------------
(* ocsp_update.rs                                                           *)

Stopped == {"NoResponder", "Revoked", "Failed"}

track(c) ==
  /\ now < MaxTime
  /\ tracked' =
       IF \E i \in DOMAIN tracked : tracked[i].cred.fp = c.cred.fp THEN tracked
       ELSE Append(tracked,
              [cred |-> c.cred, names |-> c.names, url |-> c.url, issuer |-> c.issuer,
               state |-> IF c.url = "none" THEN "NoResponder" ELSE "Pending",
               next_attempt |-> now + (c.cred.fp % SetMax({MinInterval, 1})),
               failures |-> 0, until |-> <<>>])
  /\ UNCHANGED <<svars, ticks, passed, swept>>

untrack(fp) ==
  /\ tracked' = SelectSeq(tracked, LAMBDA t : t.cred.fp # fp)
  /\ tracked' # tracked
  /\ passed' = [passed EXCEPT ![fp] = 0] /\ swept' = [swept EXCEPT ![fp] = 0]
  /\ UNCHANGED <<svars, ticks>>

\* The delay before a retry: capped and jittered to between half and all.
Capped(failures) == SetMin({BackoffBase * 2 ^ SetMin({failures - 1, 31}), BackoffMax})
backoff(failures, full) == IF full THEN Capped(failures) ELSE Capped(failures) \div 2

refresh_delay(a) ==
  SetMax({MinInterval, SetMin({MaxInterval, SetMax({0, SetMax({0, EffectiveNext(a)}) - Margin})})})

record_failure(t, at, full) ==
  [t EXCEPT !.failures = @ + 1, !.next_attempt = at + backoff(t.failures + 1, full),
            !.state = IF t.failures + 1 >= FailAfter THEN "Failed" ELSE @]

Due(at) == {i \in DOMAIN tracked : tracked[i].state \notin Stopped /\ tracked[i].next_attempt <= at}
Before(i, j) ==
  \/ tracked[i].next_attempt < tracked[j].next_attempt
  \/ tracked[i].next_attempt = tracked[j].next_attempt /\ i < j
Taken(at) == LET in == SetToSortSeq(Due(at), Before) IN SubSeq(in, 1, SetMin({Len(in), MaxFetches}))

Ends(a, at) == IF a.next = <<>> THEN <<>> ELSE <<at + a.next[1]>>
Restapled(t, a, at) == [t.cred EXCEPT !.staple = <<at + EffectiveNext(a)>>]
Verdict(t, a) ==
  IF ~t.issuer \/ t.url = "barred" THEN "Hopeless"
  ELSE IF a.fetched THEN validate_staple(a) ELSE "Unreachable"

\* One entry's turn, and what the store is told of it.
Visited(t, a, at, full) ==
  CASE Verdict(t, a) = "Hopeless" -> [t EXCEPT !.state = "Failed"]
    [] Verdict(t, a) = "Good" ->
         [t EXCEPT !.state = "Stapled", !.failures = 0, !.until = Ends(a, at),
                   !.next_attempt = at + refresh_delay(a), !.cred = Restapled(t, a, at)]
    [] Verdict(t, a) = "Revoked" -> [t EXCEPT !.state = "Revoked"]
    [] OTHER -> record_failure(t, at, full)
Told(t, a, at) ==
  CASE Verdict(t, a) = "Good" -> <<[op |-> "Replace", fp |-> t.cred.fp, cred |-> Restapled(t, a, at)]>>
    [] Verdict(t, a) = "Revoked" -> <<[op |-> "Remove", names |-> t.names]>>
    [] OTHER -> <<>>

\* The sweep: a staple that must be there and has gone stale.
Stale(t, at) ==
  /\ t.cred.must_staple /\ t.state # "Stapled"
  /\ t.until # <<>> /\ t.until[1] + Skew < at
Swept(t, at) == IF Stale(t, at) THEN [t EXCEPT !.state = "Failed", !.until = <<>>] ELSE t

Sweep(ts, at, told) ==
  LET stale == SelectSeq(ts, LAMBDA t : Stale(t, at))
  IN /\ tracked' = [i \in DOMAIN ts |-> Swept(ts[i], at)]
     /\ swept' = [fp \in DOMAIN swept |-> swept[fp] + Len(SelectSeq(stale, LAMBDA t : t.cred.fp = fp))]
     /\ Store!Submit(told \o [i \in DOMAIN stale |-> [op |-> "Remove", names |-> stale[i].names]])

tick(at) ==
  /\ ticks < MaxTicks /\ ticks' = ticks + 1
  /\ at \in now .. MaxTime /\ now' = at /\ UNCHANGED submits
  /\ \E said \in [ToSet(Taken(at)) -> Answers], full \in BOOLEAN :
       Sweep([i \in DOMAIN tracked |-> IF i \in ToSet(Taken(at)) THEN Visited(tracked[i], said[i], at, full) ELSE tracked[i]],
             at, FlattenSeq([k \in DOMAIN Taken(at) |-> Told(tracked[Taken(at)[k]], said[Taken(at)[k]], at)]))
  /\ passed' = [fp \in DOMAIN passed |->
       IF \E i \in Due(at) \ ToSet(Taken(at)) : tracked[i].cred.fp = fp THEN passed[fp] + 1 ELSE 0]

Init ==
  /\ Store!Init
  /\ tracked = <<>> /\ ticks = 0
  /\ passed = [fp \in {c.cred.fp : c \in Tracks} |-> 0] /\ swept = passed

Next ==
  \/ Store!Next /\ UNCHANGED upvars
  \/ \E c \in Tracks : track(c)
  \/ \E fp \in DOMAIN passed : untrack(fp)
  \/ \E at \in 0 .. MaxTime : tick(at)

------------------------------------------------------------------------------
(* Properties                                                               *)

Groups == {cell.certs.exact[k] : k \in DOMAIN cell.certs.exact} \cup {cell.certs.wild[k] : k \in DOMAIN cell.certs.wild}
Served(fp) ==
  \/ \E g \in Groups : \E ty \in DOMAIN g.creds : g.creds[ty].fp = fp
  \/ cell.certs.default # <<>> /\ cell.certs.default[1].fp = fp

Withdrawn(t) == pending = <<>> => ~Served(t.cred.fp)
Plain(t) == \A i \in DOMAIN t.names : Store!Stars(t.names[i]) = {}

\* Once what the updater told the store is published, a certificate its
\* responder called revoked is served for no name and not as the default.
RevokedWithdrawn == \A i \in DOMAIN tracked : tracked[i].state = "Revoked" => Withdrawn(tracked[i])

\* That holds of certificates without a wildcard among their names; and so it
\* does of one that must be stapled, whose refreshes failed and whose staple
\* has run out, which is withdrawn once (tick, and Remove of the store).
StaleWithdrawn ==
  \A i \in DOMAIN tracked :
    LET t == tracked[i]
    IN /\ Plain(t) /\ (t.state = "Revoked" \/ swept[t.cred.fp] > 0) => Withdrawn(t)
       /\ swept[t.cred.fp] <= 1

\* Nobody starves: an entry due is left waiting by at most as many ticks as
\* it takes to serve everyone tracked before its turn (sort and truncate of
\* tick; each one served moves behind it).
NobodyStarves == \A fp \in DOMAIN passed : passed[fp] * MaxFetches < Cardinality(DOMAIN passed)

=============================================================================
