---------------------------- MODULE RouteMatch ---------------------------
(***************************************************************************)
(* What a request is matched with.  The names routes refer to are interned *)
(* and compiled into a set with a prefilter, length buckets and a          *)
(* discriminating byte; a worker reuses one scratch for all its requests,  *)
(* told apart by a generation, while tables are published under it; and a  *)
(* run of predicates is evaluated against the scratch.  Names and queries  *)
(* are sequences of bytes; name ids start at 1 and 0 is none.              *)
(***************************************************************************)
EXTENDS Integers, SequencesExt

CONSTANTS
  Interns,        \* names a route under construction may refer to
  MaxInterned,    \* bound: how many names one table refers to
  MaxNames, MaxPerLength, MaxNameBytes, MaxFast,
  MaxTables,      \* bound: tables published in a behaviour
  Fields,         \* <<name, value>> pairs a request head may contain
  MaxHead,        \* bound: fields in one head
  Queries,        \* query strings of requests
  MaxRequests,    \* bound: requests of a behaviour
  MaxGen,         \* u32::MAX
  MaxParams, MaxQueryBytes,
  Preds,          \* the predicate arena of a group
  MaxRun,         \* MAX_PREDS_PER_CAND
  Budgets         \* candidate budgets a run may be left

VARIABLES
  names,          \* NameSetBuilder: name -> id
  table,          \* the published table
  using,          \* the table of the request in hand
  gen, table_gen, hdr_slots, query_slots, query_indexed,   \* MatchScratch
  head, query,    \* the request
  outcome,        \* what the last run answered
  requests        \* how many requests were begun

vars == <<names, table, using, gen, table_gen, hdr_slots, query_slots,
          query_indexed, head, query, outcome, requests>>

Amp == 1
Eq == 2
NONE == 0
LexLess(a, b) ==
  \E n \in 0..Len(b) - 1 :
    /\ n <= Len(a) /\ SubSeq(a, 1, n) = SubSeq(b, 1, n)
    /\ n = Len(a) \/ (n < Len(a) /\ a[n + 1] < b[n + 1])

-----------------------------------------------------------------------------
(* The interned names.                                                     *)

is_tchar(b) == b # Eq
NoNames == [n \in {} |-> NONE]

bucket_count(ns, name) ==
  Cardinality({m \in DOMAIN ns : IF Len(name) <= MaxFast THEN Len(m) = Len(name)
                                 ELSE Len(m) > MaxFast})

insertable(ns, name) ==
  /\ name # <<>> /\ \A b \in Range(name) : is_tchar(b)
  /\ Len(name) <= MaxNameBytes
  /\ name \notin DOMAIN ns
  /\ Cardinality(DOMAIN ns) < MaxNames
  /\ bucket_count(ns, name) < MaxPerLength

insert(ns, name) ==
  IF insertable(ns, name) THEN ns @@ (name :> Cardinality(DOMAIN ns) + 1) ELSE ns

\* The position with the most different bytes, 0 when one name is alone.
choose_disc(bucket, len) ==
  LET distinct(i) == Cardinality({n[i] : n \in bucket})
      best == {i \in 1..len : \A j \in 1..len : distinct(j) <= distinct(i)}
  IN IF Cardinality(bucket) < 2 \/ distinct(Min(best)) < 2 THEN 0 ELSE Min(best)

\* CompiledNameSet: for each length its bucket in the order of the scan.
finish(ns) ==
  LET of(len) == {n \in DOMAIN ns : Len(n) = len}
      lens == {Len(n) : n \in DOMAIN ns} \cap 1..MaxFast
      disc == [l \in lens |-> choose_disc(of(l), l)]
      before(l, a, b) ==
        IF disc[l] = 0 \/ a[disc[l]] = b[disc[l]] THEN LexLess(a, b)
        ELSE a[disc[l]] < b[disc[l]]
      shorter(a, b) == Len(a) < Len(b) \/ (Len(a) = Len(b) /\ LexLess(a, b))
  IN [ids |-> ns, disc_at |-> disc,
      buckets |-> [l \in lens |-> SetToSortSeq(of(l), LAMBDA a, b : before(l, a, b))],
      first_filter |-> [l \in lens |-> {n[1] : n \in of(l)}],
      last_filter |-> [l \in lens |-> {n[l] : n \in of(l)}],
      long |-> SetToSortSeq({n \in DOMAIN ns : Len(n) > MaxFast}, shorter)]

count(set) == Cardinality(DOMAIN set.ids)

\* The scan of a bucket stops at the first larger discriminating byte.
lookup(set, name) ==
  LET l == Len(name)
      scan(bucket, past(_)) ==
        LET hits == {i \in DOMAIN bucket : /\ bucket[i] = name
                                           /\ \A j \in 1..i : ~past(bucket[j])}
        IN IF hits = {} THEN NONE ELSE set.ids[bucket[Min(hits)]]
  IN CASE l > MaxFast -> scan(set.long, LAMBDA n : Len(n) > l)
       [] l <= MaxFast /\ l \notin DOMAIN set.buckets -> NONE
       [] OTHER ->
            IF name[1] \notin set.first_filter[l] \/ name[l] \notin set.last_filter[l]
            THEN NONE
            ELSE IF set.disc_at[l] = 0
            THEN IF set.buckets[l][1] = name THEN set.ids[name] ELSE NONE
            ELSE scan(set.buckets[l], LAMBDA n : n[set.disc_at[l]] > name[set.disc_at[l]])

-----------------------------------------------------------------------------
(* The scratch.                                                            *)

Slots(n) == [i \in 1..n |-> [gen |-> 0, at |-> 0]]

header_present(id) == id \in DOMAIN hdr_slots /\ hdr_slots[id].gen = gen
header_value(id) == IF header_present(id) THEN head[hdr_slots[id].at][2] ELSE NONE

\* The pairs of the query whose names some route refers to.
RECURSIVE index_from(_, _, _, _)
index_from(set, q, pos, slots) ==
  IF pos >= Len(q) \/ Len(slots) >= MaxParams THEN slots
  ELSE LET amps == {i \in pos + 1..Len(q) : q[i] = Amp}
           end == IF amps = {} THEN Len(q) ELSE Min(amps) - 1
           eqs == {i \in pos + 1..end : q[i] = Eq}
           stop == IF eqs = {} THEN end ELSE Min(eqs) - 1
           name == SubSeq(q, pos + 1, stop)
           off == IF eqs = {} THEN end ELSE Min(eqs)
           id == IF name = <<>> THEN NONE ELSE lookup(set, name)
       IN index_from(set, q, end + 1,
            IF id = NONE THEN slots
            ELSE Append(slots, [name |-> id, off |-> off, len |-> end - off]))

needs_query == \E p \in Range(Preds) : p.op \in {"QueryExact", "QueryPresent"}

index_query(indexed, slots) ==
  IF indexed \/ ~needs_query THEN slots
  ELSE index_from(using, SubSeq(query, 1, Min({Len(query), MaxQueryBytes})), 0, <<>>)

query_value(slots, id) ==
  LET mine == {i \in DOMAIN slots : slots[i].name = id}
      s == slots[Min(mine)]
  IN IF mine = {} THEN <<>> ELSE <<SubSeq(query, s.off + 1, s.off + s.len)>>

-----------------------------------------------------------------------------
(* The predicates.                                                         *)

\* A run is closed by its PRED_LAST flag, within MAX_PREDS_PER_CAND.
preds_from(start) ==
  LET ends == {i \in start..Min({start + MaxRun - 1, Len(Preds)}) : Preds[i].last}
  IN IF ends = {} THEN <<>> ELSE SubSeq(Preds, start, Min(ends))

malformed(p) ==
  \/ p.op \in {"HeaderExact", "HeaderPresent", "HeaderAbsent"}
     /\ (p.a = NONE \/ p.a > Len(hdr_slots))
  \/ p.op \in {"QueryExact", "QueryPresent"} /\ (p.a = NONE \/ p.a > count(using))
  \/ p.op = "Unknown"

holds(p, slots) ==
  CASE p.op = "Method" -> p.lit
    [] p.op = "HeaderPresent" -> header_present(p.a)
    [] p.op = "HeaderAbsent" -> ~header_present(p.a)
    [] p.op = "HeaderExact" -> header_present(p.a) /\ header_value(p.a) = p.lit
    [] p.op = "QueryPresent" -> query_value(slots, p.a) # <<>>
    [] p.op = "QueryExact" -> query_value(slots, p.a) = <<p.lit>>

reason_for(p, slots) ==
  CASE p.op = "Method" -> "Method"
    [] p.op = "HeaderPresent" -> "HeaderMissing"
    [] p.op = "HeaderAbsent" -> "HeaderPresentButForbidden"
    [] p.op = "HeaderExact" -> IF header_present(p.a) THEN "HeaderValue" ELSE "HeaderMissing"
    [] p.op = "QueryPresent" -> "QueryMissing"
    [] p.op = "QueryExact" -> IF query_value(slots, p.a) # <<>> THEN "QueryValue" ELSE "QueryMissing"

RECURSIVE eval_run(_, _, _, _)
eval_run(run, budget, indexed, slots) ==
  LET fail(why, b) == [answer |-> why, left |-> b, indexed |-> indexed, slots |-> slots]
      p == Head(run)
      parse == p.op \in {"QueryExact", "QueryPresent"}
      ss == IF parse THEN index_query(indexed, slots) ELSE slots
      ix == indexed \/ (parse /\ needs_query)
  IN IF run = <<>> THEN fail("Pass", budget)
     ELSE IF budget = 0 THEN fail("MalformedPredicate", 0)
     ELSE IF malformed(p) THEN fail("MalformedPredicate", budget - 1)
     ELSE IF holds(p, ss) THEN eval_run(Tail(run), budget - 1, ix, ss)
     ELSE [answer |-> reason_for(p, ss), left |-> budget - 1, indexed |-> ix, slots |-> ss]

eval_preds(start, budget) ==
  IF start = NONE THEN [answer |-> "Pass", left |-> budget, indexed |-> query_indexed, slots |-> query_slots]
  ELSE IF preds_from(start) = <<>>
  THEN [answer |-> "MalformedPredicate", left |-> budget, indexed |-> query_indexed, slots |-> query_slots]
  ELSE eval_run(preds_from(start), budget, query_indexed, query_slots)

-----------------------------------------------------------------------------
NoOutcome == [start |-> 0, budget |-> 0, answer |-> "Idle", left |-> 0]

Init ==
  /\ names = NoNames
  /\ table = finish(NoNames) @@ [generation |-> 0]
  /\ using = table
  /\ gen = 0 /\ table_gen = -1 /\ hdr_slots = <<>>
  /\ query_slots = <<>> /\ query_indexed = FALSE
  /\ head = <<>> /\ query = <<>> /\ outcome = NoOutcome /\ requests = 0

Intern(name) ==
  /\ Cardinality(DOMAIN names) < MaxInterned /\ table.generation < MaxTables
  /\ names' = insert(names, name) /\ names' # names
  /\ UNCHANGED <<table, using, gen, table_gen, hdr_slots, query_slots, query_indexed,
                 head, query, outcome, requests>>

Publish ==
  /\ names # NoNames /\ table.generation < MaxTables
  /\ table' = finish(names) @@ [generation |-> table.generation + 1]
  /\ names' = NoNames
  /\ UNCHANGED <<using, gen, table_gen, hdr_slots, query_slots, query_indexed,
                 head, query, outcome, requests>>

\* Mutant: a wrapped generation does not clear the slots.
BeginKeepsSlots(q) ==
  /\ requests < MaxRequests
  /\ using' = table
  /\ IF table_gen # table.generation
     THEN hdr_slots' = Slots(count(table)) /\ table_gen' = table.generation /\ gen' = 1
     ELSE /\ UNCHANGED table_gen
          /\ IF gen = MaxGen THEN gen' = 1 /\ UNCHANGED hdr_slots
             ELSE gen' = gen + 1 /\ UNCHANGED hdr_slots
  /\ query_slots' = <<>> /\ query_indexed' = FALSE
  /\ head' = <<>> /\ query' = q /\ outcome' = NoOutcome /\ requests' = requests + 1
  /\ UNCHANGED <<names, table>>

begin_request(q) ==
  /\ requests < MaxRequests
  /\ using' = table
  /\ IF table_gen # table.generation
     THEN hdr_slots' = Slots(count(table)) /\ table_gen' = table.generation /\ gen' = 1
     ELSE /\ UNCHANGED table_gen
          /\ IF gen = MaxGen THEN hdr_slots' = Slots(Len(hdr_slots)) /\ gen' = 1
             ELSE gen' = gen + 1 /\ UNCHANGED hdr_slots
  /\ query_slots' = <<>> /\ query_indexed' = FALSE
  /\ head' = <<>> /\ query' = q /\ outcome' = NoOutcome /\ requests' = requests + 1
  /\ UNCHANGED <<names, table>>

observe_header(f) ==
  /\ gen # 0 /\ Len(head) < MaxHead /\ outcome = NoOutcome
  /\ head' = Append(head, f)
  /\ LET id == lookup(using, f[1])
     IN IF id = NONE \/ id \notin DOMAIN hdr_slots THEN UNCHANGED hdr_slots
        ELSE hdr_slots' = [hdr_slots EXCEPT ![id] = [gen |-> gen, at |-> Len(head) + 1]]
  /\ UNCHANGED <<names, table, using, gen, table_gen, query_slots, query_indexed,
                 query, outcome, requests>>

Answered(start, budget, r) ==
  /\ outcome' = [start |-> start, budget |-> budget, answer |-> r.answer, left |-> r.left]
  /\ query_slots' = r.slots /\ query_indexed' = r.indexed

Evaluate(start, budget) ==
  /\ gen # 0
  /\ Answered(start, budget, eval_preds(start, budget))
  /\ UNCHANGED <<names, table, using, gen, table_gen, hdr_slots, head, query, requests>>

Next ==
  \/ \E n \in Interns : Intern(n)
  \/ Publish
  \/ \E q \in Queries : begin_request(q)
  \/ \E f \in Fields : observe_header(f)
  \/ \E s \in 0..Len(Preds), b \in Budgets : Evaluate(s, b)

Spec == Init /\ [][Next]_vars

-----------------------------------------------------------------------------
(* Properties.                                                             *)

\* NameSetBuilder and CompiledNameSet::lookup: the prefilters, the buckets
\* and the early exit lose no interned name and confuse no two.
LookupExact ==
  \A n \in Interns : lookup(table, n) = IF n \in DOMAIN table.ids THEN table.ids[n] ELSE NONE

\* MatchScratch: a header is found by its id exactly when this request's own
\* head has it, with its last value, whatever earlier requests, tables and a
\* wrapped generation left in the slots.
SlotsAreThisRequest ==
  gen # 0 =>
    \A n \in DOMAIN using.ids :
      LET mine == {i \in DOMAIN head : head[i][1] = n}
      IN /\ header_present(using.ids[n]) <=> mine # {}
         /\ mine # {} => header_value(using.ids[n]) = head[Max(mine)][2]

\* The pairs of a query, by splitting it at every "&" at once.
Pairs(q) ==
  LET cuts == {0, Len(q) + 1} \cup {i \in DOMAIN q : q[i] = Amp}
      pieces == {<<a, b>> \in cuts \X cuts : a < b /\ \A c \in cuts : ~(a < c /\ c < b)}
  IN SetToSortSeq(pieces, LAMBDA x, y : x[1] < y[1])

NameOf(q, pr) ==
  LET eqs == {i \in pr[1] + 1..pr[2] - 1 : q[i] = Eq}
  IN SubSeq(q, pr[1] + 1, (IF eqs = {} THEN pr[2] ELSE Min(eqs)) - 1)

ValueOf(q, pr) ==
  LET eqs == {i \in pr[1] + 1..pr[2] - 1 : q[i] = Eq}
  IN IF eqs = {} THEN <<>> ELSE SubSeq(q, Min(eqs) + 1, pr[2] - 1)

Given(q, n) == {pr \in Range(Pairs(q)) : NameOf(q, pr) = n}

Known(id) == CHOOSE n \in DOMAIN using.ids : using.ids[n] = id

\* What a predicate says of the request itself.
Meets(p) ==
  LET n == Known(p.a)
      mine == {i \in DOMAIN head : head[i][1] = n}
      given == Given(query, n)
  IN CASE p.op = "Method" -> p.lit
       [] p.op = "HeaderPresent" -> mine # {}
       [] p.op = "HeaderAbsent" -> mine = {}
       [] p.op = "HeaderExact" -> mine # {} /\ head[Max(mine)][2] = p.lit
       [] p.op = "QueryPresent" -> given # {}
       [] p.op = "QueryExact" ->
            given # {} /\ ValueOf(query, CHOOSE pr \in given : \A o \in given : pr[1] <= o[1]) = p.lit

\* eval_preds: a run passes only if every predicate of it is true of this
\* request, a well-formed run with budget enough passes whenever they all
\* are, and each predicate looked at costs one of the budget.
VerdictTrue ==
  outcome # NoOutcome /\ outcome.start # NONE =>
    LET run == preds_from(outcome.start)
        looked == outcome.budget - outcome.left
        whole == Len(query) <= MaxQueryBytes /\ Len(Pairs(query)) <= MaxParams
    IN /\ looked \in 0..Len(run)
       /\ outcome.answer = "Pass" =>
            run # <<>> /\ looked = Len(run)
            /\ (whole => \A p \in Range(run) : Meets(p))
       /\ (outcome.answer # "Pass" /\ outcome.answer # "MalformedPredicate") =>
            /\ looked > 0 /\ (whole => ~Meets(run[looked]))
            /\ whole => \A i \in 1..looked - 1 : Meets(run[i])
       /\ outcome.answer = "MalformedPredicate" =>
            outcome.left = 0 \/ run = <<>> \/ (looked > 0 /\ malformed(run[looked]))

=============================================================================
