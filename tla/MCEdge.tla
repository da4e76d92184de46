-------------------- MODULE MCEdge -------------------------------------------
(* What is compiled from configuration and consulted for every request:    *)
(* policies (with three vocabularies), the path trie of a route group, and *)
(* the interned names, the scratch and the predicates of route matching.   *)
(* In a behaviour one part moves and the others stay as they started.      *)
EXTENDS Integers, Sequences, TLC

VARIABLES
  part,
  src, ast, prog,
  specs, stage, cands, todo, arena, node_of, group,
  names_names, table, using, gen, table_gen, hdr_slots, query_slots,
  query_indexed, head, query, outcome, requests

P(c) == <<<<"p", c>>>>
Attr(a, b) == <<<<"id", a>>, <<"p", ".">>, <<"id", b>>>>
Call(n) == <<<<"p", ".">>, <<"id", n>>, <<"p", "(">>>>
Entry(ty, from, lower) == [ty |-> ty, from |-> from, lower |-> lower]
Attrs ==
  (<<"connection", "tls">> :> Entry("Bool", 0, FALSE))
  @@ (<<"request", "path">> :> Entry("Str", 1, FALSE))
  @@ (<<"request", "port">> :> Entry("Int", 1, FALSE))
  @@ (<<"request", "headers">> :> Entry("Map", 1, TRUE))
  @@ (<<"response", "status">> :> Entry("Int", 2, FALSE))
Strings == {<<>>, <<"a">>, <<"A", "b">>}
Null == <<<<"n", 0>>>>
Letters(s) == <<<<"s", s>>>>
Logic ==
  {Attr("connection", "tls"), P("&&"), P("||"), P("!"), P("("), P(")"), P("?"), P(":"),
   <<<<"b", TRUE>>>>}
Comparisons ==
  {Attr("request", "port"), Attr("request", "path"), P("=="), P("<"), P("in"), P("["),
   P("]"), P(","), <<<<"i", 1>>>>, Letters(<<"A">>), Null}
Methods ==
  {Attr("request", "path"), Letters(<<"a">>), Null, Call("startsWith"), Call("endsWith"),
   Call("contains"), Call("matches"), Call("equalsIgnoreCase"),
   Call("startsWithIgnoreCase"), Call("size"), P(")"), P("=="), P("["), P("]")}

Match(k, kd, p, m, h, c, n, i) ==
  [key |-> k, kind |-> kd, preds |-> p, method |-> m, headers |-> h, queries |-> 0,
   created |-> c, namespace |-> <<2>>, name |-> n, rule |-> 0, idx |-> i]
Matches ==
  {Match(<<1>>, "RootDefault", 0, FALSE, 0, 1, <<3>>, 0),
   Match(<<1, 2>>, "SegmentPrefix", 0, FALSE, 0, 1, <<3>>, 1),
   Match(<<1, 2>>, "Exact", 1, TRUE, 0, 2, <<3>>, 0),
   Match(<<1, 2, 3>>, "SegmentPrefix", 0, FALSE, 0, 2, <<2>>, 1),
   Match(<<1, 2, 1, 3>>, "SegmentPrefix", 1, TRUE, 1, 0, <<3>>, 2),
   Match(<<1, 2, 1, 2>>, "Exact", 0, FALSE, 0, 1, <<3>>, 2),
   Match(<<1, 2>>, "SegmentPrefix", 1, FALSE, 3, 1, <<2>>, 1),
   Match(<<1, 2>>, "SegmentPrefix", 1, FALSE, 2, 3, <<2>>, 1),
   Match(<<1, 3, 1>>, "SegmentPrefix", 0, FALSE, 0, 0, <<3>>, 0),
   Match(<<2>>, "SegmentPrefix", 0, FALSE, 0, 0, <<3>>, 1),
   Match(<<1, 2, 2, 2, 2>>, "Exact", 0, FALSE, 0, 3, <<3>>, 1)}
AllPaths == {p \in UNION {[1..n -> 1..3] : n \in 1..5} : p[1] = 1}

AllNames == UNION {[1..k -> {3, 4}] : k \in 1..3} \cup {<<2>>, <<>>}
HeaderFields == {<<<<3>>, 1>>, <<<<3>>, 2>>, <<<<3, 4>>, 1>>}
Pred(o, a, l, z) == [op |-> o, a |-> a, lit |-> l, last |-> z]
FewPreds ==
  <<Pred("Method", 0, TRUE, FALSE), Pred("HeaderAbsent", 1, 0, TRUE),
    Pred("HeaderExact", 1, 1, FALSE), Pred("QueryExact", 1, <<3>>, TRUE)>>
ManyPreds ==
  <<Pred("Method", 0, TRUE, FALSE), Pred("HeaderAbsent", 1, 0, FALSE),
    Pred("HeaderExact", 2, 1, TRUE), Pred("HeaderPresent", 1, 0, FALSE),
    Pred("QueryExact", 1, <<3>>, FALSE), Pred("QueryPresent", 2, 0, TRUE),
    Pred("Unknown", 0, 0, TRUE), Pred("Method", 0, FALSE, FALSE)>>
OneQuery == {<<3, 2, 3, 1, 3, 2, 4>>}
TwoQueries == OneQuery \cup {<<1, 2, 3, 1, 3, 4>>}

logic ==
  <<src, ast, prog>>
Logical == INSTANCE Policy WITH
  Chunks <- Logic, MaxTokens <- 9, MaxDepth <- 3, MaxOps <- 9, MaxConsts <- 2,
  MaxSlots <- 2, MaxRegex <- 1, MaxList <- 2, MaxStack <- 3, ATTRS <- Attrs,
  NAMESPACES <- {"request", "connection"}, Phase <- 1, Ints <- {0, 1},
  Strs <- Strings

Comparing == INSTANCE Policy WITH
  Chunks <- Comparisons, MaxTokens <- 7, MaxDepth <- 3, MaxOps <- 9,
  MaxConsts <- 2, MaxSlots <- 2, MaxRegex <- 1, MaxList <- 2, MaxStack <- 3,
  ATTRS <- Attrs, NAMESPACES <- {"request", "connection"}, Phase <- 1,
  Ints <- {0, 1}, Strs <- Strings

Calling == INSTANCE Policy WITH
  Chunks <- Methods, MaxTokens <- 9, MaxDepth <- 3, MaxOps <- 9,
  MaxConsts <- 2, MaxSlots <- 2, MaxRegex <- 1, MaxList <- 2, MaxStack <- 3,
  ATTRS <- Attrs, NAMESPACES <- {"request", "connection"}, Phase <- 1,
  Ints <- {0, 1}, Strs <- Strings

trie ==
  <<specs, stage, cands, todo, arena, node_of, group>>
Trie == INSTANCE RouteTrie WITH
  Specs <- Matches, Paths <- AllPaths, MaxSpecs <- 4, MaxByte <- 3,
  MaxNodes <- 7, MaxBlob <- 8, MaxPathBytes <- 4, Sparse <- 1, CountMask <- 2,
  OrdMask <- 7

names ==
  <<names_names, table, using, gen, table_gen, hdr_slots, query_slots,
    query_indexed, head, query, outcome, requests>>
Interning == INSTANCE RouteMatch WITH
  Interns <- AllNames, MaxInterned <- 5, MaxNames <- 4, MaxTables <- 1,
  Queries <- {}, MaxRequests <- 0, Preds <- <<>>, Budgets <- {},
  MaxPerLength <- 3, MaxNameBytes <- 3, MaxFast <- 2, Fields <- {},
  MaxHead <- 2, MaxGen <- 2, MaxParams <- 2, MaxQueryBytes <- 7, MaxRun <- 3,
  names <- names_names

Swapping == INSTANCE RouteMatch WITH
  Interns <- {<<3>>, <<3, 4>>}, MaxInterned <- 1, MaxNames <- 9,
  MaxTables <- 2, Queries <- OneQuery, MaxRequests <- 3, Preds <- FewPreds,
  Budgets <- {9}, MaxPerLength <- 3, MaxNameBytes <- 3, MaxFast <- 2,
  Fields <- HeaderFields, MaxHead <- 2, MaxGen <- 2, MaxParams <- 2,
  MaxQueryBytes <- 7, MaxRun <- 3, names <- names_names

Evaluating == INSTANCE RouteMatch WITH
  Interns <- {<<3>>, <<3, 4>>}, MaxInterned <- 2, MaxNames <- 9,
  MaxTables <- 1, Queries <- TwoQueries, MaxRequests <- 1, Preds <- ManyPreds,
  Budgets <- {1, 9}, MaxPerLength <- 3, MaxNameBytes <- 3, MaxFast <- 2,
  Fields <- HeaderFields, MaxHead <- 2, MaxGen <- 2, MaxParams <- 2,
  MaxQueryBytes <- 7, MaxRun <- 3, names <- names_names

vars == <<part, logic, trie, names>>

Init ==
  /\ part \in {"logic", "compare", "methods", "trie", "names", "swap", "eval"}
  /\ IF part = "compare" THEN Comparing!Init ELSE IF part = "methods" THEN Calling!Init ELSE Logical!Init
  /\ Trie!Init
  /\ IF part = "swap" THEN Swapping!Init ELSE IF part = "eval" THEN Evaluating!Init ELSE Interning!Init


Next ==
  \/ part = "logic" /\ Logical!Next
     /\ UNCHANGED <<part, trie, names>>
  \/ part = "compare" /\ Comparing!Next
     /\ UNCHANGED <<part, trie, names>>
  \/ part = "methods" /\ Calling!Next
     /\ UNCHANGED <<part, trie, names>>
  \/ part = "trie" /\ Trie!Next
     /\ UNCHANGED <<part, logic, names>>
  \/ part = "names" /\ Interning!Next
     /\ UNCHANGED <<part, logic, trie>>
  \/ part = "swap" /\ Swapping!Next
     /\ UNCHANGED <<part, logic, trie>>
  \/ part = "eval" /\ Evaluating!Next
     /\ UNCHANGED <<part, logic, trie>>

Spec == Init /\ [][Next]_vars

-----------------------------------------------------------------------------
\* parse, check and compile: the parser accepts exactly the sentences of the
\* grammar within its limits, and compiling drops no attribute, constant or
\* regex the source names.
PolicyAdmission ==
  /\ part = "logic" => Logical!GrammarExact /\ Logical!NothingLost
  /\ part = "compare" => Comparing!GrammarExact /\ Comparing!NothingLost
  /\ part = "methods" => Calling!GrammarExact /\ Calling!NothingLost

\* verify and eval: an admitted program evaluates to what its source denotes
\* for every attribute value, within its stack and its steps.
PolicyEvaluation ==
  /\ part = "logic" => Logical!Faithful /\ Logical!Contained
  /\ part = "compare" => Comparing!Faithful /\ Comparing!Contained
  /\ part = "methods" => Calling!Faithful /\ Calling!Contained

\* build_group, validate and descend: every insertion leaves a radix tree,
\* what the builder emits the validator accepts, and a descent followed by
\* the up links meets exactly the candidates whose key leads the path, the
\* one the Gateway API prefers first.
RouteSound ==
  part = "trie" =>
       Trie!RadixTree /\ Trie!BuiltIsValid /\ Trie!DescentFindsBest /\
       Trie!BudgetOnlyTruncates

\* CompiledNameSet, MatchScratch and eval_preds: no interned name is lost or
\* confused, a reused scratch answers for this request only across table
\* swaps and a wrapped generation, and a run of predicates answers what is
\* true of the request.
MatchSound ==
  /\ part = "names" => Interning!LookupExact
  /\ part = "swap" => Swapping!SlotsAreThisRequest /\ Swapping!VerdictTrue
  /\ part = "eval" => Evaluating!SlotsAreThisRequest /\ Evaluating!VerdictTrue

\* compile: an admitted policy denotes its source, the promise of the comment
\* on build_suppressed.
MeaningKept ==
  part = "compare" => Comparing!MeaningKept
=============================================================================
