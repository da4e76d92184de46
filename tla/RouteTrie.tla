---------------------------- MODULE RouteTrie ----------------------------
(***************************************************************************)
(* How the route matches of one listener become an immutable group: each   *)
(* match gets an ordinal and a packed precedence, the literal keys are     *)
(* inserted into a compressed radix trie, the trie is numbered and written *)
(* to flat arenas, and the arenas are validated.  Then how a request path  *)
(* descends the arenas.  Keys and paths are sequences of bytes in their    *)
(* order, "/" the first; arena indices start at 1 and 0 is SENTINEL.       *)
(***************************************************************************)
EXTENDS Integers, SequencesExt

CONSTANTS
  Specs,        \* route matches that may be offered to the builder
  MaxSpecs,     \* how many of them one group may get
  Paths,        \* request paths tried on a finished group
  MaxByte,      \* bytes are 1 .. MaxByte
  MaxNodes,     \* GroupParts::max_nodes
  MaxBlob,      \* GroupParts::max_blob_bytes
  MaxPathBytes,
  Sparse,       \* children of a node before its edge table is dense
  CountMask,    \* largest count one precedence field holds
  OrdMask       \* largest ordinal

VARIABLES
  specs,        \* the matches offered, in the order they arrived
  stage,        \* "offer", "insert", "built" or an error
  cands,        \* CandInput, one for each match
  todo,         \* the distinct keys still to insert, ascending
  arena,        \* Vec<BuildNode>
  node_of,      \* the node each inserted key ended at
  group         \* the emitted Group

vars == <<specs, stage, cands, todo, arena, node_of, group>>

Slash == 1
SENTINEL == 0
Sum(f, S) == FoldSet(LAMBDA x, t : f[x] + t, 0, S)
LexLess(a, b) ==
  \E n \in 0..Len(b) - 1 :
    /\ n <= Len(a) /\ SubSeq(a, 1, n) = SubSeq(b, 1, n)
    /\ n = Len(a) \/ (n < Len(a) /\ a[n + 1] < b[n + 1])

-----------------------------------------------------------------------------
(* Precedence.                                                             *)

Kind == [RootDefault |-> 1, SegmentPrefix |-> 3, Regex |-> 5, Exact |-> 7]

qname(k) == k.namespace \o <<Slash>> \o k.name

order_key_cmp(a, b) ==
  \/ a.created < b.created
  \/ /\ a.created = b.created
     /\ \/ LexLess(qname(a), qname(b))
        \/ qname(a) = qname(b) /\ a.rule < b.rule
        \/ qname(a) = qname(b) /\ a.rule = b.rule /\ a.idx < b.idx

SameOrderKey(a, b) == ~order_key_cmp(a, b) /\ ~order_key_cmp(b, a)

\* The place of every match in the order of its key.
assign_ordinals(ks) ==
  [i \in DOMAIN ks |->
     Cardinality({j \in DOMAIN ks : order_key_cmp(ks[j], ks[i])})]

saturate(n) == IF n > CountMask THEN CountMask ELSE n

pack(k, ordinal) ==
  LET place(hi, radix, lo) == hi * radix + lo
      kind == place(Kind[k.kind], 2, IF k.method THEN 1 ELSE 0)
      counts == place(place(kind, CountMask + 1, saturate(k.headers)),
                      CountMask + 1, saturate(k.queries))
  IN place(counts, OrdMask + 1, OrdMask - ordinal)

-----------------------------------------------------------------------------
(* The radix trie.                                                         *)

BuildNode(label, children, key_len) ==
  [label |-> label, children |-> children, cands |-> <<>>, key_len |-> key_len]
NoChild == [b \in {} |-> 0]

common_prefix_len(a, b) ==
  Max({n \in 0..Min({Len(a), Len(b)}) : SubSeq(a, 1, n) = SubSeq(b, 1, n)})

\* The deepest node whose whole key leads the key, and how much it covers.
RECURSIVE Walk(_, _, _, _)
Walk(a, key, node, pos) ==
  LET rest == SubSeq(key, pos + 1, Len(key))
      kids == a[node].children
  IN IF rest = <<>> \/ Head(rest) \notin DOMAIN kids
     THEN [node |-> node, pos |-> pos]
     ELSE LET label == a[kids[Head(rest)]].label
          IN IF common_prefix_len(label, rest) = Len(label)
             THEN Walk(a, key, kids[Head(rest)], pos + Len(label))
             ELSE [node |-> node, pos |-> pos]

\* A leaf under parent for what is left of a key.
graft(a, parent, rest, key_len) ==
  [arena |-> Append([a EXCEPT ![parent].children = @ @@ (rest[1] :> Len(a) + 1)],
                    BuildNode(rest, NoChild, key_len)),
   node |-> Len(a) + 1]

\* A new node for the common part of a child's label and of the key.
split(a, node, child, byte, common) ==
  Append([a EXCEPT ![child].label = SubSeq(@, common + 1, Len(@)),
                   ![node].children[byte] = Len(a) + 1],
         BuildNode(SubSeq(a[child].label, 1, common), a[child].label[common + 1] :> child,
                   a[node].key_len + common))

Diverge(a, node, rest, key_len, child, common) ==
  IF common = Len(rest)
  THEN [arena |-> split(a, node, child, rest[1], common), node |-> Len(a) + 1]
  ELSE graft(split(a, node, child, rest[1], common), Len(a) + 1,
             SubSeq(rest, common + 1, Len(rest)), key_len)

AddBelow(a, node, rest, key_len) ==
  CASE rest = <<>> -> [arena |-> a, node |-> node]
    [] rest # <<>> /\ rest[1] \notin DOMAIN a[node].children -> graft(a, node, rest, key_len)
    [] OTHER -> LET child == a[node].children[rest[1]]
                IN Diverge(a, node, rest, key_len, child, common_prefix_len(a[child].label, rest))

insert(a, key) ==
  LET at == Walk(a, key, 1, 0)
  IN AddBelow(a, at.node, SubSeq(key, at.pos + 1, Len(key)), Len(key))

RECURSIVE sizes(_, _)
sizes(a, i) ==
  1 + Sum([b \in DOMAIN a[i].children |-> sizes(a, a[i].children[b])],
          DOMAIN a[i].children)

\* Mutant: the parent is passed over.
UpSkipsHolders(a, i) ==
  LET p == CHOOSE p \in DOMAIN a : i \in Range(a[p].children)
      q == CHOOSE q \in DOMAIN a : p \in Range(a[q].children)
  IN IF i = 1 \/ p = 1 THEN SENTINEL ELSE IF a[q].cands # <<>> THEN q ELSE SENTINEL

\* The nearest proper ancestor that holds a candidate.
RECURSIVE visit(_, _)
visit(a, i) ==
  IF i = 1 THEN SENTINEL
  ELSE LET p == CHOOSE p \in DOMAIN a : i \in Range(a[p].children)
       IN IF a[p].cands # <<>> THEN p ELSE visit(a, p)

\* Larger subtrees first, and equal ones in the order of their bytes.
sorted_children(a, i) ==
  LET size(b) == sizes(a, a[i].children[b])
  IN SetToSortSeq(DOMAIN a[i].children,
       LAMBDA b, c : size(b) > size(c) \/ (size(b) = size(c) /\ b < c))

RECURSIVE number(_, _)
number(a, i) ==
  FoldLeft(LAMBDA order, b : order \o number(a, a[i].children[b]),
           <<i>>, sorted_children(a, i))

-----------------------------------------------------------------------------
(* Emission.                                                               *)

NoGroup == [nodes |-> <<>>, child_bytes |-> <<>>, child_nodes |-> <<>>,
            cands |-> <<>>, blob |-> <<>>]

emit_node(a, order, cs, g, o) ==
  LET n == a[o]
      new(old) == SelectInSeq(order, LAMBDA i : i = old)
      mine == SortSeq(n.cands, LAMBDA i, j : cs[i].prec > cs[j].prec)
      kids == sorted_children(a, o)
      dense == Len(kids) > Sparse
      up == visit(a, o)
      kinds == {cs[i].kind : i \in Range(mine)}
  IN [nodes |-> Append(g.nodes,
        [blob_off |-> Len(g.blob), blob_len |-> Len(n.label),
         children |-> Len(g.child_bytes), child_n |-> IF dense THEN 0 ELSE Len(kids),
         cands |-> Len(g.cands), cand_n |-> Len(mine), key_len |-> n.key_len,
         up |-> IF up = SENTINEL THEN SENTINEL ELSE new(up), dense |-> dense,
         single_uncond |-> Len(mine) = 1 /\ cs[mine[1]].preds = SENTINEL,
         has_prefix |-> kinds \cap {"SegmentPrefix", "RootDefault"} # {},
         has_exact |-> "Exact" \in kinds]),
      child_bytes |-> g.child_bytes \o
        (IF dense THEN [b \in 1..MaxByte |-> 0] ELSE kids),
      child_nodes |-> g.child_nodes \o
        (IF dense THEN [b \in 1..MaxByte |-> IF b \in DOMAIN n.children
                                             THEN new(n.children[b]) ELSE SENTINEL]
         ELSE [k \in DOMAIN kids |-> new(n.children[kids[k]])]),
      cands |-> g.cands \o [k \in DOMAIN mine |-> cs[mine[k]]],
      blob |-> g.blob \o n.label]

emit(a, cs) ==
  LET order == number(a, 1)
  IN FoldLeft(LAMBDA g, o : emit_node(a, order, cs, g, o), NoGroup, order)

\* The label of a node is charged before it is appended.
check_blob_budget(a) == Sum([i \in DOMAIN a |-> Len(a[i].label)], DOMAIN a) <= MaxBlob

-----------------------------------------------------------------------------
(* The accessors of Group, and the descent.                                *)

label(g, n) == SubSeq(g.blob, n.blob_off + 1, n.blob_off + n.blob_len)
cands_of(g, n) == SubSeq(g.cands, n.cands + 1, n.cands + n.cand_n)

child(g, n, b) ==
  IF n.dense THEN g.child_nodes[n.children + b]
  ELSE LET hits == {k \in 1..n.child_n : g.child_bytes[n.children + k] = b}
       IN IF hits = {} THEN SENTINEL ELSE g.child_nodes[n.children + Min(hits)]

child_ids(g, n) ==
  LET extent == IF n.dense THEN MaxByte ELSE n.child_n
      run == SubSeq(g.child_nodes, n.children + 1, n.children + extent)
  IN SelectSeq(run, LAMBDA v : ~(n.dense /\ v = SENTINEL))

visit_budget(path_len) == 4 * Min({path_len, MaxPathBytes}) + 64

RECURSIVE descend_from(_, _, _, _, _)
descend_from(g, path, node, consumed, budget) ==
  LET found(left, out) ==
        [node |-> node, key_len |-> consumed, budget |-> left, exhausted |-> out]
      rest == SubSeq(path, consumed + 1, Len(path))
  IN IF budget = 0 THEN found(0, TRUE)
     ELSE IF rest = <<>> THEN found(budget - 1, FALSE)
     ELSE LET c == child(g, g.nodes[node], rest[1])
              edge == IF c = SENTINEL THEN <<>> ELSE label(g, g.nodes[c])
          IN IF edge # <<>> /\ IsPrefix(edge, rest)
             THEN descend_from(g, path, c, consumed + Len(edge), budget - 1)
             ELSE found(budget - 1, FALSE)

descend(g, path, budget) ==
  IF Len(path) > MaxPathBytes
  THEN [node |-> 1, key_len |-> 0, budget |-> budget, exhausted |-> TRUE]
  ELSE descend_from(g, path, 1, 0, budget)

prefix_boundary_ok(path, key_len) ==
  key_len <= 1 \/ key_len = Len(path) \/ path[key_len + 1] = Slash

-----------------------------------------------------------------------------
(* Validation.                                                             *)

segment_prefix_aligned(g, n) ==
  label(g, n) # <<>> /\ Last(label(g, n)) = Slash => n.key_len = 1

validate_up_link(g, n) ==
  n.up # SENTINEL =>
    n.up \in DOMAIN g.nodes /\ g.nodes[n.up].key_len < n.key_len
    /\ g.nodes[n.up].cand_n > 0

validate_node_arena_bounds(g, n) ==
  LET end == n.children + IF n.dense THEN MaxByte ELSE n.child_n
  IN /\ n.blob_off + n.blob_len <= Len(g.blob)
     /\ n.cands + n.cand_n <= Len(g.cands)
     /\ end <= Len(g.child_nodes) /\ end <= Len(g.child_bytes)

ordered(cs) == \A i \in 1..Len(cs) - 1 : cs[i + 1].prec < cs[i].prec

flags_match(g, n) ==
  LET cs == cands_of(g, n)
      kinds == {c.kind : c \in Range(cs)}
  IN /\ n.single_uncond = (Len(cs) = 1 /\ cs[1].preds = SENTINEL)
     /\ n.has_prefix = (kinds \cap {"SegmentPrefix", "RootDefault"} # {})
     /\ n.has_exact = ("Exact" \in kinds)

\* The nodes that are not the child of exactly one node the root reaches.
RECURSIVE Reached(_, _)
Reached(g, S) ==
  LET next == S \cup UNION {Range(child_ids(g, g.nodes[i])) : i \in S}
  IN IF next = S THEN S ELSE Reached(g, next)

validate_reachability(g) ==
  LET links(i) == {<<p, k>> \in Reached(g, {1}) \X (1..MaxByte) :
                     LET ids == child_ids(g, g.nodes[p])
                     IN k <= Len(ids) /\ ids[k] = i}
  IN \A i \in 2..Len(g.nodes) : Cardinality(links(i)) = 1

root_ok(n) == n.key_len = 0 /\ n.blob_len = 0 /\ n.up = SENTINEL

validate_group(g) ==
  {e \in {"ArenaBounds", "UpLink", "CandidateOrder", "PrefixNotSegmentAligned",
          "FlagMismatch", "Reachability", "PrecedenceNotUnique"} :
     \/ e = "ArenaBounds" /\ ~(/\ Len(g.child_bytes) = Len(g.child_nodes)
                               /\ root_ok(g.nodes[1])
                               /\ \A n \in Range(g.nodes) : validate_node_arena_bounds(g, n))
     \/ e = "UpLink" /\ \E n \in Range(g.nodes) : ~validate_up_link(g, n)
     \/ e = "CandidateOrder" /\ \E n \in Range(g.nodes) : ~ordered(cands_of(g, n))
     \/ e = "PrefixNotSegmentAligned" /\ \E n \in Range(g.nodes) :
          ~segment_prefix_aligned(g, n) /\ \E c \in Range(cands_of(g, n)) : c.kind = "SegmentPrefix"
     \/ e = "FlagMismatch" /\ \E n \in Range(g.nodes) : ~flags_match(g, n)
     \/ e = "Reachability" /\ ~validate_reachability(g)
     \/ e = "PrecedenceNotUnique" /\ ~IsInjective([i \in DOMAIN g.cands |-> g.cands[i].prec])}

-----------------------------------------------------------------------------
(* Building, one key at a time.                                            *)

Init ==
  /\ specs = <<>> /\ stage = "offer" /\ cands = <<>> /\ todo = <<>>
  /\ arena = <<>> /\ node_of = NoChild /\ group = NoGroup

Offer(s) ==
  /\ stage = "offer" /\ Len(specs) < MaxSpecs
  /\ specs' = Append(specs, s)
  /\ UNCHANGED <<stage, cands, todo, arena, node_of, group>>

refusal(cs) ==
  CASE \E c \in Range(cs) : c.key = <<>> \/ c.key[1] # Slash -> "KeyNotAbsolute"
    [] \E c \in Range(cs) : Len(c.key) > MaxPathBytes -> "KeyTooLong"
    [] \E i, j \in DOMAIN cs : i # j /\ cs[i].prec = cs[j].prec -> "DuplicatePrecedence"
    [] MaxNodes = 0 -> "TooManyNodes"
    [] OTHER -> "insert"

Admit ==
  /\ stage = "offer" /\ specs # <<>>
  /\ LET ordinal == assign_ordinals(specs)
         cs == [i \in DOMAIN specs |-> [key |-> specs[i].key, kind |-> specs[i].kind,
                                        preds |-> specs[i].preds, route |-> specs[i],
                                        prec |-> pack(specs[i], ordinal[i])]]
     IN IF \E i, j \in DOMAIN specs : i # j /\ SameOrderKey(specs[i], specs[j])
        THEN stage' = "DuplicateOrderKey" /\ UNCHANGED <<cands, todo, arena>>
        ELSE /\ stage' = refusal(cs) /\ cands' = cs
             /\ todo' = SetToSortSeq({c.key : c \in Range(cs)}, LexLess)
             /\ arena' = <<BuildNode(<<>>, NoChild, 0)>>
  /\ UNCHANGED <<specs, node_of, group>>

Inserted(r) ==
  IF Len(r.arena) > MaxNodes
  THEN stage' = "TooManyNodes" /\ UNCHANGED <<arena, node_of, todo>>
  ELSE /\ arena' = r.arena
       /\ node_of' = node_of @@ (Head(todo) :> r.node)
       /\ todo' = Tail(todo) /\ UNCHANGED stage

Insert ==
  /\ stage = "insert" /\ todo # <<>>
  /\ Inserted(insert(arena, Head(todo)))
  /\ UNCHANGED <<specs, cands, group>>

attached ==
  [i \in DOMAIN arena |->
     [arena[i] EXCEPT !.cands = SelectSeq([k \in DOMAIN cands |-> k],
                                          LAMBDA k : node_of[cands[k].key] = i)]]

Emit ==
  /\ stage = "insert" /\ todo = <<>>
  /\ IF check_blob_budget(attached)
     THEN stage' = "built" /\ group' = emit(attached, cands)
     ELSE stage' = "BlobTooLarge" /\ UNCHANGED group
  /\ UNCHANGED <<specs, cands, todo, arena, node_of>>

Next == (\E s \in Specs : Offer(s)) \/ Admit \/ Insert \/ Emit

Spec == Init /\ [][Next]_vars

-----------------------------------------------------------------------------
(* Properties.                                                             *)

\* The key a node of the build arena stands for.
RECURSIVE FullKey(_, _)
FullKey(a, i) ==
  IF i = 1 THEN <<>>
  ELSE FullKey(a, CHOOSE p \in DOMAIN a : i \in Range(a[p].children)) \o a[i].label

\* insert: after every key the arena is a radix tree.  Siblings start with
\* different bytes, no edge is empty, every length is the length of its key,
\* each key inserted so far is at its full depth, and a node that is no key
\* of its own branches.
RadixTree ==
  stage = "insert" =>
    /\ \A i \in DOMAIN arena :
         /\ arena[i].key_len = Len(FullKey(arena, i))
         /\ \A b \in DOMAIN arena[i].children :
              LET c == arena[i].children[b] IN arena[c].label # <<>> /\ arena[c].label[1] = b
         /\ i # 1 /\ i \notin Range(node_of) => Cardinality(DOMAIN arena[i].children) > 1
    /\ \A k \in DOMAIN node_of : FullKey(arena, node_of[k]) = k

\* build_group and validate agree: the arenas of a finished group break no
\* rule of the validator but the alignment of a prefix that was offered
\* unaligned.
BuiltIsValid ==
  stage = "built" =>
    validate_group(group) =
      IF \E c \in Range(cands) : c.kind = "SegmentPrefix" /\ Len(c.key) > 1 /\ Last(c.key) = Slash
      THEN {"PrefixNotSegmentAligned"} ELSE {}

\* The candidates a request meets: those of the node it descends to and then
\* of each node its up links lead to.
RECURSIVE Met(_, _)
Met(g, i) ==
  IF i = SENTINEL THEN <<>> ELSE cands_of(g, g.nodes[i]) \o Met(g, g.nodes[i].up)

Applies(c, path) ==
  IF c.kind = "Exact" THEN c.key = path
  ELSE IsPrefix(c.key, path) /\ prefix_boundary_ok(path, Len(c.key))

\* The rule of the Gateway API, read from the matches themselves: an exact
\* path before a prefix, then the longer prefix, then more conditions, then
\* the older and the alphabetically first.
Beats(s, t) ==
  LET rank(r) == <<IF r.kind = "Exact" THEN 1 ELSE 0, Len(r.key), Kind[r.kind],
                   IF r.method THEN 1 ELSE 0, saturate(r.headers), saturate(r.queries)>>
  IN LexLess(rank(t), rank(s)) \/ (rank(s) = rank(t) /\ order_key_cmp(s, t))

\* descend and the up links: with the budget its length is given, no path
\* runs out, the candidates it meets are those whose key leads the path and
\* no others, and the first that applies is the one the Gateway API prefers.
DescentFindsBest ==
  stage = "built" =>
    \A path \in Paths :
      LET d == descend(group, path, visit_budget(Len(path)))
          met == Met(group, d.node)
          fits == SelectSeq(met, LAMBDA c : Applies(c, path))
          all == {c \in Range(cands) : IsPrefix(c.key, path)}
      IN Len(path) <= MaxPathBytes =>
           /\ ~d.exhausted /\ d.key_len = group.nodes[d.node].key_len
           /\ Range(met) = all /\ Len(met) = Cardinality(all)
           /\ fits # <<>> => \A c \in Range(fits) \ {fits[1]} : Beats(fits[1].route, c.route)

\* descend: a smaller budget either finds the same node or says it ran out,
\* and what it then names still leads the path.
BudgetOnlyTruncates ==
  stage = "built" =>
    \A path \in Paths : \A b \in 0..4 :
      LET full == descend(group, path, visit_budget(Len(path)))
          d == descend(group, path, b)
      IN /\ d.budget <= b
         /\ ~d.exhausted => d.node = full.node
         /\ d.exhausted => d.key_len <= full.key_len
         /\ d.exhausted /\ Len(path) <= MaxPathBytes => d.budget = 0

=============================================================================
