------------------------------- MODULE Policy -------------------------------
(* The policy language ITPL (crates/irontraffic-policy): a source is parsed  *)
(* into a flat post-order arena (parse.rs), typed in one forward pass        *)
(* (check.rs), compiled in one forward sweep with patched jumps (compile.rs),*)
(* verified (program.rs) and run by a stack machine (vm.rs).                 *)
(*                                                                           *)
(* A state is a source, as the tokens typed so far, with what the pipeline   *)
(* makes of it.  Every source that some continuation could still complete is *)
(* extended, so all programs up to MaxTokens over Chunks are admitted or     *)
(* refused, and every admitted one is run in every environment.  Tokens are  *)
(* pairs: <<"p", punctuation>>, <<"id", name>>, or a literal value           *)
(* <<"b", bool>>, <<"i", int>>, <<"s", letters>>, <<"n", 0>>.  Node ids and  *)
(* program counters are 1-based here; the lexer is not modelled.             *)
EXTENDS Integers, FiniteSets, SequencesExt

CONSTANTS
    Chunks,       \* token sequences a source is made of
    MaxTokens,    \* PolicyLimits::max_tokens, the bound of the exploration
    MaxDepth,     \* PolicyLimits::max_depth
    MaxOps, MaxConsts, MaxSlots, MaxRegex, MaxList,  \* the other limits
    MaxStack,     \* Program::MAX_STACK
    ATTRS,        \* the schema: path -> [ty, from, lower]; ty "Map" is a map row
    NAMESPACES,   \* the names an expression may start with
    Phase,        \* the phase the policy is attached to
    Ints, Strs    \* what integer and string attributes may hold

VARIABLES
  src, ast, prog

vars == <<src, ast, prog>>

Null == <<"n", 0>>
Bool(b) == <<"b", b>>
Error(name) == <<"e", name>>
Literals == {"b", "i", "s", "n"}
RelOps == {"==", "!=", "<", "<=", ">", ">=", "in"}

\* Method::from_name and Method::arity.
Arity == [m \in {"startsWith", "endsWith", "contains", "matches",
                 "equalsIgnoreCase", "startsWithIgnoreCase", "size"} |->
            IF m = "size" THEN 0 ELSE 1]

-----------------------------------------------------------------------------
(* parse.rs.  A parser is [pos, nodes, id, elems, err]: the next token, the  *)
(* arena, the node just built, the elements just listed, the first error.    *)

Parser == [pos |-> 1, nodes |-> <<>>, id |-> 0, elems |-> <<>>, err |-> ""]

Fail(p, e) == [p EXCEPT !.err = e]
Skip(p) == [p EXCEPT !.pos = @ + 1]

peek(ts, p) == IF p.pos > Len(ts) THEN <<"eof", 0>> ELSE ts[p.pos]

At(ts, p, c) == p.err = "" /\ peek(ts, p) = <<"p", c>>

peek_relop(ts, p) == p.err = "" /\ peek(ts, p)[1] = "p" /\ peek(ts, p)[2] \in RelOps

err_here(ts, p) == Fail(p, IF p.pos > Len(ts) THEN "UnexpectedEof" ELSE "Unexpected")

\* Mutant: a missing closing token is overlooked.
ExpectLenient(ts, p, c) == IF At(ts, p, c) THEN Skip(p) ELSE p

expect(ts, p, c) ==
    IF p.err # "" THEN p ELSE IF At(ts, p, c) THEN Skip(p) ELSE err_here(ts, p)

push(p, node) ==
    IF p.err # "" THEN p
    ELSE [p EXCEPT !.nodes = Append(@, node), !.id = Len(p.nodes) + 1]

\* The productions call each other by name, through one recursive operator.
RECURSIVE rule(_, _, _, _), elem_loop(_, _, _, _, _)

elem_loop(ts, p, close, d, es) ==
    IF Len(es) >= MaxList THEN Fail(p, "ListTooLong")
    ELSE LET e   == rule("expr", ts, p, d)
             got == Append(es, e.id)
         IN IF At(ts, e, ",") THEN elem_loop(ts, Skip(e), close, d, got)
            ELSE [expect(ts, e, close) EXCEPT !.elems = got]

elem_list(ts, p, close, d) ==
    IF At(ts, p, close) THEN [Skip(p) EXCEPT !.elems = <<>>]
    ELSE elem_loop(ts, p, close, d, <<>>)

primary(ts, p, d) ==
    LET t == peek(ts, p) IN
    CASE p.err # ""          -> p
      [] t[1] \in Literals   -> push(Skip(p), <<"Lit", t>>)
      [] t = <<"p", "(">>    -> expect(ts, rule("expr", ts, Skip(p), d), ")")
      [] t = <<"p", "[">>    -> LET a == elem_list(ts, Skip(p), "]", d)
                                IN push(a, <<"List", a.elems>>)
      [] t[1] = "id"         -> IF At(ts, Skip(p), "(") THEN Fail(p, "NotImplemented")
                                ELSE push(Skip(p), <<"Ident", t[2]>>)
      [] OTHER               -> err_here(ts, p)

\* One round of postfix's loop after a '.', at the name.
named(ts, q, b, d) ==
    LET name == peek(ts, q)[2] IN
    CASE peek(ts, q)[1] # "id"     -> err_here(ts, q)
      [] ~At(ts, Skip(q), "(")     -> push(Skip(q), <<"Field", b.id, name>>)
      [] name \notin DOMAIN Arity  -> Fail(q, "NotImplemented")
      [] OTHER -> LET a == elem_list(ts, Skip(Skip(q)), ")", d)
                  IN IF a.err = "" /\ Len(a.elems) # Arity[name] THEN Fail(a, "BadArity")
                     ELSE push(a, <<"Call", b.id, name, a.elems>>)

call_tail(ts, b, d) ==
    CASE At(ts, b, ".") -> rule("call_tail", ts, named(ts, Skip(b), b, d), d)
      [] At(ts, b, "[") -> LET x == rule("expr", ts, Skip(b), d)
                           IN rule("call_tail", ts, push(expect(ts, x, "]"), <<"Index", b.id, x.id>>), d)
      [] OTHER          -> b

postfix(ts, p, d) == rule("call_tail", ts, rule("primary", ts, p, d), d)

unary(ts, p, d) ==
    IF At(ts, p, "!") THEN LET r == rule("unary", ts, Skip(p), d) IN push(r, <<"Not", r.id>>)
    ELSE rule("postfix", ts, p, d)

rel(ts, p, d) ==
    LET l == rule("unary", ts, p, d)
        r == rule("unary", ts, Skip(l), d)
    IN IF ~peek_relop(ts, l) THEN l
       ELSE IF peek_relop(ts, r) THEN err_here(ts, r)
       ELSE push(r, <<"Bin", peek(ts, l)[2], l.id, r.id>>)

and(ts, l, d) ==
    IF At(ts, l, "&&")
    THEN LET r == rule("rel", ts, Skip(l), d) IN rule("and", ts, push(r, <<"And", l.id, r.id>>), d)
    ELSE l

or(ts, l, d) ==
    IF At(ts, l, "||")
    THEN LET q == Skip(l)
             r == rule("and", ts, rule("rel", ts, q, d), d)
         IN rule("or", ts, push(r, <<"Or", l.id, r.id>>), d)
    ELSE l

\* expr and expr_inner; d is the depth already entered.
expr(ts, p, d) ==
    IF p.err # "" THEN p
    ELSE IF d + 1 > MaxDepth THEN Fail(p, "TooDeep")
    ELSE LET c == rule("or", ts, rule("and", ts, rule("rel", ts, p, d + 1), d + 1), d + 1)
             t == rule("expr", ts, Skip(c), d + 1)
             e == rule("expr", ts, expect(ts, t, ":"), d + 1)
         IN IF At(ts, c, "?") THEN push(e, <<"Ternary", c.id, t.id, e.id>>) ELSE c

rule(name, ts, p, d) ==
    CASE name = "expr"      -> expr(ts, p, d)
      [] name = "or"        -> or(ts, p, d)
      [] name = "and"       -> and(ts, p, d)
      [] name = "rel"       -> rel(ts, p, d)
      [] name = "unary"     -> unary(ts, p, d)
      [] name = "postfix"   -> postfix(ts, p, d)
      [] name = "call_tail" -> call_tail(ts, p, d)
      [] name = "primary"   -> primary(ts, p, d)

parse(ts) ==
    LET r == rule("expr", ts, Parser, 0)
    IN IF r.err = "" /\ r.pos <= Len(ts) THEN Fail(r, "TrailingTokens") ELSE r

-----------------------------------------------------------------------------
(* check.rs.  One forward pass types every node, interns every attribute it  *)
(* reads and stops at the first error.                                       *)

Lower(s) == [i \in DOMAIN s |-> IF s[i] = "A" THEN "a" ELSE s[i]]

IsNode(nodes, i, kind) == nodes[i][1] = kind

TyOfLit(v) == CASE v[1] = "b" -> "Bool" [] v[1] = "i" -> "Int"
                [] v[1] = "s" -> "Str"  [] v[1] = "n" -> "Null"

\* assemble_path: the dotted path a Field names, or <<>> if it is not one.
RECURSIVE assemble_path(_, _)
assemble_path(nodes, i) ==
    CASE IsNode(nodes, i, "Ident") -> <<nodes[i][2]>>
      [] IsNode(nodes, i, "Field") ->
            LET base == assemble_path(nodes, nodes[i][2])
            IN IF base = <<>> THEN <<>> ELSE Append(base, nodes[i][3])
      [] OTHER -> <<>>

Typed(ty) == [ty |-> ty, ref |-> <<>>, map |-> <<>>, err |-> ""]
Refused(e) == [Typed("Null") EXCEPT !.err = e]

resolve_field(nodes, c, i) ==
    LET path == assemble_path(nodes, i) IN
    CASE c.types[nodes[i][2]] # "Map" \/ path = <<>> -> Refused("NotANamespace")
      [] path \notin DOMAIN ATTRS                    -> Refused("UnknownAttribute")
      [] ATTRS[path].ty = "Map"      -> [Typed("Map") EXCEPT !.map = path]
      [] Phase < ATTRS[path].from    -> Refused("NotAvailableInPhase")
      [] OTHER -> [Typed(ATTRS[path].ty) EXCEPT !.ref = <<"Scalar", path>>]

resolve_index(nodes, c, base, index) ==
    LET map == c.maps[base]
        key == nodes[index][2][2]
    IN CASE map = <<>> -> Refused("NotIndexable")
         [] ~IsNode(nodes, index, "Lit") \/ c.types[index] # "Str" -> Refused("DynamicIndex")
         [] Phase < ATTRS[map].from -> Refused("MapNotAvailableInPhase")
         [] OTHER -> [Typed("Str") EXCEPT
                        !.ref = <<"Field", map, IF ATTRS[map].lower THEN Lower(key) ELSE key>>]

check_call(nodes, c, base, method, args) ==
    LET ty == c.types[base] IN
    CASE method = "size" -> IF ty \in {"Str", "List"} THEN Typed("Int") ELSE Refused("BadReceiver")
      [] method # "size" /\ ty \notin {"Str", "Null"} -> Refused("BadReceiver")
      [] method # "size" /\ ty \in {"Str", "Null"} ->
            IF c.types[args[1]] # "Str" THEN Refused("BadArgument")
            ELSE IF method = "matches" /\ ~IsNode(nodes, args[1], "Lit") THEN Refused("NonConstantRegex")
            ELSE Typed("Bool")

Scalars == {"Str", "Int", "Bool"}

Unifies(s, t) == (s = "Null" /\ t \in Scalars) \/ (t = "Null" /\ s \in Scalars)

check_bin(nodes, c, op, lhs, rhs) ==
    LET l == c.types[lhs]
        r == c.types[rhs]
    IN CASE op \in {"==", "!="} ->
              IF (l = r /\ l \notin {"Map", "List"}) \/ Unifies(l, r)
              THEN Typed("Bool") ELSE Refused("TypeMismatch")
         [] op \in {"<", "<=", ">", ">="} ->
              IF l = "Int" /\ r = "Int" THEN Typed("Bool") ELSE Refused("NotOrdered")
         [] op = "in" ->
              IF ~IsNode(nodes, rhs, "List") THEN Refused("InRequiresList")
              ELSE LET elems == nodes[rhs][2]
                   IN IF l \in {"Map", "List"} \/ (elems # <<>> /\ c.types[elems[1]] # l)
                      THEN Refused("HeterogeneousList") ELSE Typed("Bool")

check_list(c, elems) ==
    IF \A e \in Range(elems) : c.types[e] \in Scalars /\ c.types[e] = c.types[elems[1]]
    THEN Typed("List") ELSE Refused("HeterogeneousList")

unify(s, t) ==
    CASE s = t          -> Typed(s)
      [] s # t /\ Unifies(s, t) -> Typed(IF s = "Null" THEN t ELSE s)
      [] OTHER          -> Refused("TypeMismatch")

check_node(nodes, c, i) ==
    LET n == nodes[i]
        bools(ids) == \A j \in ids : c.types[j] = "Bool"
        want(ids, r) == IF bools(ids) THEN r ELSE Refused("TypeMismatch")
        isFieldBase == \E j \in DOMAIN nodes : IsNode(nodes, j, "Field") /\ nodes[j][2] = i
    IN CASE n[1] = "Lit"     -> Typed(TyOfLit(n[2]))
         [] n[1] = "Ident"   -> IF isFieldBase \/ n[2] \in NAMESPACES THEN Typed("Map")
                                ELSE Refused("UnknownAttribute")
         [] n[1] = "Field"   -> resolve_field(nodes, c, i)
         [] n[1] = "Index"   -> resolve_index(nodes, c, n[2], n[3])
         [] n[1] = "Call"    -> check_call(nodes, c, n[2], n[3], n[4])
         [] n[1] = "Not"     -> want({n[2]}, Typed("Bool"))
         [] n[1] \in {"And", "Or"} -> want({n[2], n[3]}, Typed("Bool"))
         [] n[1] = "Bin"     -> check_bin(nodes, c, n[2], n[3], n[4])
         [] n[1] = "Ternary" -> want({n[2]}, unify(c.types[n[3]], c.types[n[4]]))
         [] n[1] = "List"    -> check_list(c, n[2])

\* intern_slot: the position of ref, appended if it is new.
Interned(seq, x) == IF x \in Range(seq) THEN seq ELSE Append(seq, x)
PositionOf(seq, x) == CHOOSE j \in DOMAIN seq : seq[j] = x

\* What node i's resolution r adds to the checker's columns.
Record(c, r, slots) ==
    [types |-> Append(c.types, r.ty), maps |-> Append(c.maps, r.map), slots |-> slots,
     slot |-> Append(c.slot, IF r.ref = <<>> THEN 0 ELSE PositionOf(slots, r.ref)), err |-> r.err]

Resolved(c, r) == Record(c, r, IF r.ref = <<>> THEN c.slots ELSE Interned(c.slots, r.ref))

\* The checks after the last node.
check_root(a, c) ==
    CASE c.err # ""              -> c
      [] Len(c.slots) > MaxSlots -> [c EXCEPT !.err = "TooManyAttrSlots"]
      [] c.err = "" /\ Len(c.slots) <= MaxSlots ->
            IF c.types[a.id] = "Map" THEN [c EXCEPT !.err = "TypeMismatch"] ELSE c

check(a) ==
    LET step(c, i) == IF c.err # "" THEN c ELSE Resolved(c, check_node(a.nodes, c, i))
    IN check_root(a, FoldLeft(step, [types |-> <<>>, maps |-> <<>>, slots |-> <<>>, slot |-> <<>>, err |-> ""],
                              [i \in DOMAIN a.nodes |-> i]))

-----------------------------------------------------------------------------
(* compile.rs.  One forward sweep emits code for each node, leaving a hole   *)
(* before the node a conditional may skip; And, Or and Ternary patch them.   *)
(* An instruction is <<name, operand>>, operand 0 where it has none.         *)

\* Mutant: both connectives leave on a false left operand.
HoleSameForOr(nodes, i) ==
    LET marks(j) == CASE IsNode(nodes, j, "And") /\ nodes[j][2] = i - 1     -> "JumpIfFalse"
                      [] IsNode(nodes, j, "Or") /\ nodes[j][2] = i - 1      -> "JumpIfFalse"
                      [] IsNode(nodes, j, "Ternary") /\ nodes[j][2] = i - 1 -> "BranchIfFalse"
                      [] IsNode(nodes, j, "Ternary") /\ nodes[j][3] = i - 1 -> "Jump"
                      [] OTHER -> ""
        js == {j \in DOMAIN nodes : marks(j) # ""}
    IN IF js = {} THEN "" ELSE marks(Max(js))

\* build_hole_before: the jump left in front of node i, or "".
hole_before(nodes, i) ==
    LET marks(j) == CASE IsNode(nodes, j, "And") /\ nodes[j][2] = i - 1     -> "JumpIfFalse"
                      [] IsNode(nodes, j, "Or") /\ nodes[j][2] = i - 1      -> "JumpIfTrue"
                      [] IsNode(nodes, j, "Ternary") /\ nodes[j][2] = i - 1 -> "BranchIfFalse"
                      [] IsNode(nodes, j, "Ternary") /\ nodes[j][3] = i - 1 -> "Jump"
                      [] OTHER -> ""
        js == {j \in DOMAIN nodes : marks(j) # ""}
    IN IF js = {} THEN "" ELSE marks(Max(js))

\* build_suppressed: a literal list element and a regex are folded into their parent.
suppressed(nodes, i) ==
    \E j \in DOMAIN nodes :
       \/ IsNode(nodes, j, "List") /\ i \in Range(nodes[j][2]) /\ IsNode(nodes, i, "Lit")
       \/ IsNode(nodes, j, "Call") /\ nodes[j][3] = "matches" /\ nodes[j][4][1] = i

Emit(k, op) == [k EXCEPT !.code = Append(@, op)]

intern_const(k, v) ==
    IF v \notin Range(k.consts) /\ Len(k.consts) >= MaxConsts THEN [k EXCEPT !.err = "TooManyConsts"]
    ELSE [k EXCEPT !.consts = Interned(@, v)]

\* Interns v and loads it.
LoadConst(k, v) ==
    LET q == intern_const(k, v)
    IN IF q.err # "" THEN q ELSE Emit(q, <<"LoadConst", PositionOf(q.consts, v)>>)

emit_matches_call(k, pattern) ==
    IF pattern \notin Range(k.regexes) /\ Len(k.regexes) >= MaxRegex
    THEN [k EXCEPT !.err = "TooManyRegexes"]
    ELSE LET rs == Interned(k.regexes, pattern)
         IN Emit([k EXCEPT !.regexes = rs], <<"RegexMatch", PositionOf(rs, pattern)>>)

\* A list constant is <<"l", its elements>>; a non-literal element reads as Null.
emit_list(nodes, k, i) ==
    LET v == <<"l", [e \in DOMAIN nodes[i][2] |->
                       LET n == nodes[nodes[i][2][e]] IN IF n[1] = "Lit" THEN n[2] ELSE Null]>>
        q == intern_const(k, v)
    IN IF q.err # "" THEN q ELSE [q EXCEPT !.const[i] = PositionOf(q.consts, v)]

patch(k, key, target) ==
    IF key \notin DOMAIN k.hole \/ k.hole[key] = 0 THEN k
    ELSE [k EXCEPT !.code[k.hole[key]] = <<@[1], target>>]

emit_node(a, c, k, i) ==
    LET n == a.nodes[i] IN
    CASE n[1] = "Lit" -> IF suppressed(a.nodes, i) THEN k ELSE LoadConst(k, n[2])
      [] n[1] \in {"Ident", "Field", "Index"} ->
            IF suppressed(a.nodes, i) \/ c.slot[i] = 0 THEN k ELSE Emit(k, <<"LoadAttr", c.slot[i]>>)
      [] n[1] = "Not" -> Emit(k, <<"Not", 0>>)
      [] n[1] = "Bin" -> Emit(k, IF n[2] = "in" THEN <<"InSet", k.const[n[4]]>> ELSE <<n[2], 0>>)
      [] n[1] = "Call" ->
            CASE n[3] = "size" -> IF IsNode(a.nodes, n[2], "List")
                                  THEN LoadConst(k, <<"i", Len(a.nodes[n[2]][2])>>)
                                  ELSE Emit(k, <<"size", 0>>)
              [] n[3] = "matches" -> emit_matches_call(k, a.nodes[n[4][1]][2][2])
              [] OTHER -> Emit(k, <<n[3], 0>>)
      [] n[1] \in {"And", "Or"} -> patch(k, n[2] + 1, Len(k.code) + 1)
      [] n[1] = "Ternary" -> LET q == patch(k, n[3] + 1, Len(k.code) + 1)
                             IN patch(q, n[2] + 1, q.hole[n[3] + 1] + 1)
      [] n[1] = "List" -> emit_list(a.nodes, k, i)

open_hole(nodes, k, i) ==
    IF hole_before(nodes, i) = "" THEN k
    ELSE Emit([k EXCEPT !.hole[i] = Len(k.code) + 1], <<hole_before(nodes, i), 0>>)

Compiled(a, c) ==
    LET zeros == [i \in DOMAIN a.nodes |-> 0]
        k0 == [code |-> <<>>, consts |-> <<>>, regexes |-> <<>>, hole |-> zeros, const |-> zeros, err |-> ""]
        step(k, i) == IF k.err # "" THEN k ELSE emit_node(a, c, open_hole(a.nodes, k, i), i)
    IN Emit(FoldLeft(step, k0, [i \in DOMAIN a.nodes |-> i]), <<"Ret", 0>>)

-----------------------------------------------------------------------------
(* program.rs: verify.  An abstract run over stack depths, merging at jump   *)
(* targets; -1 is a position no path has reached.                            *)

Jumps == {"Jump", "JumpIfFalse", "JumpIfTrue", "BranchIfFalse"}

effect(op) ==
    CASE op[1] \in {"LoadAttr", "LoadConst"} -> <<0, 1>>
      [] op[1] \in {"Not", "size", "RegexMatch", "InSet"} -> <<1, 1>>
      [] op[1] \in {"BranchIfFalse", "JumpIfFalse", "JumpIfTrue"} -> <<1, 0>>
      [] op[1] \in {"Jump", "Ret"} -> <<0, 0>>
      [] OTHER -> <<2, 1>>

depth_after_jump(op, d) == IF op[1] = "BranchIfFalse" THEN d - 1 ELSE d

merge(v, at, incoming) ==
    CASE v.err # "" \/ at \notin DOMAIN v.depth -> v
      [] v.err = "" /\ at \in DOMAIN v.depth ->
            IF v.depth[at] < 0 THEN [v EXCEPT !.depth[at] = incoming]
            ELSE IF v.depth[at] = incoming THEN v ELSE [v EXCEPT !.err = "StackNotSingleton"]

check_operand(op, k, slots) ==
    CASE op[1] = "LoadConst"  -> op[2] \in DOMAIN k.consts
      [] op[1] = "LoadAttr"   -> op[2] \in DOMAIN slots
      [] op[1] = "RegexMatch" -> op[2] \in DOMAIN k.regexes
      [] op[1] = "InSet"      -> op[2] \in DOMAIN k.consts /\ k.consts[op[2]][1] = "l"
      [] OTHER                -> TRUE

verify_op(k, slots, v, i) ==
    LET op   == k.code[i]
        d    == v.depth[i]
        next == d - effect(op)[1] + effect(op)[2]
        bad(e) == [v EXCEPT !.err = e]
    IN CASE v.err # "" \/ d < 0 -> v
         [] v.err = "" /\ d >= 0 ->
              IF ~check_operand(op, k, slots) THEN bad("OperandOutOfRange")
              ELSE IF d < effect(op)[1] THEN bad("StackUnderflow")
              ELSE IF next > MaxStack THEN bad("StackOverflow")
              ELSE IF op[1] = "Ret" THEN (IF d # 1 THEN bad("StackNotSingleton") ELSE v)
              ELSE IF op[1] \notin Jumps THEN merge(v, i + 1, next)
              ELSE IF op[2] <= i THEN bad("BackwardJump")
              ELSE IF op[2] > Len(k.code) THEN bad("JumpOutOfRange")
              ELSE LET w == merge(v, op[2], depth_after_jump(op, d))
                   IN IF op[1] = "Jump" THEN w ELSE merge(w, i + 1, next)

verify(k, slots) ==
    LET v0 == [depth |-> [i \in DOMAIN k.code |-> IF i = 1 THEN 0 ELSE -1], err |-> ""]
        step(v, i) == verify_op(k, slots, v, i)
    IN IF Len(k.code) > MaxOps THEN [v0 EXCEPT !.err = "TooManyOps"]
       ELSE IF Last(k.code) # <<"Ret", 0>> THEN [v0 EXCEPT !.err = "MissingRet"]
       ELSE FoldLeft(step, v0, [i \in DOMAIN k.code |-> i])

NoProgram(e) == [err |-> e, code |-> <<>>, consts |-> <<>>, regexes |-> <<>>, slots |-> <<>>,
                 result |-> "Null", max_stack |-> 0]

Verified(a, c, k, v) ==
    [err |-> v.err, code |-> k.code, consts |-> k.consts, regexes |-> k.regexes,
     slots |-> c.slots, result |-> c.types[a.id], max_stack |-> Max(Range(v.depth))]

Assembled(a, c, k) ==
    IF k.err # "" THEN NoProgram(k.err) ELSE Verified(a, c, k, verify(k, c.slots))

Checked(a, c) == IF c.err # "" THEN NoProgram(c.err) ELSE Assembled(a, c, Compiled(a, c))

\* check, then compile: the program admitted, or why it is refused.
compile(a) == IF a.err # "" THEN NoProgram(a.err) ELSE Checked(a, check(a))

-----------------------------------------------------------------------------
(* vm.rs: eval.  A machine is [pc, stack, steps, high, res]; high is the     *)
(* deepest the stack has been, res the value or error it stopped with.       *)

Holds(s, t) == \E i \in 0 .. Len(s) - Len(t) : SubSeq(s, i + 1, i + Len(t)) = t

StrOp == {"startsWith", "endsWith", "contains", "equalsIgnoreCase", "startsWithIgnoreCase"}

\* The string methods; a pattern is a literal here, which the regex engine searches for.
StrTest(op, s, t) ==
    CASE op = "startsWith"           -> IsPrefix(t, s)
      [] op = "endsWith"             -> IsSuffix(t, s)
      [] op \in {"contains", "matches"} -> Holds(s, t)
      [] op = "equalsIgnoreCase"     -> Lower(s) = Lower(t)
      [] op = "startsWithIgnoreCase" -> IsPrefix(Lower(t), Lower(s))

IntTest(op, x, y) ==
    CASE op = "<" -> x < y [] op = "<=" -> x <= y [] op = ">" -> x > y [] op = ">=" -> x >= y

\* Env::slot: a scalar, or a map entry, absent and repeated ones being Null.
slot(env, ref) == env[ref]

Stop(m, v) == [m EXCEPT !.res = v]

\* Pops n values, pushes v and falls through.
Replace(m, n, v) ==
    LET st == Append(SubSeq(m.stack, 1, Len(m.stack) - n), v)
    IN IF Len(st) > MaxStack THEN Stop(m, Error("StackOverflow"))
       ELSE [m EXCEPT !.stack = st, !.pc = @ + 1, !.high = Max({@, Len(st)})]

Goto(m, n, t) == [m EXCEPT !.stack = SubSeq(@, 1, Len(@) - n), !.pc = t]

\* One instruction.
Exec(pr, env, m) ==
    LET op  == pr.code[m.pc]
        top == m.stack[Len(m.stack)]
        sub == m.stack[Len(m.stack) - 1]
        typeError == Stop(m, Error("TypeError"))
    IN CASE op[1] = "LoadAttr"  -> Replace(m, 0, slot(env, pr.slots[op[2]]))
         [] op[1] = "LoadConst" -> Replace(m, 0, pr.consts[op[2]])
         [] op[1] = "Ret"       -> Stop(m, IF Len(m.stack) = 1 THEN top ELSE Error("StackUnderflow"))
         [] op[1] = "Jump"      -> Goto(m, 0, op[2])
         [] op[1] \notin {"LoadAttr", "LoadConst", "Ret", "Jump"} /\ Len(m.stack) < effect(op)[1] ->
              Stop(m, Error("StackUnderflow"))
         [] op[1] = "=="        -> Replace(m, 2, Bool(sub = top))
         [] op[1] = "!="        -> Replace(m, 2, Bool(sub # top))
         [] op[1] \in RelOps \ {"==", "!="} ->
              IF top[1] = "i" /\ sub[1] = "i"
              THEN Replace(m, 2, Bool(IntTest(op[1], sub[2], top[2]))) ELSE typeError
         [] op[1] = "InSet"     -> Replace(m, 1, Bool(top \in Range(pr.consts[op[2]][2])))
         [] op[1] \in StrOp     ->
              IF {top[1], sub[1]} \subseteq {"s", "n"}
              THEN Replace(m, 2, Bool(/\ top # Null /\ sub # Null
                                      /\ StrTest(op[1], sub[2], top[2]))) ELSE typeError
         [] op[1] = "RegexMatch" ->
              IF top[1] \in {"s", "n"}
              THEN Replace(m, 1, Bool(top # Null /\ StrTest("matches", top[2], pr.regexes[op[2]])))
              ELSE typeError
         [] op[1] = "size" -> IF top[1] = "s" THEN Replace(m, 1, <<"i", Len(top[2])>>) ELSE typeError
         [] op[1] \in {"Not", "JumpIfFalse", "JumpIfTrue", "BranchIfFalse"} /\ top[1] # "b" -> typeError
         [] op[1] = "Not" -> Replace(m, 1, Bool(~top[2]))
         [] op[1] = "JumpIfFalse" -> IF top[2] THEN Goto(m, 1, m.pc + 1) ELSE Goto(m, 0, op[2])
         [] op[1] = "JumpIfTrue"  -> IF top[2] THEN Goto(m, 0, op[2]) ELSE Goto(m, 1, m.pc + 1)
         [] op[1] = "BranchIfFalse" -> Goto(m, 1, IF top[2] THEN m.pc + 1 ELSE op[2])

RECURSIVE Run(_, _, _)
Run(pr, env, m) ==
    CASE m.res # <<>>             -> m
      [] m.res = <<>> /\ m.steps > Len(pr.code)         -> Stop(m, Error("StepBudget"))
      [] m.res = <<>> /\ m.pc \notin DOMAIN pr.code -> Stop(m, Error("BadPc"))
      [] OTHER -> Run(pr, env, Exec(pr, env, [m EXCEPT !.steps = @ + 1]))

eval(pr, env) == Run(pr, env, [pc |-> 1, stack |-> <<>>, steps |-> 0, high |-> 0, res |-> <<>>])

ValuesOf(ty) == CASE ty = "Bool" -> {Bool(b) : b \in BOOLEAN}
                  [] ty = "Int"  -> {<<"i", n>> : n \in Ints}
                  [] ty = "Str"  -> {<<"s", t>> : t \in Strs}

\* FieldOutcome as slot maps it: a value, or Null for an absent or a repeated entry.
Outcomes(ref) == IF ref[1] = "Field" THEN ValuesOf("Str") \cup {Null} ELSE ValuesOf(ATTRS[ref[2]].ty)

\* Every environment: what each attribute the program reads may hold.
Envs(pr) ==
    {env \in [Range(pr.slots) -> UNION {Outcomes(r) : r \in Range(pr.slots)}] :
        \A r \in Range(pr.slots) : env[r] \in Outcomes(r)}

-----------------------------------------------------------------------------
(* A source typed one chunk at a time, as far as it can still be completed.  *)

Init == src = <<>> /\ ast = parse(<<>>) /\ prog = NoProgram("UnexpectedEof")

Viable == ast.err \in {"", "UnexpectedEof"}

Submit(chunk) ==
    /\ Viable
    /\ Len(src) + Len(chunk) <= MaxTokens
    /\ src' = src \o chunk
    /\ ast' = parse(src')
    /\ prog' = compile(ast')

Next == \E chunk \in Chunks : Submit(chunk)

Spec == Init /\ [][Next]_vars

-----------------------------------------------------------------------------
(* The reference: the grammar of docs/ITPL.md, and what a source means, both *)
(* by splitting the text itself at its loosest operator.                     *)

Cut(ts, i, j) == SubSeq(ts, i, j)
IsP(t, cs) == t[1] = "p" /\ t[2] \in cs

\* Nesting before position i, and the positions of cs outside all brackets.
Nesting(ts, i) == Cardinality({j \in 1 .. i - 1 : IsP(ts[j], {"(", "["})})
                    - Cardinality({j \in 1 .. i - 1 : IsP(ts[j], {")", "]"})})
Tops(ts, cs) == {i \in DOMAIN ts : IsP(ts[i], cs) /\ Nesting(ts, i) = 0}

\* The bracket that the last token closes.
Opener(ts) == Max({i \in DOMAIN ts : IsP(ts[i], {"(", "["}) /\ Nesting(ts, i) = 0} \cup {0})

RECURSIVE IsExpr(_), IsOr(_), IsAnd(_), IsUnary(_), IsPostfix(_), IsExprs(_)

IsExprs(ts) ==
    IsExpr(ts) \/ \E i \in DOMAIN ts : IsP(ts[i], {","}) /\ IsExpr(Cut(ts, 1, i - 1))
                                          /\ IsExprs(Cut(ts, i + 1, Len(ts)))

IsPostfix(ts) ==
    LET n == Len(ts)
        o == Opener(ts)
        inner == Cut(ts, o + 1, n - 1)
    IN /\ n > 0
       /\ CASE IsP(ts[n], {")"}) /\ o = 1 -> ts[1] = <<"p", "(">> /\ IsExpr(inner)
            [] IsP(ts[n], {")"}) /\ o > 3 ->
                  /\ ts[o - 1][1] = "id" /\ IsP(ts[o - 2], {"."}) /\ ts[o] = <<"p", "(">>
                  /\ IsPostfix(Cut(ts, 1, o - 3))
                  /\ inner = <<>> \/ IsExprs(inner)
            [] IsP(ts[n], {"]"}) /\ o = 1 -> ts[1] = <<"p", "[">> /\ (inner = <<>> \/ IsExprs(inner))
            [] IsP(ts[n], {"]"}) /\ o > 1 ->
                  ts[o] = <<"p", "[">> /\ IsPostfix(Cut(ts, 1, o - 1)) /\ IsExpr(inner)
            [] ts[n][1] \in Literals -> n = 1
            [] ts[n][1] = "id" -> n = 1 \/ (n > 2 /\ IsP(ts[n - 1], {"."}) /\ IsPostfix(Cut(ts, 1, n - 2)))
            [] OTHER -> FALSE

IsUnary(ts) == ts # <<>> /\ IF IsP(ts[1], {"!"}) THEN IsUnary(Tail(ts)) ELSE IsPostfix(ts)

IsRel(ts) == LET rs == Tops(ts, RelOps) IN
    IF rs = {} THEN IsUnary(ts)
    ELSE Cardinality(rs) = 1 /\ LET i == Max(rs)
                                IN IsUnary(Cut(ts, 1, i - 1)) /\ IsUnary(Cut(ts, i + 1, Len(ts)))

IsAnd(ts) == LET i == Max(Tops(ts, {"&&"}) \cup {0})
             IN (i > 0 => IsAnd(Cut(ts, 1, i - 1))) /\ IsRel(Cut(ts, i + 1, Len(ts)))

IsOr(ts) == LET i == Max(Tops(ts, {"||"}) \cup {0})
            IN (i > 0 => IsOr(Cut(ts, 1, i - 1))) /\ IsAnd(Cut(ts, i + 1, Len(ts)))

\* The ':' that answers the first '?' outside brackets.
ColonOf(ts, q) ==
    Min({c \in Tops(ts, {":"}) : /\ c > q
                                 /\ Cardinality({i \in Tops(ts, {"?"}) : i < c})
                                      = Cardinality({i \in Tops(ts, {":"}) : i <= c})} \cup {Len(ts) + 1})

IsExpr(ts) ==
    IF Tops(ts, {"?"}) = {} THEN IsOr(ts)
    ELSE LET q == Min(Tops(ts, {"?"}))
             c == ColonOf(ts, q)
         IN /\ IsOr(Cut(ts, 1, q - 1)) /\ c <= Len(ts)
            /\ IsExpr(Cut(ts, q + 1, c - 1)) /\ IsExpr(Cut(ts, c + 1, Len(ts)))

RECURSIVE Means(_, _)

\* The value of a source without operators; a list is <<"l", its values>>.
Denotes(ts, env) ==
    LET n == Len(ts)
        o == Opener(ts)
        inner == Cut(ts, o + 1, n - 1)
        ends  == SetToSortSeq(Tops(inner, {","}) \cup {0, Len(inner) + 1}, <)
        method == ts[o - 1][2]
        recv  == Means(Cut(ts, 1, o - 3), env)
        arg   == Means(inner, env)
    IN CASE n = 1 -> ts[1]
         [] n > 1 /\ ts[n][1] = "id" -> env[<<"Scalar", [i \in 1 .. (n + 1) \div 2 |-> ts[2 * i - 1][2]]>>]
         [] ts[n] = <<"p", "]">> ->
              <<"l", [i \in 1 .. IF inner = <<>> THEN 0 ELSE Len(ends) - 1 |->
                        Means(Cut(inner, ends[i] + 1, ends[i + 1] - 1), env)]>>
         [] ts[n] = <<"p", ")">> /\ o = 1 -> arg
         [] ts[n] = <<"p", ")">> /\ o > 1 ->
              IF recv[1] = "e" THEN recv
              ELSE IF method = "size"
                   THEN IF recv = Null THEN Error("TypeError") ELSE <<"i", Len(recv[2])>>
              ELSE IF arg[1] = "e" THEN arg
              ELSE Bool(recv # Null /\ arg # Null /\ StrTest(method, recv[2], arg[2]))

\* An operand that must be a Boolean or an integer: Null is an error, not a value.
Strict(v) == IF v = Null THEN Error("TypeError") ELSE v

Compare(op, x, y) ==
    CASE x[1] = "e" -> x
      [] x[1] # "e" /\ y[1] = "e" -> y
      [] op = "==" -> Bool(x = y)
      [] op = "!=" -> Bool(x # y)
      [] OTHER -> IF Null \in {x, y} THEN Error("TypeError") ELSE Bool(IntTest(op, x[2], y[2]))

Means(ts, env) ==
    LET from(i) == Cut(ts, i + 1, Len(ts))
        upto(i) == Cut(ts, 1, i - 1)
        quest == Tops(ts, {"?"})
        ors   == Tops(ts, {"||"})
        ands  == Tops(ts, {"&&"})
        rels  == Tops(ts, RelOps)
        branch(v, onTrue, onFalse) == IF v[1] = "e" THEN v ELSE IF v[2] THEN onTrue ELSE onFalse
    IN CASE quest # {} ->
              LET q == Min(quest)
                  c == ColonOf(ts, q)
              IN branch(Strict(Means(upto(q), env)),
                        Means(Cut(ts, q + 1, c - 1), env), Means(from(c), env))
         [] quest = {} /\ ors # {} ->
              branch(Strict(Means(upto(Max(ors)), env)), Bool(TRUE), Means(from(Max(ors)), env))
         [] quest \cup ors = {} /\ ands # {} ->
              branch(Strict(Means(upto(Max(ands)), env)), Means(from(Max(ands)), env), Bool(FALSE))
         [] quest \cup ors \cup ands = {} /\ rels # {} ->
              LET i == Max(rels)
                  x == Means(upto(i), env)
                  y == Means(from(i), env)
              IN IF ts[i][2] = "in" THEN IF x[1] = "e" THEN x ELSE Bool(x \in Range(y[2]))
                 ELSE Compare(ts[i][2], x, y)
         [] quest \cup ors \cup ands \cup rels = {} /\ IsP(ts[1], {"!"}) ->
              branch(Strict(Means(Tail(ts), env)), Bool(FALSE), Bool(TRUE))
         [] OTHER -> Denotes(ts, env)

-----------------------------------------------------------------------------
(* Properties.                                                               *)

Limits == {"TooDeep", "ListTooLong", "TooManyAttrSlots", "TooManyConsts", "TooManyRegexes",
           "TooManyOps", "StackOverflow"}

\* parse accepts exactly the grammar of docs/ITPL.md, its limits and its closed
\* set of methods aside.
GrammarExact ==
    ast.err \in {"TooDeep", "ListTooLong", "NotImplemented", "BadArity"} \/ (ast.err = "" <=> IsExpr(src))

\* Every list literal is tested by 'in' or counted by size(), where compile.rs
\* folds it into a constant.
ListsConsumed ==
    \A i \in DOMAIN ast.nodes : IsNode(ast.nodes, i, "List") =>
       \E j \in DOMAIN ast.nodes :
          \/ IsNode(ast.nodes, j, "Bin") /\ ast.nodes[j][4] = i
          \/ IsNode(ast.nodes, j, "Call") /\ ast.nodes[j][2] = i

ListsLiteral ==
    \A i, e \in DOMAIN ast.nodes :
       IsNode(ast.nodes, i, "List") /\ e \in Range(ast.nodes[i][2]) => IsNode(ast.nodes, e, "Lit")

NoLookup == \A i \in DOMAIN ast.nodes : ~IsNode(ast.nodes, i, "Index")

CompilesWhatItChecks ==
    ast.err = "" /\ check(ast).err = "" /\ ListsConsumed /\ ListsLiteral => prog.err \in Limits \cup {""}

\* A source the checker accepts, without map lookups, is refused later only for a
\* limit: the sweep never emits code for it that verify rejects.
NothingLost == NoLookup => CompilesWhatItChecks

\* compile.rs: a policy that is admitted computes what its source says, in
\* every environment, lists included.
MeaningKept ==
    prog.err = "" => \A env \in Envs(prog) : eval(prog, env).res = Means(src, env)

\* The program an admitted source compiles to computes what the source means, in
\* every environment: precedence, short circuits and patched jumps agree with the
\* text, wherever a list stands only where the language uses one.
Faithful == ListsConsumed => MeaningKept

\* An admitted program cannot leave its code, its stack or its operands, never
\* exceeds the depth verify recorded for it, and answers with its type or Null.
Contained ==
    prog.err = "" =>
       \A env \in Envs(prog) :
          LET m == eval(prog, env)
          IN /\ m.high <= prog.max_stack
             /\ m.res[1] = "e" => m.res[2] = "TypeError"
             /\ ListsConsumed /\ m.res[1] \notin {"e", "n"} => TyOfLit(m.res) = prog.result

=============================================================================
