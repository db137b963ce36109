------------------------------- MODULE Syntax --------------------------------
(***************************************************************************)
(* Trees of T81Lang programs (include/t81/frontend/ast.hpp).  Every node   *)
(* has the same shape: what it is, the name it carries, a second name      *)
(* (mark), its children, its type (declared, for a declaration; found by   *)
(* the analyser, for an expression), a literal, whether the analyser       *)
(* accepts it, and whether it declares a name that is already visible.     *)
(***************************************************************************)
EXTENDS Types, Values

CONSTANTS
  Enums,    \* the declared enums: [name, variants], in the order of declaration
  Records   \* the declared records: for each name, its fields, [field name -> type]

Node(op, name, args) ==
  [op |-> op, name |-> name, mark |-> "", args |-> args, type |-> Unknown, lit |-> IntV(0),
   ok |-> TRUE, hides |-> FALSE]
Is(t, op) == t.op = op

(* Expressions *)
Lit(value) == [Node("Literal", "", <<>>) EXCEPT !.lit = value]
Num(n) == Lit(IntV(n))
Name(x) == Node("Variable", x, <<>>)
Binary(op, left, right) == Node("Binary", op, <<left, right>>)
Unary(op, right) == Node("Unary", op, <<right>>)
Assign(x, value) == Node("Assign", x, <<value>>)
Call(f, args) == Node("Call", f, args)
(* Braces may end in a value; an if with braces and no else has none. *)
BlockOf(stmts, final) == [Node("BlockExpr", "", Append(stmts, final)) EXCEPT !.mark = "final"]
IfElse(c, then, else) == Node("IfExpr", "", <<c, BlockOf(<<>>, then), BlockOf(<<>>, else)>>)
Braces(stmts) == Node("BlockExpr", "", stmts)
IfBraces(c, stmts) == Node("IfExpr", "", <<c, Braces(stmts)>>)
Vector(elements) == Node("VectorLiteral", "", elements)
FieldOf(object, f) == Node("FieldAccess", f, <<object>>)
RecordOf(name, fields) == Node("RecordLiteral", name, fields)
Field(f, value) == Node("Field", f, <<value>>)
SetTo(target, value) == Node("Assign", "", <<target, value>>)    \* an element or a field
Index(object, index) == Node("Index", "", <<object, index>>)
Match(value, arms) == Node("Match", "", <<value>> \o arms)
Arm(variant, binding, value) == [Node("Arm", variant, <<value>>) EXCEPT !.mark = binding]
GuardedArm(variant, binding, guard, value) ==
  [Node("Arm", variant, <<guard, value>>) EXCEPT !.mark = binding]

(* Statements *)
Let(x, type, init) == [Node("Let", x, <<init>>) EXCEPT !.type = type]
Var(x, type, init) == [Node("Var", x, init) EXCEPT !.type = type]
Do(e) == Node("Expression", "", <<e>>)
Block(stmts) == Node("Block", "", stmts)
If(c, branches) == Node("If", "", <<c>> \o branches)
While(c, body) == Node("While", "", <<c, body>>)
For(x, low, high, body) == Node("For", x, <<low, high, body>>)
(* A loop is bounded by a number, infinite, guarded (its first child), or  *)
(* neither.                                                                *)
Loop(bound, stmts) == [Node("Loop", "", stmts) EXCEPT !.mark = bound]
AtMost(n, stmts) == [Loop("bounded", stmts) EXCEPT !.lit = IntV(n)]
(* The statements of the cognitive tiers; train has a model first.         *)
TierOps == {"Reflect", "Distributed", "Infinite", "Train"}
Return(value) == Node("Return", "", value)
Break == Node("Break", "", <<>>)
Continue == Node("Continue", "", <<>>)
Param(x, type) == [Node("Param", x, <<>>) EXCEPT !.type = type]
Generic(x) == Node("Generic", x, <<>>)
Attribute(name, value) == [Node("Attribute", name, <<>>) EXCEPT !.lit = value]
(* The head of a function: attributes, generic names, parameters. *)
HeadOps == {"Attribute", "Generic", "Param"}
Function(f, head, type, stmts) == [Node("Function", f, head \o stmts) EXCEPT !.type = type]

Of(op, f) == SelectSeq(f.args, LAMBDA t : Is(t, op))
Params(f) == Of("Param", f)
BodyOf(f) == SelectSeq(f.args, LAMBDA t : t.op \notin HeadOps)
(* The declared tier of a function, or zero.                               *)
TierOf(f) == LET tiers == Of("Attribute", f) IN IF tiers = <<>> THEN 0 ELSE tiers[1].lit.n
Arms(m) == Tail(m.args)
Result(arm) == Last(arm.args)
Guarded(arm) == Len(arm.args) = 2

(* All nodes of a tree. *)
RECURSIVE Nodes(_)
Nodes(t) == {t} \cup UNION {Nodes(t.args[i]) : i \in DOMAIN t.args}
NodesOf(program) == UNION {Nodes(program[i]) : i \in DOMAIN program}

(* The variants of an option, a result or a declared enum, each with the   *)
(* type of its payload, if any, and the number the machine knows it by:    *)
(* the enum's number in the high half, the variant's in the low one.       *)
VariantOf(name, payload, id) == [name |-> name, payload |-> payload, id |-> id]
encode_variant_id(enum, variant) == 65536 * enum + variant
EnumVariants(e) ==
  LET vs == Enums[e].variants
  IN [v \in DOMAIN vs |-> VariantOf(vs[v][1], vs[v][2], encode_variant_id(e - 1, v - 1))]
Variants(type) ==
  CASE type.kind = "Option" -> <<VariantOf("Some", <<ParamOf(type, 1)>>, 0), VariantOf("None", <<>>, 1)>>
    [] type.kind = "Result" -> <<VariantOf("Ok", <<ParamOf(type, 1)>>, 0),
                                 VariantOf("Err", <<ParamOf(type, 2)>>, 1)>>
    [] type.kind = "Custom" /\ (\E e \in DOMAIN Enums : Enums[e].name = type.name) ->
         EnumVariants(CHOOSE e \in DOMAIN Enums : Enums[e].name = type.name)
    [] OTHER -> <<>>
NamedVariants(vs, name) == SelectSeq(vs, LAMBDA v : v.name = name)
=============================================================================
