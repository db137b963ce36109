------------------------------ MODULE Analyzer -------------------------------
(***************************************************************************)
(* The semantic analyser of T81Lang (lang/frontend/semantic_analyzer.cpp): *)
(* it walks a program once, resolves names through nested scopes, gives    *)
(* every expression a type, and rejects what does not fit.  Here it maps a *)
(* tree to the same tree with types; a node is ok when no error was        *)
(* reported at it or below it.                                             *)
(***************************************************************************)
EXTENDS Syntax, Builtins

(* No context expects a type (a null pointer in the code). *)
Nothing == Basic("Null")

(* What is visible, which names the innermost scope declares, whether a    *)
(* loop is open, and the return type, if any, and tier of the function     *)
(* that is open.  A function may have a tier and names for types.          *)
Entry(kind, type, mutable, params) ==
  [kind |-> kind, type |-> type, mutable |-> mutable, params |-> params, tier |-> 0, generics |-> <<>>]
Globals(symbols) ==
  [visible |-> symbols, here |-> DOMAIN symbols, inLoop |-> FALSE, returns |-> <<>>, tier |-> 0]
enter_scope(env) == [env EXCEPT !.here = {}]
define_symbol(env, x, symbol) ==
  [env EXCEPT !.visible = (x :> symbol) @@ @, !.here = @ \cup {x}]
Variable(type, mutable) == Entry("Variable", type, mutable, <<>>)
Visible(env, x) == x \in DOMAIN env.visible

(* A node with its type and children, and the check made at it. *)
Judged(t, type, args, check) ==
  [t EXCEPT !.type = type, !.args = args,
            !.ok = check /\ type # Error /\ \A i \in DOMAIN args : args[i].ok]
Rejected(t, args) == Judged(t, Error, args, FALSE)
HoldsBool(t) == IsAssignable(Bool, t.type)

(**************************** expressions **********************************)
LiteralType == [Int |-> I32, Bool |-> Bool, Float |-> Float, Symbol |-> Text]

VariableType(t, env) ==
  IF Visible(env, t.name) THEN Judged(t, env.visible[t.name].type, <<>>, TRUE) ELSE Rejected(t, <<>>)

AssignTyped(t, value, env) ==
  IF ~Visible(env, t.name) THEN Rejected(t, <<value>>)
  ELSE LET s == env.visible[t.name]
           target == IF s.mutable THEN s.type ELSE Unknown
       IN Judged(t, target, <<value>>, s.kind = "Variable" /\ s.mutable /\ IsAssignable(target, value.type))

(* An option's payload type comes from the context, when it has one. *)
SomeTyped(t, args, expected) ==
  LET payload == IF expected.kind = "Option" THEN ParamOf(expected, 1) ELSE Unknown
  IN Judged(t, OptionOf(IF payload = Unknown THEN args[1].type ELSE payload), args,
           IsAssignable(payload, args[1].type))
(* None, Ok and Err need a context. *)
ContextTyped(t, args, expected) ==
  LET side == IF t.name = "Ok" THEN 1 ELSE 2
      params == [i \in 1..2 |-> IF i = side /\ ParamOf(expected, i) = Unknown
                                THEN args[1].type ELSE ParamOf(expected, i)]
  IN CASE t.name = "None" /\ expected.kind = "Option" ->
            Judged(t, OptionOf(ParamOf(expected, 1)), args, TRUE)
       [] t.name # "None" /\ expected.kind = "Result" ->
            Judged(t, Type("Result", params), args, IsAssignable(ParamOf(expected, side), args[1].type))
       [] OTHER -> Rejected(t, args)
(* A name of the library comes before one of the program. *)
LibraryTypes(t, args) ==
  BuiltinTypes(CanonicalName(AnalyzerNames, t.name), [i \in DOMAIN args |-> args[i].type])
(* The names of a generic function stand for the types they are given or,  *)
(* one after the other, for those of the arguments.                        *)
RECURSIVE Bind_generic(_, _, _, _), Instantiate(_, _)
Bind_generic(generics, pattern, actual, s) ==
  LET Also(check) == [s EXCEPT !.ok = @ /\ check]
      same == Len(pattern.params) = Len(actual.params)
  IN CASE pattern.kind = "Custom" /\ pattern.name \in generics ->
            IF pattern.name \in DOMAIN s.to THEN Also(s.to[pattern.name] = actual)
            ELSE [s EXCEPT !.to = (pattern.name :> actual) @@ @]
       [] pattern.kind # actual.kind -> Also(IsAssignable(pattern, actual))
       [] pattern.kind = "Custom" -> Also(pattern.name = actual.name)
       [] ~same -> Also(IsAssignable(pattern, actual))
       [] OTHER -> FoldLeft(LAMBDA r, i : Bind_generic(generics, pattern.params[i], actual.params[i], r), s,
                            [i \in DOMAIN pattern.params |-> i])
Instantiate(type, to) ==
  CASE type.kind = "Custom" /\ type.name \in DOMAIN to -> to[type.name]
    [] type.kind = "Custom" -> type
    [] OTHER -> [type EXCEPT !.params = [i \in DOMAIN @ |-> Instantiate(@[i], to)]]
FunctionCall(t, args, f, explicit) ==
  LET generics == Range(f.generics)
      given == [g \in {f.generics[i] : i \in DOMAIN explicit} |-> explicit[CHOOSE i \in DOMAIN explicit : f.generics[i] = g]]
      bound == FoldLeft(LAMBDA s, i : Bind_generic(generics, f.params[i], args[i].type, s),
                        [ok |-> TRUE, to |-> given], [i \in DOMAIN args |-> i])
  IN CASE Len(f.params) # Len(args) -> Judged(t, f.type, args, FALSE)
       [] generics = {} -> Judged(t, f.type, args, \A i \in DOMAIN args : IsAssignable(f.params[i], args[i].type))
       [] generics # DOMAIN bound.to -> Rejected(t, args)
       [] OTHER -> Judged(t, Instantiate(f.type, bound.to), args, bound.ok)
(* f[T](x): as many types as there are names, at most.  From here on it is *)
(* a call of f.                                                            *)
ExplicitCall(t, args, env) ==
  LET callee == t.args[1].type
      called == [t EXCEPT !.name = callee.name, !.mark = "explicit"]
      f == env.visible[callee.name]
  IN IF ~Visible(env, callee.name) \/ f.kind # "Function" \/ Len(callee.params) > Len(f.generics) THEN Rejected(t, args)
     ELSE FunctionCall(called, args, f, callee.params)

(* A tier that a function declares limits what it may call.                *)
minimum_tier_for_call_surface(name) ==
  IF name \in {"Tensor.matmul", "tensor_dot", "weights.load", "Tensor.load", "sys_reflect", "agent_self_reflect",
                "io_stream", "io_net", "async_thread", "async_promise"} THEN 2 ELSE 1
is_effect_surface_call(name) ==
  name \in {"print", "sys_exit", "sys_time", "sys_entropy", "sys_proof", "sys_reflect", "io_stream", "io_net",
            "async_yield", "async_sleep", "async_thread", "async_promise", "agent_self_reflect", "weights.load", "Tensor.load"}
MayCall(name, env) ==
  LET canonical == CanonicalName(AnalyzerNames, name)
      callee == IF Visible(env, name) THEN env.visible[name].tier ELSE 0
  IN env.tier # 0 => /\ minimum_tier_for_call_surface(canonical) <= env.tier
                     /\ env.tier <= 1 => ~is_effect_surface_call(canonical)
                     /\ callee <= env.tier

(* A variant is written behind its enum's name, or behind any value of it. *)
VariantTyped(t, v, type, args) ==
  Judged([t EXCEPT !.mark = "variant", !.lit = IntV(v.id)], type, args,
         /\ Len(args) = Len(v.payload)
         /\ \A i \in DOMAIN args : IsAssignable(v.payload[i], args[i].type))
VariantsCalled(t, env) ==
  UNION {{[type |-> env.visible[x].type, variant |-> v] :
            v \in {w \in Range(Variants(env.visible[x].type)) : w.payload # <<>> /\ t.name = x \o "." \o w.name}} :
           x \in {y \in DOMAIN env.visible : env.visible[y].type.kind = "Custom"}}
CallTyped(t, args, env, library) ==
  LET made == VariantsCalled(t, env)
      typed == CASE library # {} -> Judged([t EXCEPT !.mark = "library"], CHOOSE type \in library : TRUE, args, TRUE)
                 [] Visible(env, t.name) /\ env.visible[t.name].kind = "Function" ->
                      FunctionCall(t, args, env.visible[t.name], <<>>)
                 [] made # {} -> LET m == CHOOSE m \in made : TRUE IN VariantTyped(t, m.variant, m.type, args)
                 [] OTHER -> Rejected(t, args)
  IN [typed EXCEPT !.ok = @ /\ MayCall(t.name, env)]
(* The variant of an enum, or the field of a record. *)
FieldTyped(t, args) ==
  LET type == args[1].type
      vs == IF type.kind = "Custom" THEN NamedVariants(Variants(type), t.name) ELSE <<>>
      record == type.kind = "Custom" /\ type.name \in DOMAIN Records
  IN CASE record /\ t.name \in DOMAIN Records[type.name] -> Judged(t, Records[type.name][t.name], args, TRUE)
       [] ~record /\ vs # <<>> -> [VariantTyped(t, vs[1], type, <<>>) EXCEPT !.args = args]
       [] OTHER -> Rejected(t, args)

IfTyped(t, args) ==
  LET then == args[2].type
      else == IF Len(args) = 3 THEN args[3].type ELSE Void
      type == CASE Len(args) = 2 -> IF then \in {Void, Unknown, Error} THEN Void ELSE Error
                [] Error \in {then, else} -> Error
                [] IsAssignable(then, else) -> then
                [] IsAssignable(else, then) -> else
                [] IsNumeric(then) /\ IsNumeric(else) ->
                     IF NumericRank(then) >= NumericRank(else) THEN then ELSE else
                [] OTHER -> Error
  IN Judged(t, type, args, HoldsBool(args[1]))

(* Elements share a type or are numbers. *)
VectorTyped(t, args, expected) ==
  LET Merge(type, e) == CASE type = Unknown \/ type = e.type -> e.type
                          [] IsNumeric(type) /\ IsNumeric(e.type) -> DeduceNumericType(type, e.type, "[")
                          [] OTHER -> Error
      element == FoldLeft(Merge, Unknown, args)
      empty == args = <<>>
  IN CASE empty /\ expected.kind = "Vector" -> Judged(t, expected, args, TRUE)
       [] empty \/ element = Error -> Rejected(t, args)
       [] OTHER -> Judged(t, MergeExpectedParams(VectorOf(element), expected), args, TRUE)
IndexTyped(t, args) ==
  IF args[1].type.kind = "Vector" /\ IsInteger(args[2].type)
  THEN Judged(t, ParamOf(args[1].type, 1), args, TRUE) ELSE Rejected(t, args)

(* Mutant: a variant may go without an arm. *)
MatchWithGaps(t, args, result) ==
  LET vs == Variants(args[1].type)
      arms == Tail(args)
  IN Judged(t, result, args, /\ vs # <<>>
                             /\ \A i \in DOMAIN arms : IsAssignable(result, Result(arms[i]).type))
(* Every variant has an arm, exactly one of them without a guard, that     *)
(* binds a payload where there is one.                                     *)
MatchTyped(t, args, result) ==
  LET vs == Variants(args[1].type)
      arms == Tail(args)
      Plain(v) == {i \in DOMAIN arms : arms[i].name = v /\ ~Guarded(arms[i])}
  IN Judged(t, result, args,
           /\ vs # <<>>
           /\ \A i \in DOMAIN vs : Cardinality(Plain(vs[i].name)) = 1
           /\ \A i \in DOMAIN arms : IsAssignable(result, Result(arms[i]).type))

(* The context an operand of a constructor or a choice is judged in. *)
PayloadType(t, expected) ==
  IF Is(t, "VectorLiteral") /\ expected.kind = "Vector" /\ expected.params # <<>> THEN expected.params[1] ELSE Nothing

(* What may be assigned to is part of a variable that may be.              *)
RECURSIVE is_mutable_lvalue(_, _)
is_mutable_lvalue(t, env) ==
  \/ Is(t, "Variable") /\ Visible(env, t.name) /\ env.visible[t.name].mutable
  \/ t.op \in {"Index", "FieldAccess"} /\ is_mutable_lvalue(t.args[1], env)

RECURSIVE Expression(_, _, _), MatchArms(_, _, _, _), Statements(_, _), Statement(_, _)
(* An element or a field is judged before the value it is given. *)
PartTyped(t, target, env) ==
  LET value == Expression(t.args[2], IF target.type = Error THEN Nothing ELSE target.type, env)
  IN Judged(t, target.type, <<target, value>>, is_mutable_lvalue(target, env) /\ IsAssignable(target.type, value.type))
(* Every field of the record, once. *)
RecordTyped(t, env) ==
  LET types == IF t.name \in DOMAIN Records THEN Records[t.name] ELSE [f \in {} |-> Unknown]
      FieldType(f) == IF f.name \in DOMAIN types THEN types[f.name] ELSE Error
      Typed1(f) == LET value == Expression(f.args[1], FieldType(f), env)
                   IN Judged(f, FieldType(f), <<value>>, IsAssignable(FieldType(f), value.type))
  IN Judged(t, Custom(t.name), [i \in DOMAIN t.args |-> Typed1(t.args[i])],
            /\ t.name \in DOMAIN Records
            /\ Len(t.args) = Cardinality(DOMAIN types)
            /\ DOMAIN types = {t.args[i].name : i \in DOMAIN t.args})
Expression(t, expected, env) ==
  LET Each(context) == [i \in DOMAIN t.args |-> Expression(t.args[i], context, env)]
      args == Each(PayloadType(t, expected))
  IN CASE Is(t, "Literal") -> Judged(t, LiteralType[t.lit.tag], <<>>, TRUE)
       [] Is(t, "Variable") -> VariableType(t, env)
       [] Is(t, "Binary") -> Judged(t, BinaryType(t.name, args[1].type, args[2].type), args, TRUE)
       [] Is(t, "Unary") -> Judged(t, UnaryType(t.name, args[1].type), args, TRUE)
       [] Is(t, "Assign") /\ t.name = "" -> PartTyped(t, Expression(t.args[1], Nothing, env), env)
       [] Is(t, "Assign") ->
            AssignTyped(t, Expression(t.args[1], IF Visible(env, t.name)
                                                 THEN env.visible[t.name].type ELSE Nothing, env), env)
       [] Is(t, "Call") /\ t.name = "Some" -> SomeTyped(t, args, expected)
       [] Is(t, "Call") /\ t.name \in {"None", "Ok", "Err"} -> ContextTyped(t, args, expected)
       [] Is(t, "Call") /\ t.name = "" ->
            IF Is(t.args[1], "TypeExpr") THEN ExplicitCall(t, Tail(args), env) ELSE Rejected(t, Tail(args))
       [] Is(t, "Call") -> CallTyped(t, args, env, LibraryTypes(t, args))
       [] Is(t, "TypeExpr") -> t
       [] Is(t, "FieldAccess") -> FieldTyped(t, args)
       [] Is(t, "RecordLiteral") -> RecordTyped(t, env)
       [] Is(t, "IfExpr") ->
            LET then == Expression(t.args[2], expected, env)
                context == IF expected = Nothing THEN then.type ELSE expected
                else == [i \in 1..(Len(t.args) - 2) |-> Expression(t.args[i + 2], context, env)]
            IN IfTyped(t, <<Expression(t.args[1], Nothing, env), then>> \o else)
       [] Is(t, "BlockExpr") /\ t.mark = "final" ->
            LET inner == Statements(Front(t.args), enter_scope(env))
                final == Expression(Last(t.args), expected, inner.env)
            IN Judged(t, final.type, Append(inner.stmts, final), TRUE)
       [] Is(t, "BlockExpr") -> Judged(t, Void, Statements(t.args, enter_scope(env)).stmts, TRUE)
       [] Is(t, "VectorLiteral") -> VectorTyped(t, args, expected)
       [] Is(t, "Index") -> IndexTyped(t, args)
       [] Is(t, "Match") ->
            LET value == Expression(t.args[1], Nothing, env)
                m == MatchArms(Arms(t), Variants(value.type),
                               IF expected = Nothing THEN Unknown ELSE expected, env)
            IN MatchTyped(t, <<value>> \o m.arms, m.result)

(* The first arm with a type decides the type of the match.  An arm keeps  *)
(* the variant's number and the payload's type for the generator.          *)
MatchArms(arms, variants, result, env) ==
  IF arms = <<>> THEN [arms |-> <<>>, result |-> result]
  ELSE
    LET arm == Head(arms)
        found == NamedVariants(variants, arm.name)
        payload == IF found = <<>> THEN <<>> ELSE found[1].payload
        binds == arm.mark \notin {"", "_"}
        scope == IF binds /\ payload # <<>>
                 THEN define_symbol(enter_scope(env), arm.mark, Variable(payload[1], FALSE))
                 ELSE enter_scope(env)
        guard == [i \in 1..(Len(arm.args) - 1) |-> Expression(arm.args[i], Nothing, scope)]
        value == Expression(Result(arm), IF result = Unknown THEN Nothing ELSE result, scope)
        typed == Judged([arm EXCEPT !.lit = IntV(IF found = <<>> THEN 0 ELSE found[1].id),
                                   !.hides = binds /\ Visible(env, arm.mark)],
                       IF payload = <<>> THEN Unknown ELSE payload[1], Append(guard, value),
                       /\ found # <<>> /\ (payload # <<>>) = (arm.mark # "")
                       /\ \A i \in DOMAIN guard : HoldsBool(guard[i]))
        rest == MatchArms(Tail(arms), variants, IF result = Unknown THEN value.type ELSE result, env)
    IN [rest EXCEPT !.arms = <<typed>> \o @]

(***************************** statements **********************************)
(* A declaration takes its type from the annotation, the initialiser, or   *)
(* both; it may hide an outer name but not one of its own scope.           *)
Declared(t, env) ==
  LET init == [i \in DOMAIN t.args |-> Expression(t.args[i], t.type, env)]
      found == IF init = <<>> THEN Unknown ELSE init[1].type
      refined == IF Unknown \in {t.type, found} THEN t.type ELSE RefineGenericType(t.type, found)
      type == IF t.type = Unknown THEN found ELSE refined
  IN [Judged(t, type, init, /\ t.name \notin env.here
                            /\ type # Unknown
                            /\ Unknown \in {t.type, found} \/ IsAssignable(refined, found))
        EXCEPT !.hides = Visible(env, t.name)]
ReturnTyped(t, env) ==
  LET value == [i \in DOMAIN t.args |-> Expression(t.args[i], env.returns[1], env)]
  IN IF env.returns = <<>> THEN [t EXCEPT !.ok = FALSE]
     ELSE Judged(t, env.returns[1], value,
                IF value = <<>> THEN env.returns[1] = Void ELSE IsAssignable(env.returns[1], value[1].type))
ForTyped(t, env) ==
  LET body == Statement(t.args[3], define_symbol(enter_scope([env EXCEPT !.inLoop = TRUE]),
                                                 t.name, Variable(I32, FALSE)))
      Bound(i) == Expression(t.args[i], Nothing, env)
  IN [Judged(t, I32, <<Bound(1), Bound(2), body>>, TRUE) EXCEPT !.hides = Visible(env, t.name)]
(* What a tier allows is asked of the statements of a body and of those    *)
(* within them, but not of those within an expression.                     *)
minimum_tier_for_stmt(t) ==
  CASE Is(t, "Infinite") -> 5
    [] t.op \in {"Distributed", "Train"} -> 4
    [] Is(t, "Recurse") -> 3
    [] Is(t, "Reflect") \/ (Is(t, "Loop") /\ t.mark \in {"infinite", "guarded"}) -> 2
    [] OTHER -> 1
RECURSIVE LookedInto(_)
(* Mutant: a branch is not looked into. *)
LookedIntoLoops(t) ==
  {t} \cup IF t.op \in {"Block", "While", "For", "Loop"} \cup TierOps THEN UNION {LookedInto(t.args[i]) : i \in DOMAIN t.args} ELSE {}
LookedInto(t) ==
  {t} \cup IF t.op \in {"Block", "If", "While", "For", "Loop"} \cup TierOps
           THEN UNION {LookedInto(t.args[i]) : i \in DOMAIN t.args} ELSE {}
Distinct(ts) == \A i, j \in DOMAIN ts : ts[i].name = ts[j].name => i = j
FunctionTyped(t, env) ==
  LET ps == Params(t)
      tier == TierOf(t)
      Define(e, p) == define_symbol(e, p.name, Variable(p.type, FALSE))
      scope == FoldLeft(Define, [enter_scope(env) EXCEPT !.returns = <<t.type>>, !.tier = tier], ps)
      marked == [i \in DOMAIN ps |-> [ps[i] EXCEPT !.hides = Visible(env, ps[i].name)]]
      seen == UNION {LookedInto(u) : u \in Range(BodyOf(t))}
  IN Judged(t, t.type, Of("Attribute", t) \o Of("Generic", t) \o marked \o Statements(BodyOf(t), scope).stmts,
           /\ Distinct(ps) /\ Distinct(Of("Generic", t))
           /\ tier # 0 => \A u \in seen : minimum_tier_for_stmt(u) <= tier)
(* A recursion is a function without a signature. *)
RecursionTyped(t, env) ==
  LET Define(e, p) == define_symbol(e, p.name, Variable(p.type, FALSE))
      scope == FoldLeft(Define, [enter_scope(env) EXCEPT !.returns = <<Unknown>>], Params(t))
  IN Judged(t, Void, Params(t) \o Statements(BodyOf(t), scope).stmts, Distinct(Params(t)))

Statement(t, env) ==
  LET Condition == Expression(t.args[1], Nothing, env)
      Branches(e) == [i \in 1..(Len(t.args) - 1) |-> Statement(t.args[i + 1], e)]
      Looping == [env EXCEPT !.inLoop = TRUE]
  IN CASE t.op \in {"Let", "Var"} -> Declared(t, env)
       [] Is(t, "Expression") -> Judged(t, Void, <<Expression(t.args[1], Nothing, env)>>, TRUE)
       [] Is(t, "Block") -> Judged(t, Void, Statements(t.args, enter_scope(env)).stmts, TRUE)
       [] Is(t, "If") -> Judged(t, Void, <<Condition>> \o Branches(env), HoldsBool(Condition))
       [] Is(t, "While") -> Judged(t, Void, <<Condition>> \o Branches(Looping), HoldsBool(Condition))
       [] Is(t, "For") -> ForTyped(t, env)
       [] Is(t, "Loop") ->
            LET guarded == t.mark = "guarded"
                body == Statements(IF guarded THEN Tail(t.args) ELSE t.args, Looping).stmts
            IN Judged(t, Void, IF guarded THEN <<Condition>> \o body ELSE body,
                     /\ t.mark # "" /\ (guarded => HoldsBool(Condition))
                     /\ t.mark = "bounded" => t.lit.n > 0)
       [] Is(t, "Reflect") -> Judged(t, Void, Statements(t.args, env).stmts, TRUE)
       [] t.op \in {"Distributed", "Infinite"} -> Judged(t, Void, Statements(t.args, enter_scope(env)).stmts, TRUE)
       [] Is(t, "Train") -> Judged(t, Void, <<Condition>> \o Statements(Tail(t.args), enter_scope(env)).stmts, TRUE)
       [] Is(t, "Recurse") -> RecursionTyped(t, env)
       [] t.op \in {"Break", "Continue"} -> Judged(t, Void, <<>>, env.inLoop)
       [] Is(t, "Return") -> ReturnTyped(t, env)
       [] Is(t, "Function") -> FunctionTyped(t, env)

(* What the statements after t see: its name, or, as a loop and reflect    *)
(* open no scope of their own, the names declared directly in it.          *)
RECURSIVE After(_, _)
After(env, t) ==
  CASE t.op \in {"Let", "Var"} -> define_symbol(env, t.name, Variable(t.type, t.op = "Var"))
    [] t.op \in {"Loop", "Reflect"} -> FoldLeft(After, env, t.args)
    [] Is(t, "Recurse") -> define_symbol(env, t.name, Entry("Function", Unknown, FALSE, <<>>))
    [] OTHER -> env
Statements(stmts, env) ==
  IF stmts = <<>> THEN [stmts |-> <<>>, env |-> env]
  ELSE LET first == Statement(Head(stmts), env)
           rest == Statements(Tail(stmts), After(env, first))
       IN [rest EXCEPT !.stmts = <<first>> \o @]

(* Functions are known, with their signatures, before anything is judged. *)
Functions(program) == SelectSeq(program, LAMBDA t : Is(t, "Function"))
Signature(f) ==
  [Entry("Function", f.type, FALSE, [i \in DOMAIN Params(f) |-> Params(f)[i].type])
     EXCEPT !.tier = TierOf(f), !.generics = [i \in DOMAIN Of("Generic", f) |-> Of("Generic", f)[i].name]]
(* A declared enum makes its variants known, as a value or a function, and *)
(* its own name, as a value.                                               *)
Declare_enum(env, e) ==
  LET type == Custom(Enums[e].name)
      Variant1(scope, v) == define_symbol(scope, v.name, IF v.payload = <<>> THEN Variable(type, FALSE)
                                                        ELSE Entry("Function", type, FALSE, v.payload))
  IN define_symbol(FoldLeft(Variant1, env, EnumVariants(e)), Enums[e].name, Variable(type, FALSE))
analyze(program) ==
  LET fs == Functions(program)
      names == {fs[i].name : i \in DOMAIN fs}
      symbols == [f \in names |-> Signature(fs[CHOOSE i \in DOMAIN fs : fs[i].name = f])]
      scope == FoldLeft(Declare_enum, Globals(symbols), [e \in DOMAIN Enums |-> e])
      typed == Statements(program, scope).stmts
  IN IF Cardinality(names) = Len(fs) THEN typed ELSE [i \in DOMAIN typed |-> Rejected(typed[i], <<>>)]
Accepted(typed) == \A i \in DOMAIN typed : typed[i].ok
=============================================================================
