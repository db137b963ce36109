------------------------------ MODULE Language -------------------------------
(***************************************************************************)
(* What a T81Lang program is meant to do: an evaluator over typed trees    *)
(* that knows neither registers nor labels, the reference the compiled     *)
(* code is held against.  As the language definition has it                *)
(* (spec/t81lang-spec.md), names are resolved in nested scopes, operands   *)
(* and arguments are evaluated from left to right and passed by value, and *)
(* a number is widened wherever its context has a wider type.              *)
(***************************************************************************)
EXTENDS Analyzer

CONSTANT Fuel    \* rounds of loops and calls after which a program counts as endless

(* The state of an evaluation: where names live, what the places hold, and *)
(* how the last statement ended: Next, Break, Continue, Return, or with a  *)
(* fault.                                                                  *)
Unit == V("Unit", 0)
Running(s) == s.ctl = "Next"
Yield(s, x) == [s EXCEPT !.val = x]
Fails(s, fault) == [s EXCEPT !.ctl = fault]
Bind(s, x, value) ==
  [s EXCEPT !.store = Append(@, value), !.env = (x :> Len(s.store) + 1) @@ @]
Spend(s) == IF s.fuel = 0 THEN Fails(s, "Fuel") ELSE [s EXCEPT !.fuel = @ - 1]
LeaveScope(s, outer) == [s EXCEPT !.env = outer.env]

IsTrue(x) == x.n = 1
Widen(x, type) ==
  CASE x.tag = "Int" /\ type.kind = "Float" -> FloatV(2 * x.n)
    [] x.tag = "Int" /\ type.kind = "Fraction" -> FracV(2 * x.n)
    [] OTHER -> x

ArithmeticOps == {"+", "-", "*", "/", "%"}
Calculate(s, op, x, y, type) ==
  LET a == Widen(x, type)
      b == Widen(y, type)
      Number(n) == Yield(s, V(a.tag, n))
  IN CASE op = "+" -> Number(a.n + b.n)
       [] op = "-" -> Number(a.n - b.n)
       [] op \in {"/", "%"} /\ b.n = 0 -> Fails(s, "DivisionFault")
       [] op = "*" -> Number(a.n * b.n)
       [] op = "/" -> Number(TruncDiv(a.n, b.n))
       [] op = "%" -> Number(a.n - b.n * TruncDiv(a.n, b.n))
(* Numbers compare by what they are worth, everything else as a whole. *)
Worth(x) == IF x.tag = "Int" THEN 2 * x.n ELSE x.n
IsNumber(x) == x.tag \in {"Int", "Float", "Fraction"}
Relates(op, x, y) ==
  CASE op = "==" -> IF IsNumber(x) THEN Worth(x) = Worth(y) ELSE x = y
    [] op = "!=" -> IF IsNumber(x) THEN Worth(x) # Worth(y) ELSE x # y
    [] op = "<" -> Worth(x) < Worth(y)
    [] op = "<=" -> Worth(x) <= Worth(y)
    [] op = ">" -> Worth(x) > Worth(y)
    [] op = ">=" -> Worth(x) >= Worth(y)

BitOps == "&" :> "BitAnd" @@ "|" :> "BitOr" @@ "^" :> "BitXor" @@ "<<" :> "BitShl" @@ ">>" :> "BitShr" @@ ">>>" :> "BitUShr"
(* The library calls a program here may make. *)
Library(s, name, args) ==
  CASE name = "print" -> Yield(s, Unit)
    [] name = "core_assert" -> IF IsTrue(args[1]) THEN Yield(s, Unit) ELSE Fails(s, "TrapInstruction")
    [] name = "str_len" -> Yield(s, IntV(Len(args[1].text)))
    [] name = "str_concat" -> Yield(s, TextV(args[1].text \o args[2].text))
    [] name = "collections_len" -> Yield(s, IntV(Len(args[1].inner)))
    [] name = "option_is_some" -> Yield(s, BoolV(IsTrue(args[1])))
    [] name = "option_unwrap_or" -> Yield(s, IF IsTrue(args[1]) THEN args[1].inner[1] ELSE args[2])

ElementAt(s, vector, index) ==
  IF index.n + 1 \in DOMAIN vector.inner THEN Yield(s, vector.inner[index.n + 1]) ELSE Fails(s, "BoundsFault")

(* A record's value has its fields in the order of FieldsOf. *)
FieldsOf(type) == SetToSeq(DOMAIN Records[type.name])
PlaceOf(type, f) == CHOOSE i \in DOMAIN FieldsOf(type) : FieldsOf(type)[i] = f
(* The value x with what is found along a path in it replaced. *)
RECURSIVE Replaced(_, _, _)
Replaced(x, path, by) ==
  IF path = <<>> THEN by ELSE [x EXCEPT !.inner[Head(path)] = Replaced(@, Tail(path), by)]
RECURSIVE Leads(_, _)
Leads(path, x) == path = <<>> \/ (Head(path) \in DOMAIN x.inner /\ Leads(Tail(path), x.inner[Head(path)]))

(* Which variant of an option, a result or an enum a value is. *)
IsVariant(arm, x) ==
  CASE arm.name \in {"Some", "Ok"} -> IsTrue(x)
    [] arm.name \in {"None", "Err"} -> ~IsTrue(x)
    [] OTHER -> x.n = arm.lit.n

RECURSIVE Eval(_, _)
EvalAll(stmts, s) == FoldLeft(LAMBDA r, t : Eval(t, r), s, stmts)
(* The values of operands, in order, and the state after the last. *)
Operands(ts, s) ==
  FoldLeft(LAMBDA o, t : LET r == Eval(t, o.s) IN [s |-> r, vals |-> Append(o.vals, r.val)],
           [s |-> s, vals |-> <<>>], ts)
InScope(stmts, s) == LeaveScope(EvalAll(stmts, s), s)

Choose(c, then, else) == IF ~Running(c) THEN c ELSE IF IsTrue(c.val) THEN then ELSE else
Logical(t, s) ==
  LET left == Eval(t.args[1], s)
      right == Eval(t.args[2], left)
  IN IF t.name = "&&" THEN Choose(left, right, left) ELSE Choose(left, left, right)

(* A function sees its parameters and the script's variables. *)
Apply(f, args, s) ==
  LET entered == [Spend(s) EXCEPT !.env = s.globals]
      ps == Params(f)
      bound == FoldLeft(LAMBDA r, i : Bind(r, ps[i].name, Widen(args[i], ps[i].type)), entered,
                        [i \in DOMAIN ps |-> i])
      done == LeaveScope(EvalAll(BodyOf(f), bound), s)
  IN CASE done.ctl = "Return" -> [done EXCEPT !.ctl = "Next", !.val = Widen(@, f.type)]
       [] Running(done) /\ f.type # Void -> Fails(done, "NoReturn")
       [] OTHER -> Yield(done, Unit)
CallOf(t, s) ==
  LET o == Operands(t.args, s)
      name == CanonicalName(AnalyzerNames, t.name)
      payload == o.vals[1]
  IN CASE ~Running(o.s) -> o.s
       [] t.mark = "variant" ->
            LET v == CHOOSE w \in Range(Variants(t.type)) : w.id = t.lit.n
            IN Yield(o.s, EnumV(v.id, [i \in DOMAIN o.vals |-> Widen(o.vals[i], v.payload[i])]))
       [] t.name \in DOMAIN s.functions -> Apply(s.functions[t.name], o.vals, o.s)
       [] t.name = "Some" -> Yield(o.s, SomeV(Widen(payload, ParamOf(t.type, 1))))
       [] t.name = "None" -> Yield(o.s, NoneV)
       [] t.name = "Ok" -> Yield(o.s, ResultV(TRUE, Widen(payload, ParamOf(t.type, 1))))
       [] t.name = "Err" -> Yield(o.s, ResultV(FALSE, Widen(payload, ParamOf(t.type, 2))))
       [] t.mark = "library" -> Library(o.s, name, o.vals)
       [] OTHER -> Fails(o.s, "Undefined")

(* Where an assignment goes: a variable, and a path into its value. *)
RECURSIVE Place(_, _)
Place(t, s) ==
  IF Is(t, "Variable") THEN [s |-> s, x |-> t.name, path |-> <<>>]
  ELSE LET p == Place(t.args[1], s)
           i == IF Is(t, "Index") THEN Eval(t.args[2], p.s) ELSE Yield(p.s, IntV(PlaceOf(t.args[1].type, t.name) - 1))
       IN [p EXCEPT !.s = i, !.path = Append(@, i.val.n + 1)]
SetPart(t, s) ==
  LET r == Eval(t.args[2], s)
      p == Place(t.args[1], r)
      at == s.env[p.x]
      x == Widen(r.val, t.type)
  IN CASE ~Running(r) -> r
       [] ~Running(p.s) -> p.s
       [] ~Leads(p.path, p.s.store[at]) -> Fails(p.s, "BoundsFault")
       [] OTHER -> Yield([p.s EXCEPT !.store[at] = Replaced(@, p.path, x)], x)

(* The first arm that names the variant and whose guard holds. *)
RECURSIVE TryArms(_, _, _)
TryArms(arms, x, s) ==
  IF arms = <<>> THEN Fails(s, "TrapInstruction")
  ELSE LET arm == Head(arms)
           bound == IF arm.mark \in {"", "_"} THEN s ELSE Bind(s, arm.mark, x.inner[1])
           guard == IF Guarded(arm) THEN Eval(arm.args[1], bound) ELSE Yield(bound, BoolV(TRUE))
       IN IF ~IsVariant(arm, x) THEN TryArms(Tail(arms), x, s)
          ELSE Choose(guard, LeaveScope(Eval(Result(arm), guard), s),
                      TryArms(Tail(arms), x, LeaveScope(guard, s)))

(* A round ends normally, or with continue; break ends the loop. *)
RECURSIVE Rounds(_, _, _), Count(_, _, _, _)
AfterRound(r, next) ==
  CASE r.ctl = "Break" -> [r EXCEPT !.ctl = "Next"]
    [] r.ctl \in {"Next", "Continue"} -> next
    [] OTHER -> r
Again(r) == [r EXCEPT !.ctl = "Next"]
Rounds(test, body, s) ==
  LET c == IF test = <<>> THEN Yield(Spend(s), BoolV(TRUE)) ELSE Eval(test[1], Spend(s))
      r == EvalAll(body, c)
  IN Choose(c, AfterRound(r, Rounds(test, body, Again(r))), c)
Count(t, i, high, s) ==
  IF i >= high \/ ~Running(s) THEN s
  ELSE LET r == Eval(t.args[3], Bind(Spend(s), t.name, IntV(i)))
       IN AfterRound(r, Count(t, i + 1, high, Again(r)))

EvalExpression(t, s) ==
  CASE Is(t, "Literal") -> Yield(s, t.lit)
    [] Is(t, "Variable") -> IF t.name \in DOMAIN s.env THEN Yield(s, s.store[s.env[t.name]]) ELSE Fails(s, "Undefined")
    [] Is(t, "Binary") /\ t.name \in {"&&", "||"} -> Logical(t, s)
    [] Is(t, "Binary") ->
         LET o == Operands(t.args, s)
         IN CASE ~Running(o.s) -> o.s
              [] t.name \in DOMAIN BitOps -> Yield(o.s, IntV(OfBits(BitOps[t.name], o.vals[1].n, o.vals[2].n)))
              [] t.name \in ArithmeticOps -> Calculate(o.s, t.name, o.vals[1], o.vals[2], t.type)
              [] OTHER -> Yield(o.s, BoolV(Relates(t.name, o.vals[1], o.vals[2])))
    [] Is(t, "Unary") ->
         LET r == Eval(t.args[1], s)
         IN Yield(r, CASE t.name = "!" -> BoolV(~IsTrue(r.val))
                       [] t.name = "~" -> IntV(-1 - r.val.n)
                       [] OTHER -> V(r.val.tag, -r.val.n))
    [] Is(t, "Assign") /\ t.name = "" -> SetPart(t, s)
    [] Is(t, "Assign") ->
         LET r == Eval(t.args[1], s)
             x == Widen(r.val, t.type)
         IN IF Running(r) THEN Yield([r EXCEPT !.store[s.env[t.name]] = x], x) ELSE r
    [] Is(t, "Call") -> CallOf(t, s)
    [] Is(t, "BlockExpr") -> InScope(t.args, s)
    [] Is(t, "IfExpr") ->
         LET c == Eval(t.args[1], s)
             Branch(i) == IF i \notin DOMAIN t.args THEN c
                         ELSE LET r == Eval(t.args[i], c) IN Yield(r, Widen(r.val, t.type))
         IN Choose(c, Branch(2), Branch(3))
    [] Is(t, "FieldAccess") /\ t.mark = "variant" -> Yield(s, EnumV(t.lit.n, <<>>))
    [] Is(t, "FieldAccess") ->
         LET r == Eval(t.args[1], s) IN IF Running(r) THEN Yield(r, r.val.inner[PlaceOf(t.args[1].type, t.name)]) ELSE r
    [] Is(t, "RecordLiteral") ->
         LET o == Operands([i \in DOMAIN t.args |-> t.args[i].args[1]], s)
             At(f) == CHOOSE i \in DOMAIN t.args : t.args[i].name = f
             Part(f) == Widen(o.vals[At(f)], Records[t.name][f])
         IN IF Running(o.s) THEN Yield(o.s, Value("Record", 0, <<>>, [i \in DOMAIN FieldsOf(t.type) |-> Part(FieldsOf(t.type)[i])]))
            ELSE o.s
    [] Is(t, "VectorLiteral") ->
         LET o == Operands(t.args, s)
         IN Yield(o.s, Value("Vector", 0, <<>>, [i \in DOMAIN o.vals |-> Widen(o.vals[i], ParamOf(t.type, 1))]))
    [] Is(t, "Index") ->
         LET o == Operands(t.args, s) IN IF Running(o.s) THEN ElementAt(o.s, o.vals[1], o.vals[2]) ELSE o.s
    [] Is(t, "Match") ->
         LET m == Eval(t.args[1], s)
             r == TryArms(Arms(t), m.val, m)
         IN IF Running(m) THEN Yield(r, Widen(r.val, t.type)) ELSE m

Declare(t, s) ==
  LET r == IF t.args = <<>> THEN Yield(s, IntV(0)) ELSE Eval(t.args[1], s)
  IN IF Running(r) THEN Bind(r, t.name, Widen(r.val, t.type)) ELSE r
EvalStatement(t, s) ==
  CASE t.op \in {"Let", "Var"} -> Declare(t, s)
    [] Is(t, "Expression") -> Eval(t.args[1], s)
    [] Is(t, "Block") -> InScope(t.args, s)
    [] Is(t, "If") ->
         LET c == Eval(t.args[1], s)
         IN Choose(c, InScope(<<t.args[2]>>, c), IF Len(t.args) = 3 THEN InScope(<<t.args[3]>>, c) ELSE c)
    [] Is(t, "While") -> Rounds(<<t.args[1]>>, <<t.args[2]>>, s)
    [] Is(t, "Loop") -> IF t.mark = "guarded" THEN Rounds(<<t.args[1]>>, Tail(t.args), s)
                        ELSE Rounds(<<>>, t.args, s)
    [] Is(t, "For") ->
         LET o == Operands(<<t.args[1], t.args[2]>>, s)
         IN IF Running(o.s) THEN LeaveScope(Count(t, o.vals[1].n, o.vals[2].n, o.s), s) ELSE o.s
    [] Is(t, "Reflect") -> EvalAll(t.args, s)
    [] t.op \in {"Distributed", "Infinite", "Train"} -> InScope(t.args, s)
    [] Is(t, "Recurse") -> s
    [] t.op \in {"Break", "Continue"} -> Fails(s, t.op)
    [] Is(t, "Return") ->
         LET r == EvalAll(t.args, Yield(s, Unit)) IN IF Running(r) THEN Fails(r, "Return") ELSE r

StatementOps == {"Let", "Var", "Expression", "Block", "If", "While", "Loop", "For", "Recurse", "Break", "Continue", "Return"}
                  \cup TierOps
Eval(t, s) ==
  CASE ~Running(s) -> s
    [] t.op \in StatementOps -> EvalStatement(t, s)
    [] OTHER -> EvalExpression(t, s)

(* A program runs its script, then main: how it ends, and with what. *)
Meaning(program) ==
  LET fs == Functions(program)
      script == SelectSeq(program, LAMBDA t : ~Is(t, "Function"))
      named == [f \in {fs[i].name : i \in DOMAIN fs} |-> fs[CHOOSE i \in DOMAIN fs : fs[i].name = f]]
      nowhere == [x \in {} |-> 0]
      start == [env |-> nowhere, globals |-> nowhere, store |-> <<>>, functions |-> named,
                fuel |-> Fuel, ctl |-> "Next", val |-> Unit]
      TopLevel(s, t) == LET r == Eval(t, s) IN [r EXCEPT !.globals = r.env]
      body == FoldLeft(TopLevel, start, script)
      end == IF "main" \in DOMAIN named /\ Running(body) THEN Apply(named["main"], <<>>, body) ELSE body
  IN [trap |-> IF Running(end) THEN "Halt" ELSE end.ctl, value |-> end.val]
=============================================================================
