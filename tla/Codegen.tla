------------------------------ MODULE Codegen --------------------------------
(***************************************************************************)
(* The IR generator of T81Lang (include/t81/frontend/ir_generator.hpp): it *)
(* walks the tree the analyser has typed and appends instructions.  Here   *)
(* it maps a generator state to the next one.  The state holds the         *)
(* instructions so far, the next register and label, the registers of      *)
(* variables by bare name, the open loops, the labels of functions, the    *)
(* tensors of vector literals, and the register of the last value.         *)
(***************************************************************************)
EXTENDS Analyzer, Lowering

Register(r, kind) == [reg |-> r, kind |-> kind]
NoRegister == Register(0, "Unknown")

emit(g, ir) == [g EXCEPT !.ir = @ \o ir]
Holding(g, register) == [g EXCEPT !.val = register]
new_labels(g, k) == [g EXCEPT !.l = @ + k]
(* Registers 75 to 80 belong to the machine. *)
RegisterAfter(n) == IF n + 1 \in 75..80 THEN 81 ELSE n + 1
allocate(g, kind) == [g EXCEPT !.n = RegisterAfter(g.n), !.val = Register(g.n, kind)]
AsInteger(kind) == IF kind = "Unknown" THEN "Integer" ELSE kind

(* A conversion may be emitted, and may be refused. *)
Converted(g, target) ==
  LET c == ensure_kind(g.val.reg, g.val.kind, target, g.n)
      used == c.dest = g.n
  IN [emit(g, c.ir) EXCEPT !.n = IF used THEN RegisterAfter(@) ELSE @, !.val = Register(c.dest, c.kind)]
CopiedTo(g, dest) == Holding(emit(g, copy_to_dest(g.val.reg, dest.reg)), dest)
JumpTo(l) == <<Ir("JMP", <<l>>)>>
JumpIfZero(g, l) == emit(g, <<Ir("JZ", <<l, g.val.reg>>)>>)

(* Variables are found by their bare name: no scope is ever left, except   *)
(* that of a payload's name.                                               *)
bind_variable(g, x) == [g EXCEPT !.vars = (x :> g.val) @@ @]
lookup_variable(g, x) == IF x \in DOMAIN g.vars THEN g.vars[x] ELSE NoRegister

RECURSIVE Gen(_, _)
(* The value of an expression must have been left in a register. *)
evaluate_expr(t, g) ==
  LET h == Gen(t, Holding(g, NoRegister)) IN IF h.val.reg = 0 THEN emit(h, Inexpressible.ir) ELSE h
GenAll(stmts, g) == FoldLeft(LAMBDA h, t : Gen(t, h), g, stmts)

(**************************** expressions **********************************)
GenLiteral(t, g) ==
  LET kinds == [Int |-> "Integer", Symbol |-> "Integer", Bool |-> "Boolean", Float |-> "Float"]
      d == allocate(g, kinds[t.lit.tag])
  IN emit(d, <<Load(d.val.reg, t.lit)>>)

ShortCircuit(t, g) ==
  LET and == t.name = "&&"
      Leave(h) == emit(h, <<Ir(IF and THEN "JZ" ELSE "JNZ", <<g.l, h.val.reg>>)>>)
      d == allocate(new_labels(g, 1), "Boolean")
      left == Leave(evaluate_expr(t.args[1], emit(d, <<Load(d.val.reg, BoolV(~and))>>)))
      right == Leave(evaluate_expr(t.args[2], left))
  IN Holding(emit(right, <<Load(d.val.reg, BoolV(and)), LabelAt(g.l)>>), d.val)

RelationOf == "<" :> "Less" @@ "<=" :> "LessEqual" @@ ">" :> "Greater" @@ ">=" :> "GreaterEqual"
                @@ "==" :> "Equal" @@ "!=" :> "NotEqual"
ArithmeticOf == "+" :> "ADD" @@ "-" :> "SUB" @@ "*" :> "MUL" @@ "/" :> "DIV" @@ "%" :> "MOD"
BitsOf == "&" :> "BITAND" @@ "|" :> "BITOR" @@ "^" :> "BITXOR" @@ "<<" :> "BITSHL"
            @@ ">>" :> "BITSHR" @@ ">>>" :> "BITUSHR"
(* Operands of a comparison meet at the wider category; truth values are   *)
(* compared as they are.                                                   *)
ComparisonKind(t, left) ==
  LET kinds == {categorize_primitive(t.args[i].type) : i \in 1..2}
  IN CASE kinds = {"Boolean"} -> "Unknown"
       [] "Float" \in kinds -> "Float"
       [] "Fraction" \in kinds -> "Fraction"
       [] "Integer" \in kinds -> "Integer"
       [] OTHER -> left.kind
(* The left operand's register is read after the right one is computed.    *)
GenBinary(t, g) ==
  LET compares == t.name \in DOMAIN RelationOf
      result == AsInteger(categorize_primitive(t.type))
      left == evaluate_expr(t.args[1], g)
      right == evaluate_expr(t.args[2], left)
      target == IF compares THEN ComparisonKind(t, left.val) ELSE result
      x == Converted(Holding(right, left.val), target)
      y == Converted(Holding(x, right.val), target)
      d == allocate(y, IF compares THEN "Boolean" ELSE result)
      operands == <<d.val.reg, x.val.reg, y.val.reg>>
  IN CASE compares -> emit(d, <<CompareIr(operands[1], RelationOf[t.name], operands[2], operands[3])>>)
       [] (t.name = "%" /\ result # "Integer") \/ (t.name = "**" /\ result # "Float") ->
            emit(g, Inexpressible.ir)
       [] t.name = "**" -> emit(d, <<Typed("FPOW", result, operands)>>)
       [] OTHER -> emit(d, <<Typed((ArithmeticOf @@ BitsOf)[t.name], result, operands)>>)
GenNot(t, g) ==
  LET right == evaluate_expr(t.args[1], g)
      d == allocate(right, "Boolean")
      zero == allocate(d, "Boolean")
  IN Holding(emit(zero, <<Load(zero.val.reg, BoolV(FALSE)),
                          CompareIr(d.val.reg, "Equal", right.val.reg, zero.val.reg)>>), d.val)
GenNegation(t, g) ==
  LET right == evaluate_expr(t.args[1], g)
      d == allocate(right, right.val.kind)
  IN emit(d, <<Typed(IF t.name = "~" THEN "BITNOT" ELSE "NEG", right.val.kind, <<d.val.reg, right.val.reg>>)>>)

GenVariable(t, g) == Holding(g, lookup_variable(g, t.name))
GenAssign(t, g) ==
  LET value == evaluate_expr(t.args[1], g)
      target == lookup_variable(g, t.name)
  IN IF target.reg = 0 THEN bind_variable(value, t.name) ELSE CopiedTo(value, target)
(* An element is set in the vector itself; a field cannot be set at all.   *)
GenSet(t, g) ==
  LET value == evaluate_expr(t.args[2], g)
      object == evaluate_expr(t.args[1].args[1], value)
      index == evaluate_expr(t.args[1].args[2], object)
  IN IF Is(t.args[1], "Index")
     THEN Holding(emit(index, <<Ir("TSET", <<object.val.reg, index.val.reg, value.val.reg>>)>>), value.val)
     ELSE emit(value, Inexpressible.ir)

Constructors == [Some |-> "MAKE_OPTION_SOME", Ok |-> "MAKE_RESULT_OK", Err |-> "MAKE_RESULT_ERR"]
GenConstructor(t, g) ==
  LET payload == evaluate_expr(t.args[1], g)
      d == allocate(payload, "Integer")
  IN emit(d, <<Ir(Constructors[t.name], <<d.val.reg, payload.val.reg>>)>>)
GenNone(g) == LET d == allocate(g, "Integer") IN emit(d, <<Ir("MAKE_OPTION_NONE", <<d.val.reg>>)>>)

(* A library call's own code, after the code of its arguments. *)
Arguments(ts, g) ==
  FoldLeft(LAMBDA h, t : LET e == evaluate_expr(t, h.g) IN [g |-> e, vals |-> Append(h.vals, e.val)],
           [g |-> g, vals |-> <<>>], ts)
Included(g, code) ==
  LET written == {code.ir[i].args[1] : i \in {k \in DOMAIN code.ir :
                    code.ir[k].args # <<>> /\ code.ir[k].op \notin {"LABEL", "JMP", "JZ", "JNZ"}}}
  IN [new_labels(emit(g, code.ir), 9) EXCEPT
        !.n = Max({g.n} \cup {RegisterAfter(r) : r \in written}), !.val = Register(code.dest, code.kind)]
LibraryCode(t, g, vals) ==
  Included(g, Lower(CanonicalName(GeneratorNames, t.name), t.type, [i \in DOMAIN vals |-> vals[i].reg],
                    [i \in DOMAIN vals |-> vals[i].kind], g.n, g.l))
GenLibrary(t, g) == LET a == Arguments(t.args, g) IN LibraryCode(t, a.g, a.vals)

(* Arguments are pushed one after the other; a result is popped, with its  *)
(* kind forgotten.                                                         *)
Pushed(g) == emit(g, <<Ir("PUSH", <<g.val.reg>>)>>)
Popped(g) == LET d == allocate(g, "Integer") IN emit(d, <<Ir("POP", <<d.val.reg>>)>>)
Called(g, f) ==
  LET address == allocate(g, "Integer")
      r == address.val.reg
  IN Holding(emit(address, <<LoadAddress(r, g.functions[f]), Ir("CALL", <<0, r>>)>>), NoRegister)
(* Mutant: a result nobody asked for stays on the stack. *)
CallKeepingResult(t, g) ==
  LET called == Called(FoldLeft(LAMBDA h, a : Pushed(evaluate_expr(a, h)), g, t.args), t.name)
  IN IF t.type = Void \/ g.val.reg # 0 THEN called ELSE Popped(called)
GenCall(t, g) ==
  LET called == Called(FoldLeft(LAMBDA h, a : Pushed(evaluate_expr(a, h)), g, t.args), t.name)
  IN IF t.type = Void THEN called ELSE Popped(called)

(* With explicit types the call is written once more in the code.          *)
GenExplicitCall(t, g) == GenCall(t, g)

GenBlockExpr(t, g) == LET h == GenAll(t.args, g) IN IF t.type = Void THEN Holding(h, NoRegister) ELSE h
GenIfExpr(t, g) ==
  LET end == g.l
      two == Len(t.args) = 3
      else == IF two THEN g.l + 1 ELSE end
      void == t.type = Void
      cond == evaluate_expr(t.args[1], new_labels(g, 2))
      d == allocate(cond, AsInteger(categorize_primitive(t.type)))
      Branch(b, h) == IF void THEN Gen(b, h) ELSE CopiedTo(evaluate_expr(b, h), d.val)
      then == Branch(t.args[2], JumpIfZero(IF void THEN cond ELSE Holding(d, cond.val), else))
      both == IF two THEN Branch(t.args[3], emit(then, JumpTo(end) \o <<LabelAt(else)>>)) ELSE then
  IN Holding(emit(both, <<LabelAt(end)>>), IF void THEN NoRegister ELSE d.val)

(* A variant needs no value of its enum, only its number. *)
GenVariant(t, g) ==
  LET payload == IF Is(t, "FieldAccess") THEN g ELSE evaluate_expr(t.args[1], g)
      d == allocate(payload, "Integer")
      made == IF Is(t, "FieldAccess") THEN Ir("MAKE_ENUM_VARIANT", <<d.val.reg, t.lit.n>>)
              ELSE Ir("MAKE_ENUM_VARIANT_PAYLOAD", <<d.val.reg, payload.val.reg, t.lit.n>>)
  IN emit(d, <<made>>)
(* The fields of a record are computed and dropped: the record is a        *)
(* register that nothing writes.  A field is the record's own register.    *)
GenRecord(t, g) == allocate(GenAll([i \in DOMAIN t.args |-> t.args[i].args[1]], g), "Integer")
GenField(t, g) == evaluate_expr(t.args[1], g)
(* A name that is neither a function nor the library's: a variant without  *)
(* its enum, or a recursion.                                               *)
GenUnknownCall(t, g) == Holding(GenAll(t.args, g), NoRegister)

(* Numbers written out make a tensor of the program; everything else is    *)
(* built as a vector of texts.                                             *)
Halved(x) == IF x.tag = "Float" THEN x.n ELSE 2 * x.n
IsConstant(t) ==
  /\ t.type.params # <<Text>>
  /\ \A i \in DOMAIN t.args : Is(t.args[i], "Literal") /\ t.args[i].lit.tag \in {"Int", "Float"}
GenVector(t, g) ==
  LET tensors == Append(g.tensors, [i \in DOMAIN t.args |-> Halved(t.args[i].lit)])
      d == allocate(g, IF IsConstant(t) THEN "Integer" ELSE "Unknown")
      Add(h, e) == LET v == evaluate_expr(e, h)
                   IN emit(v, <<Ir("STRVECPUSH", <<d.val.reg, v.val.reg>>)>>)
  IN IF IsConstant(t)
     THEN [emit(d, <<Load(d.val.reg, V("Tensor", Len(tensors)))>>) EXCEPT !.tensors = tensors]
     ELSE Holding(FoldLeft(Add, emit(d, <<Ir("STRVECNEW", <<d.val.reg>>)>>), t.args), d.val)
(* Mutant: an element is taken for an integer as it is. *)
IndexUnconverted(t, g) ==
  LET object == evaluate_expr(t.args[1], g)
      index == evaluate_expr(t.args[2], object)
      got == allocate(index, AsInteger(categorize_primitive(t.type)))
  IN emit(got, <<Ir("TGET", <<got.val.reg, object.val.reg, index.val.reg>>)>>)
(* Elements are floats; those of an integer vector are converted back. *)
GenIndex(t, g) ==
  LET object == evaluate_expr(t.args[1], g)
      index == evaluate_expr(t.args[2], object)
      got == allocate(index, "Float")
      element == emit(got, <<Ir("TGET", <<got.val.reg, object.val.reg, index.val.reg>>)>>)
      d == allocate(element, "Integer")
  IN IF categorize_primitive(t.type) # "Integer" THEN element
     ELSE emit(d, <<Ir("F2I", <<d.val.reg, got.val.reg>>)>>)

(******************************* match *************************************)
(* Variants are tested in the order their first arms appear in; the arms   *)
(* of a variant follow its test, each with its guard.                      *)
Tests == [Some |-> <<"OPTION_IS_SOME", "JZ">>, None |-> <<"OPTION_IS_SOME", "JNZ">>,
          Ok |-> <<"RESULT_IS_OK", "JZ">>, Err |-> <<"RESULT_IS_OK", "JNZ">>]
Payloads == [Some |-> "OPTION_UNWRAP", Ok |-> "RESULT_UNWRAP_OK", Err |-> "RESULT_UNWRAP_ERR"]
GenArm(g, arm, m, next) ==
  LET holds == arm.name \in DOMAIN Payloads \/ (arm.name \notin DOMAIN Tests /\ arm.type # Unknown)
      op == IF arm.name \in DOMAIN Payloads THEN Payloads[arm.name] ELSE "ENUM_UNWRAP_PAYLOAD"
      unwrapped == IF holds THEN emit(g, <<Ir(op, <<m.payload.reg, m.value.reg>>)>>) ELSE g
      bound == IF holds /\ arm.mark \notin {"", "_"}
               THEN bind_variable(Holding(unwrapped, m.payload), arm.mark) ELSE unwrapped
      guarded == IF Guarded(arm)
                 THEN JumpIfZero(evaluate_expr(arm.args[1], emit(bound, <<Ir("NOP", <<>>)>>)), next)
                 ELSE bound
      done == emit(CopiedTo(evaluate_expr(Result(arm), guarded), m.dest), JumpTo(m.end))
      outer == lookup_variable(g, arm.mark)
  IN [done EXCEPT !.vars = CASE outer.reg # 0 -> (arm.mark :> outer) @@ @
                             [] arm.mark \in DOMAIN @ -> [x \in DOMAIN @ \ {arm.mark} |-> @[x]]
                             [] OTHER -> @]
GenMatch(t, g) ==
  LET arms == Arms(t)
      names == FoldLeft(LAMBDA s, arm : IF Contains(s, arm.name) THEN s ELSE Append(s, arm.name),
                        <<>>, arms)
      end == g.l
      TrapLabel == end + 1 + Len(names)
      VariantLabel(v) == end + v               \* where variant v is tested; the last leads to the trap
      ArmLabel(i) == TrapLabel + i
      value == evaluate_expr(t.args[1], new_labels(g, 2 + Len(names) + Len(arms)))
      d == allocate(value, AsInteger(categorize_primitive(t.type)))
      flag == allocate(d, "Boolean")
      payload == allocate(flag, "Integer")
      m == [dest |-> d.val, value |-> value.val, payload |-> payload.val, end |-> end]
      Test(v) == IF names[v] \in DOMAIN Tests THEN Ir(Tests[names[v]][1], <<flag.val.reg, m.value.reg>>)
                 ELSE LET arm == CHOOSE a \in Range(arms) : a.name = names[v]
                      IN Ir("ENUM_IS_VARIANT", <<flag.val.reg, m.value.reg, arm.lit.n>>)
      Skip(v) == IF names[v] \in DOMAIN Tests THEN Tests[names[v]][2] ELSE "JZ"
      GenTested(h, v) ==
        LET mine == SelectSeq([i \in DOMAIN arms |-> i], LAMBDA i : arms[i].name = names[v])
            Next(k) == IF k < Len(mine) THEN ArmLabel(mine[k]) ELSE VariantLabel(v + 1)
            One(e, k) == LET done == GenArm(e, arms[mine[k]], m, Next(k))
                         IN IF k < Len(mine) THEN emit(done, <<LabelAt(Next(k))>>) ELSE done
        IN FoldLeft(One, emit(h, <<LabelAt(VariantLabel(v)), Test(v),
                                   Ir(Skip(v), <<VariantLabel(v + 1), flag.val.reg>>)>>),
                    [k \in DOMAIN mine |-> k])
      tested == FoldLeft(GenTested, payload, [v \in DOMAIN names |-> v])
  IN Holding(emit(tested, <<LabelAt(TrapLabel), Ir("TRAP", <<>>), LabelAt(end), Ir("NOP", <<>>)>>), m.dest)

(***************************** statements **********************************)
(* A variable is the register of its initialiser, which is not copied.     *)
GenDeclaration(t, g) ==
  bind_variable(IF t.args = <<>> THEN allocate(g, "Integer") ELSE evaluate_expr(t.args[1], g), t.name)

GenIf(t, g) ==
  LET end == g.l
      else == g.l + 1
      two == Len(t.args) = 3
      then == Gen(t.args[2], JumpIfZero(evaluate_expr(t.args[1], new_labels(g, 2)),
                                        IF two THEN else ELSE end))
      both == IF two THEN Gen(t.args[3], emit(then, JumpTo(end) \o <<LabelAt(else)>>)) ELSE then
  IN emit(both, <<LabelAt(end)>>)

(* Break leads to the exit of the innermost loop, continue to its entry. *)
InLoop(g, entry, exit, body) ==
  LET h == GenAll(body, [g EXCEPT !.loops = Append(@, [entry |-> entry, exit |-> exit])])
  IN [h EXCEPT !.loops = g.loops]
GenWhile(t, g) ==
  LET entry == g.l
      exit == g.l + 1
      cond == evaluate_expr(t.args[1], emit(new_labels(g, 2), <<LabelAt(entry)>>))
      body == InLoop(JumpIfZero(cond, exit), entry, exit, <<t.args[2]>>)
  IN emit(body, JumpTo(entry) \o <<LabelAt(exit)>>)
(* Mutant: the round ends without an increment. *)
ForWithoutIncrement(t, g) ==
  LET entry == g.l
      exit == g.l + 1
      low == evaluate_expr(t.args[1], new_labels(g, 2))
      high == evaluate_expr(t.args[2], low)
      i == allocate(high, "Integer")
      start == CopiedTo(Holding(bind_variable(i, t.name), low.val), i.val)
      cond == allocate(emit(start, <<LabelAt(entry)>>), "Boolean")
      test == emit(cond, <<CompareIr(cond.val.reg, "Less", i.val.reg, high.val.reg)>>)
      body == InLoop(JumpIfZero(test, exit), entry, exit, <<t.args[3]>>)
  IN emit(body, JumpTo(entry) \o <<LabelAt(exit)>>)
(* The upper bound's register is compared anew before every round, and the *)
(* entry comes before that comparison.                                     *)
GenFor(t, g) ==
  LET entry == g.l
      exit == g.l + 1
      low == evaluate_expr(t.args[1], new_labels(g, 2))
      high == evaluate_expr(t.args[2], low)
      i == allocate(high, "Integer")
      start == CopiedTo(Holding(bind_variable(i, t.name), low.val), i.val)
      cond == allocate(emit(start, <<LabelAt(entry)>>), "Boolean")
      test == emit(cond, <<CompareIr(cond.val.reg, "Less", i.val.reg, high.val.reg)>>)
      body == InLoop(JumpIfZero(test, exit), entry, exit, <<t.args[3]>>)
      one == allocate(body, "Integer")
  IN emit(one, <<Load(one.val.reg, IntV(1)), Ir("ADD", <<i.val.reg, i.val.reg, one.val.reg>>)>>
                 \o JumpTo(entry) \o <<LabelAt(exit)>>)
(* A guard is tested at the entry of every round. *)
GenLoop(t, g) ==
  LET entry == g.l
      exit == g.l + 1
      guarded == t.mark = "guarded"
      start == emit(new_labels(g, 2), <<LabelAt(entry)>>)
      test == IF guarded THEN JumpIfZero(evaluate_expr(t.args[1], start), exit) ELSE start
      body == InLoop(test, entry, exit, IF guarded THEN Tail(t.args) ELSE t.args)
  IN emit(body, JumpTo(entry) \o <<LabelAt(exit)>>)
GenLeave(t, g) ==
  IF g.loops = <<>> THEN g
  ELSE emit(g, JumpTo(IF Is(t, "Break") THEN Last(g.loops).exit ELSE Last(g.loops).entry))

(* What the tiers add: the trace is reflected on once, before the body; a  *)
(* distributed, infinite or recursive body runs where it stands, once.     *)
GenReflect(t, g) ==
  LET d == allocate(g, "Integer") IN GenAll(t.args, emit(d, <<Ir("META_REFLECT", <<d.val.reg>>)>>))
GenInline(t, g) == GenAll(BodyOf(t), g)
GenTrain(t, g) ==
  LET model == evaluate_expr(t.args[1], g)
  IN emit(GenAll(Tail(t.args), model), <<Ir("TNEURAL_BWD", <<model.val.reg>>)>>)

(* The value goes on the stack under the address the function took off it. *)
AddressPushed(g) == emit(g, <<Ir("PUSH", <<lookup_variable(g, "%ret_addr").reg>>), Ir("RET", <<>>)>>)
GenReturn(t, g) == AddressPushed(IF t.args = <<>> THEN g ELSE Pushed(evaluate_expr(t.args[1], g)))
(* Mutants: the parameters come off in the order they are declared in, or  *)
(* before the address.                                                     *)
FunctionInOrder(t, g) ==
  LET Take(h, x) == bind_variable(Popped(h), x)
      names == [i \in DOMAIN Params(t) |-> Params(t)[i].name]
      entered == Take(emit(g, <<LabelAt(g.functions[t.name])>>), "%ret_addr")
      body == GenAll(BodyOf(t), FoldLeft(Take, entered, names))
  IN AddressPushed(Holding(body, NoRegister))
FunctionAddressLast(t, g) ==
  LET Take(h, x) == bind_variable(Popped(h), x)
      names == [i \in DOMAIN Params(t) |-> Params(t)[i].name]
      entered == Take(FoldLeft(Take, emit(g, <<LabelAt(g.functions[t.name])>>), Reverse(names)), "%ret_addr")
      body == GenAll(BodyOf(t), entered)
  IN AddressPushed(Holding(body, NoRegister))
(* The parameters come off the stack in reverse, after the address. *)
GenFunction(t, g) ==
  LET Take(h, x) == bind_variable(Popped(h), x)
      names == [i \in DOMAIN Params(t) |-> Params(t)[i].name]
      entered == Take(emit(g, <<LabelAt(g.functions[t.name])>>), "%ret_addr")
      body == GenAll(BodyOf(t), FoldLeft(Take, entered, Reverse(names)))
  IN AddressPushed(Holding(body, NoRegister))

Gen(t, g) ==
  CASE Is(t, "Literal") -> GenLiteral(t, g)
    [] Is(t, "Variable") -> GenVariable(t, g)
    [] Is(t, "Binary") /\ t.name \in {"&&", "||"} -> ShortCircuit(t, g)
    [] Is(t, "Binary") -> GenBinary(t, g)
    [] Is(t, "Unary") /\ t.name = "!" -> GenNot(t, g)
    [] Is(t, "Unary") -> GenNegation(t, g)
    [] Is(t, "Assign") /\ t.name = "" -> GenSet(t, g)
    [] Is(t, "Assign") -> GenAssign(t, g)
    [] Is(t, "Call") /\ t.name \in DOMAIN Constructors -> GenConstructor(t, g)
    [] Is(t, "Call") /\ t.name = "None" -> GenNone(g)
    [] Is(t, "Call") /\ t.mark = "explicit" -> GenExplicitCall(t, g)
    [] Is(t, "Call") /\ t.name \in DOMAIN g.functions -> GenCall(t, g)
    [] t.mark = "variant" -> GenVariant(t, g)
    [] Is(t, "Call") /\ t.mark = "library" -> GenLibrary(t, g)
    [] Is(t, "Call") -> GenUnknownCall(t, g)
    [] Is(t, "FieldAccess") -> GenField(t, g)
    [] Is(t, "RecordLiteral") -> GenRecord(t, g)
    [] Is(t, "BlockExpr") -> GenBlockExpr(t, g)
    [] Is(t, "IfExpr") -> GenIfExpr(t, g)
    [] Is(t, "Match") -> GenMatch(t, g)
    [] Is(t, "VectorLiteral") -> GenVector(t, g)
    [] Is(t, "Index") -> GenIndex(t, g)
    [] t.op \in {"Let", "Var"} -> GenDeclaration(t, g)
    [] Is(t, "Expression") -> Gen(t.args[1], g)
    [] Is(t, "Block") -> GenAll(t.args, g)
    [] Is(t, "If") -> GenIf(t, g)
    [] Is(t, "While") -> GenWhile(t, g)
    [] Is(t, "For") -> GenFor(t, g)
    [] Is(t, "Loop") -> GenLoop(t, g)
    [] Is(t, "Reflect") -> GenReflect(t, g)
    [] t.op \in {"Distributed", "Infinite", "Recurse"} -> GenInline(t, g)
    [] Is(t, "Train") -> GenTrain(t, g)
    [] t.op \in {"Break", "Continue"} -> GenLeave(t, g)
    [] Is(t, "Return") -> GenReturn(t, g)
    [] Is(t, "Function") -> GenFunction(t, g)

(* The statements of the script come first, then a call of main, whose     *)
(* result is taken off the stack, and the functions after the halt.        *)
generate(program) ==
  LET functions == Functions(program)
      script == SelectSeq(program, LAMBDA t : ~Is(t, "Function"))
      names == {functions[i].name : i \in DOMAIN functions}
      labels == [f \in names |-> CHOOSE i \in DOMAIN functions : functions[i].name = f]
      start == [ir |-> <<>>, n |-> 1, l |-> Len(functions) + 1, vars |-> [x \in {} |-> NoRegister],
                loops |-> <<>>, functions |-> labels, tensors |-> <<>>, val |-> NoRegister]
      body == GenAll(script, start)
      called == IF "main" \in names THEN Popped(Called(body, "main")) ELSE body
      all == GenAll(functions, emit(called, <<Ir("HALT", <<>>)>>))
  IN [ir |-> all.ir, registers |-> all.n - 1, tensors |-> all.tensors, result |-> called.val.reg]
=============================================================================
