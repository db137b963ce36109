------------------------------ MODULE Lowering ------------------------------
(***************************************************************************)
(* The intermediate instructions of the IR generator, what the binary      *)
(* emitter makes of them (core/isa/binary_emitter.cpp) - it picks the      *)
(* machine's opcode, drops labels, and puts addresses for them - and those *)
(* the generator emits for a library call                                  *)
(* (include/t81/frontend/ir_generator.hpp).                                *)
(*                                                                         *)
(* A call's arguments are in registers a with primitive kinds k; n is the  *)
(* first free register and l the first free label.  The result is the      *)
(* code, the register of the value (0 when there is none) and its kind.    *)
(***************************************************************************)
EXTENDS Builtins

(*************************** instructions **********************************)
(* Operands are registers, immediates, or labels in the first or second    *)
(* place.  kind is the primitive kind the generator notes on an            *)
(* instruction, rel the relation a comparison tests.                       *)
Ir(op, args) ==
  [op |-> op, args |-> args, kind |-> "Integer", rel |-> "None", lit |-> IntV(0), address |-> FALSE]
LabelAt(l) == Ir("LABEL", <<l>>)
Load(r, value) == [Ir("LOADI", <<r>>) EXCEPT !.lit = value]
LoadAddress(r, l) == [Ir("LOADI", <<r, l>>) EXCEPT !.address = TRUE]
Typed(op, kind, args) == [Ir(op, args) EXCEPT !.kind = kind]
CompareIr(r, rel, x, y) == [Ir("CMP", <<r, x, y>>) EXCEPT !.rel = rel, !.kind = "Boolean"]
MoveIr(r, x) == Ir("MOV", <<r, x>>)

(* The operation is chosen by the kind, whichever spelling the IR uses. *)
Arithmetics ==
  [ADD |-> "Add", FADD |-> "Add", FRACADD |-> "Add", SUB |-> "Sub", FSUB |-> "Sub",
   FRACSUB |-> "Sub", MUL |-> "Mul", FMUL |-> "Mul", FRACMUL |-> "Mul", DIV |-> "Div",
   FDIV |-> "Div", FRACDIV |-> "Div"]
map_primitive_opcode(i) ==
  CASE i.op = "MOD" -> "Mod"
    [] i.kind = "Float" -> "F" \o Arithmetics[i.op]
    [] i.kind = "Fraction" -> "Frac" \o Arithmetics[i.op]
    [] OTHER -> Arithmetics[i.op]

map_relation(rel) == IF rel = "None" THEN "Cmp" ELSE rel

ScalarOpcodes ==
  [FSIN |-> "FSin", FCOS |-> "FCos", FTAN |-> "FTan", FASIN |-> "FAsin", FACOS |-> "FAcos",
   FATAN |-> "FAtan", FSINH |-> "FSinh", FCOSH |-> "FCosh", FTANH |-> "FTanh",
   FSQRT |-> "FSqrt", FEXP |-> "FExp", FLOG |-> "FLog", FPOW |-> "FPow", NEG |-> "Neg",
   MOV |-> "Mov", LOADI |-> "LoadImm", PUSH |-> "Push", POP |-> "Pop", JMP |-> "Jump",
   JZ |-> "JumpIfZero", JNZ |-> "JumpIfNotZero", CALL |-> "Call", RET |-> "Ret",
   I2F |-> "I2F", F2I |-> "F2I", I2FRAC |-> "I2Frac", FRAC2I |-> "Frac2I",
   F2FRAC |-> "F2Frac", FRAC2F |-> "Frac2F", BITAND |-> "BitAnd", BITOR |-> "BitOr",
   BITXOR |-> "BitXor", BITNOT |-> "BitNot", BITSHL |-> "BitShl", BITSHR |-> "BitShr",
   BITUSHR |-> "BitUShr"]
ObjectOpcodes ==
  [MAKE_OPTION_SOME |-> "MakeOptionSome", MAKE_OPTION_NONE |-> "MakeOptionNone",
   MAKE_RESULT_OK |-> "MakeResultOk", MAKE_RESULT_ERR |-> "MakeResultErr",
   OPTION_IS_SOME |-> "OptionIsSome", OPTION_UNWRAP |-> "OptionUnwrap",
   RESULT_IS_OK |-> "ResultIsOk", RESULT_UNWRAP_OK |-> "ResultUnwrapOk",
   RESULT_UNWRAP_ERR |-> "ResultUnwrapErr", MAKE_ENUM_VARIANT |-> "MakeEnumVariant",
   MAKE_ENUM_VARIANT_PAYLOAD |-> "MakeEnumVariantPayload", ENUM_IS_VARIANT |-> "EnumIsVariant",
   ENUM_UNWRAP_PAYLOAD |-> "EnumUnwrapPayload", HALT |-> "Halt", NOP |-> "Nop", TRAP |-> "Trap",
   PRINT |-> "Print", STRLEN |-> "StrLen", STREMPTY |-> "StrEmpty", VECLEN |-> "VecLen",
   VECEMPTY |-> "VecEmpty", VECFIRST |-> "VecFirst", VECLAST |-> "VecLast",
   VECPUSH |-> "VecPush", VECPOP |-> "VecPop", STRCONCAT |-> "StrConcat",
   STRSTARTSWITH |-> "StrStartsWith", STRENDSWITH |-> "StrEndsWith",
   STRCONTAINS |-> "StrContains", STRINDEXOF |-> "StrIndexOf", STRREPLACE |-> "StrReplace",
   STRVECNEW |-> "StrVecNew", STRVECPUSH |-> "StrVecPush", STRSPLIT |-> "StrSplit",
   STRJOIN |-> "StrJoin", TMATMUL |-> "TMatMul", TVECADD |-> "TVecAdd", TTENDOT |-> "TTenDot",
   TGET |-> "TGet", TSET |-> "TSet", TNEURAL_BWD |-> "TNeuralBwd", SYMLOAD |-> "SymLoad", SYMREWRITE |-> "SymRewrite",
   SYMCANON |-> "SymCanon", SYMCONFLUENCE |-> "SymConfluence", MAKE_COMPLEX |-> "MakeComplex", META_READ |-> "MetaRead",
   META_REFINE |-> "MetaRefine", META_REFLECT |-> "MetaReflect"]
(* Maps and sets keep their names. *)
DictionaryOpcodes == {"MapNew", "MapPut", "MapGet", "MapHas", "MapRemove", "MapKeys", "MapSize",
                      "SetNew", "SetAdd", "SetRemove", "SetHas", "SetSize"}
map_opcode(i) ==
  CASE i.op = "CMP" -> map_relation(i.rel)
    [] i.op \in DOMAIN Arithmetics \cup {"MOD"} -> map_primitive_opcode(i)
    [] i.op \in DOMAIN ScalarOpcodes -> ScalarOpcodes[i.op]
    [] i.op \in DOMAIN ObjectOpcodes -> ObjectOpcodes[i.op]
    [] i.op \in DictionaryOpcodes -> i.op

(* The first pass finds the address of every label, the second writes the  *)
(* instructions.  Addresses count from one here, from zero in the code.    *)
Emit(ir) ==
  LET IsLabel(i) == i.op = "LABEL"
      Address(l) ==
        LET at == CHOOSE k \in DOMAIN ir : IsLabel(ir[k]) /\ ir[k].args[1] = l
        IN Cardinality({k \in 1..at : ~IsLabel(ir[k])}) + 1
      Operand(i, n) ==
        CASE n > Len(i.args) -> 0
          [] n = 1 /\ i.op \in {"JMP", "JZ", "JNZ"} -> Address(i.args[n])
          [] n = 2 /\ i.address -> Address(i.args[n])
          [] OTHER -> i.args[n]
      Encode(i) ==
        [Ins(map_opcode(i), Operand(i, 1), Operand(i, 2), Operand(i, 3)) EXCEPT !.lit =
           IF i.address THEN IntV(Operand(i, 2)) ELSE i.lit]
      kept == SelectSeq(ir, LAMBDA i : ~IsLabel(i))
  IN [k \in DOMAIN kept |-> Encode(kept[k])]

(*************************** library calls *********************************)
Lowered(ir, dest, kind) == [ir |-> ir, dest |-> dest, kind |-> kind]
NoValue(ir) == Lowered(ir, 0, "Unknown")
Inexpressible == NoValue(<<Ir("THROW", <<>>)>>)

PrimitiveKinds ==
  [Float |-> "Float", Fraction |-> "Fraction", Bool |-> "Boolean"]
categorize_primitive(t) ==
  CASE IsInteger(t) \/ t.kind \in {"Fixed", "Complex"} -> "Integer"
    [] t.kind \in DOMAIN PrimitiveKinds -> PrimitiveKinds[t.kind]
    [] OTHER -> "Unknown"

(* An operand is converted only when its register is known to be integral; *)
(* a Boolean passes for an integer and an unknown kind for anything.       *)
ensure_kind(r, kind, target, n) ==
  CASE target = "Unknown" \/ kind = target \/ (kind = "Boolean" /\ target = "Integer") ->
         Lowered(<<>>, r, kind)
    [] kind # "Integer" -> Inexpressible
    [] target = "Float" -> Lowered(<<Typed("I2F", "Float", <<n, r>>)>>, n, "Float")
    [] target = "Fraction" -> Lowered(<<Typed("I2FRAC", "Fraction", <<n, r>>)>>, n, "Fraction")
    [] OTHER -> Inexpressible
ensure_integer(r, kind, n) ==
  CASE kind = "Float" -> Lowered(<<Ir("F2I", <<n, r>>)>>, n, "Integer")
    [] kind = "Fraction" -> Lowered(<<Ir("FRAC2I", <<n, r>>)>>, n, "Integer")
    [] OTHER -> Lowered(<<>>, r, kind)
copy_to_dest(r, dest) == IF r = dest THEN <<>> ELSE <<MoveIr(dest, r)>>

(***************** calls that are one instruction **************************)
(* The destination first, then the arguments in order, unconverted. *)
FloatInstructions ==
  [sin |-> "FSIN", cos |-> "FCOS", tan |-> "FTAN", asin |-> "FASIN", acos |-> "FACOS",
   atan |-> "FATAN", sinh |-> "FSINH", cosh |-> "FCOSH", tanh |-> "FTANH", exp |-> "FEXP",
   log |-> "FLOG", sqrt |-> "FSQRT", pow |-> "FPOW", frac_to_float |-> "FRAC2F"]
IntegerInstructions ==
  [bigint_add |-> "ADD", bigint_mul |-> "MUL", frac_to_int |-> "FRAC2I"]
FractionInstructions ==
  [frac_add |-> "FRACADD", frac_sub |-> "FRACSUB", frac_mul |-> "FRACMUL",
   frac_div |-> "FRACDIV", frac_from_float |-> "F2FRAC"]
TextQuestions ==
  [str_len |-> <<"STRLEN", "Integer">>, str_is_empty |-> <<"STREMPTY", "Boolean">>,
   str_concat |-> <<"STRCONCAT", "Unknown">>, str_starts_with |-> <<"STRSTARTSWITH", "Boolean">>,
   str_ends_with |-> <<"STRENDSWITH", "Boolean">>, str_contains |-> <<"STRCONTAINS", "Boolean">>,
   str_index_of |-> <<"STRINDEXOF", "Integer">>]
TextParts == [str_split |-> <<"STRSPLIT", "Unknown">>, str_join |-> <<"STRJOIN", "Unknown">>]
BytesQuestions ==
  [bytes_len |-> <<"STRLEN", "Integer">>, bytes_is_empty |-> <<"STREMPTY", "Boolean">>,
   bytes_concat |-> <<"STRCONCAT", "Unknown">>,
   bytes_starts_with |-> <<"STRSTARTSWITH", "Boolean">>,
   bytes_ends_with |-> <<"STRENDSWITH", "Boolean">>,
   bytes_contains |-> <<"STRCONTAINS", "Boolean">>,
   bytes_index_of |-> <<"STRINDEXOF", "Integer">>]
BytesParts == [bytes_split |-> <<"STRSPLIT", "Unknown">>, bytes_join |-> <<"STRJOIN", "Unknown">>]
VectorInstructions ==
  [collections_len |-> <<"VECLEN", "Integer">>, collections_is_empty |-> <<"VECEMPTY", "Boolean">>,
   collections_first |-> <<"VECFIRST", "Unknown">>, collections_last |-> <<"VECLAST", "Unknown">>,
   collections_push |-> <<"VECPUSH", "Unknown">>, collections_pop |-> <<"VECPOP", "Unknown">>,
   collections_list |-> <<"STRVECNEW", "Unknown">>, collections_tree |-> <<"STRVECNEW", "Unknown">>,
   collections_graph |-> <<"STRVECNEW", "Unknown">>]
MapInstructions ==
  [collections_map |-> <<"MapNew", "Unknown">>, collections_map_size |-> <<"MapSize", "Integer">>,
   collections_map_has |-> <<"MapHas", "Boolean">>, collections_map_get |-> <<"MapGet", "Unknown">>,
   collections_map_remove |-> <<"MapRemove", "Unknown">>,
   collections_map_keys |-> <<"MapKeys", "Unknown">>]
SetInstructions ==
  [collections_set |-> <<"SetNew", "Unknown">>, collections_set_size |-> <<"SetSize", "Integer">>, collections_set_has |-> <<"SetHas", "Boolean">>]
BoxInstructions ==
  [option_is_some |-> <<"OPTION_IS_SOME", "Boolean">>, result_is_ok |-> <<"RESULT_IS_OK", "Boolean">>]
GraphInstructions ==
  [symbolic_load |-> <<"SYMLOAD", "Integer">>, polynomial_load |-> <<"SYMLOAD", "Integer">>,
   symbolic_confluent |-> <<"SYMCONFLUENCE", "Boolean">>,
   polynomial_confluent |-> <<"SYMCONFLUENCE", "Boolean">>]
DirectInstructions ==
  TextQuestions @@ TextParts @@ BytesQuestions @@ BytesParts @@ VectorInstructions
    @@ MapInstructions @@ SetInstructions @@ BoxInstructions @@ GraphInstructions
    @@ ("Tensor.matmul" :> <<"TMATMUL", "Integer">> @@ "Tensor.vec_add" :> <<"TVECADD", "Integer">>)
DirectInstruction(name) ==
  CASE name \in DOMAIN FloatInstructions -> <<FloatInstructions[name], "Float">>
    [] name \in DOMAIN IntegerInstructions -> <<IntegerInstructions[name], "Integer">>
    [] name \in DOMAIN FractionInstructions -> <<FractionInstructions[name], "Fraction">>
    [] OTHER -> DirectInstructions[name]
Direct == DOMAIN FloatInstructions \cup DOMAIN IntegerInstructions
            \cup DOMAIN FractionInstructions \cup DOMAIN DirectInstructions
LowerDirect(name, a, n) ==
  LET i == DirectInstruction(name) IN Lowered(<<Typed(i[1], i[2], <<n>> \o a)>>, n, i[2])

(* Calls that give back an argument's value in a new register. *)
Copying == {"T81Bytes", "bigint_from_int", "bigint_to_int", "str_to_string", "symbol_intern",
            "symbol_to_string"}
(* Calls that work in place on the object their copied handle names. *)
InPlaceInstructions ==
  [str_replace |-> "STRREPLACE", bytes_replace |-> "STRREPLACE",
   collections_map_put |-> "MapPut", collections_set_add |-> "SetAdd",
   collections_set_remove |-> "SetRemove"]
LowerInPlace(name, a, n) ==
  Lowered(<<MoveIr(n, a[1]), Ir(InPlaceInstructions[name], <<n>> \o Tail(a))>>, n, "Unknown")
(* Calls that load a constant: clocks and entropy are fixed. *)
Constants ==
  [sys_time |-> <<FloatV(0), "Float">>, sys_entropy |-> <<IntV(0), "Integer">>]
Tokens == {"sys_proof", "io_stream", "io_net", "async_thread", "async_promise"}
LowerConstant(name, n) ==
  IF name \in Tokens THEN Lowered(<<Load(n, TextV(TokenText))>>, n, "Integer")
  ELSE Lowered(<<Load(n, Constants[name][1])>>, n, Constants[name][2])

(* The argument's register is the result: nothing is emitted, or nothing   *)
(* is copied.                                                              *)
LowerSymbolic(name, a) ==
  Lowered(<<Ir(IF Len(a) = 3 THEN "SYMREWRITE" ELSE "SYMCANON", a)>>, a[1], "Integer")

(******************************* numbers ***********************************)
LowerClamp(a, k, n, l) ==
  LET c1 == ensure_kind(a[1], k[1], "Float", n)
      n1 == n + Len(c1.ir)
      c2 == ensure_kind(a[2], k[2], "Float", n1)
      n2 == n1 + Len(c2.ir)
      c3 == ensure_kind(a[3], k[3], "Float", n2)
      dest == n2 + Len(c3.ir)
      below == dest + 1
      above == dest + 2
      high == l
      end == l + 1
  IN Lowered(c1.ir \o c2.ir \o c3.ir
               \o <<MoveIr(dest, c1.dest), CompareIr(below, "Less", c1.dest, c2.dest),
                    Ir("JZ", <<high, below>>), MoveIr(dest, c2.dest), Ir("JMP", <<end>>),
                    LabelAt(high), CompareIr(above, "Greater", c1.dest, c3.dest),
                    Ir("JZ", <<end, above>>), MoveIr(dest, c3.dest), LabelAt(end)>>,
             dest, "Float")
(* Everything but a float is negated as an integer. *)
LowerAbs(a, k, n, l) ==
  LET float == k[1] = "Float"
      zero == n + 1
      negative == n + 2
  IN Lowered(<<Load(zero, IF float THEN FloatV(0) ELSE IntV(0)),
               CompareIr(negative, "Less", a[1], zero), MoveIr(n, a[1]),
               Ir("JZ", <<l, negative>>),
               IF float THEN Typed("FSUB", "Float", <<n, zero, a[1]>>) ELSE Ir("NEG", <<n, a[1]>>),
               LabelAt(l)>>, n, k[1])
LowerFracFromInt(a, k, n) ==
  LET c == ensure_integer(a[1], k[1], n)
      dest == n + Len(c.ir)
  IN Lowered(Append(c.ir, Typed("I2FRAC", "Fraction", <<dest, c.dest>>)), dest, "Fraction")
LowerDot(a, n) ==
  Lowered(<<Ir("TTENDOT", <<n, a[1], a[2]>>), Load(n + 1, IntV(0)),
            Typed("TGET", "Float", <<n + 2, n, n + 1>>), Ir("F2I", <<n + 3, n + 2>>)>>,
          n + 3, "Integer")

(***************** constructors and services *******************************)
LowerNarrowing(a, k, n) ==
  LET c == ensure_integer(a[1], k[1], n)
      dest == n + Len(c.ir)
  IN Lowered(Append(c.ir, MoveIr(dest, c.dest)), dest, "Integer")
Seed == TextV(<<0, 0>>)
LowerConstructor(name, n) ==
  CASE name = "T81Maybe" -> Lowered(<<Ir("MAKE_OPTION_NONE", <<n>>)>>, n, "Integer")
    [] name = "T81Promise" -> Lowered(<<Load(n, TextV(TokenText))>>, n, "Integer")
    [] name = "T81Time" -> Lowered(<<Load(n, FloatV(0))>>, n, "Float")
    [] name = "T81Entropy" -> Lowered(<<Load(n, IntV(0))>>, n, "Integer")
    [] name = "T81Agent" -> Lowered(<<Ir("META_REFLECT", <<n>>)>>, n, "Integer")
    [] OTHER -> Lowered(<<Load(n, Seed), Ir("SYMLOAD", <<n + 1, n>>)>>, n + 1, "Integer")
(* A type with parameters is called like a function. *)
LowerGenericConstructor(t, a, k, n) ==
  LET x == ensure_integer(a[1], k[1], n)
      m == n + Len(x.ir)
      y == ensure_integer(a[2], k[2], m)
      dest == m + Len(y.ir)
  IN CASE t.kind = "Fixed" -> LowerNarrowing(a, k, n)
       [] t.kind = "Complex" ->
            Lowered(x.ir \o y.ir \o <<Ir("MAKE_COMPLEX", <<dest, x.dest, y.dest>>)>>, dest, "Integer")
       [] t.kind = "Option" -> Lowered(<<Ir("MAKE_OPTION_NONE", <<n>>)>>, n, "Integer")
       [] t.kind = "Custom" -> Lowered(<<Load(n, TextV(TokenText))>>, n, "Integer")
       [] OTHER -> Lowered(<<Ir("STRVECNEW", <<n>>)>>, n, "Unknown")
(* Reading the code names the address's register where the machine takes a *)
(* segment; refining gives its two operands to the wrong places.  Nothing  *)
(* is emitted for writing the code.                                        *)
LowerSelfCall(name, a, k, n) ==
  CASE name = "read_code" -> Lowered(<<Ir("META_READ", <<n, a[1]>>)>>, n, "Integer")
    [] name = "refine" -> Lowered(<<Ir("META_REFINE", a), Load(n, IntV(0))>>, n, "Integer")
    [] name = "observe_performance" -> Lowered(<<Load(n, IntV(100))>>, n, "Integer")
    [] name = "optimize" -> IF Len(a) = 1 THEN Lowered(<<>>, a[1], k[1]) ELSE Inexpressible
    [] name = "write_code" -> NoValue(<<>>)
LowerReflect(n) == NoValue(<<Ir("META_REFLECT", <<n>>)>>)

(************************ options and results ******************************)
LowerUnwrapOr(t, a, k, n, l) ==
  LET kind == IF categorize_primitive(t) = "Unknown" THEN k[2] ELSE categorize_primitive(t)
  IN Lowered(<<Ir("OPTION_IS_SOME", <<n, a[1]>>), MoveIr(n + 1, a[2]), Ir("JZ", <<l, n>>),
               Ir("OPTION_UNWRAP", <<n + 2, a[1]>>), MoveIr(n + 1, n + 2), LabelAt(l)>>,
             n + 1, kind)
LowerNegatedTest(test, a, n) ==
  Lowered(<<Ir(test, <<n, a[1]>>), Load(n + 1, IntV(0)), CompareIr(n + 2, "Equal", n, n + 1)>>,
          n + 2, "Boolean")
Unwraps == [option_unwrap |-> "OPTION_UNWRAP", result_unwrap |-> "RESULT_UNWRAP_OK",
            result_unwrap_err |-> "RESULT_UNWRAP_ERR"]
LowerUnwrap(name, t, a, n) ==
  Lowered(<<Ir(Unwraps[name], <<n, a[1]>>)>>, n, categorize_primitive(t))
(* Mutant: the jump over the trap is taken on the wrong truth value. *)
LowerAssertInverted(a, l) == NoValue(<<Ir("JZ", <<l, a[1]>>), Ir("TRAP", <<>>), LabelAt(l)>>)
LowerAssert(a, l) == NoValue(<<Ir("JNZ", <<l, a[1]>>), Ir("TRAP", <<>>), LabelAt(l)>>)
LowerSymbolTest(name, a, n) ==
  Lowered(<<CompareIr(n, IF name = "symbol_eq" THEN "Equal" ELSE "NotEqual", a[1], a[2])>>, n, "Boolean")

(************************ graphs *******************************************)
(* The loops for graphs, which are string vectors that hold the two ends   *)
(* of each edge in turn.  Every loop works on a copy, drops an odd last    *)
(* entry, and takes edges off the end.                                     *)

(* The registers and labels the loops share. *)
Registers(n) ==
  [two |-> n, zero |-> n + 1, work |-> n + 2, len |-> n + 3, rem |-> n + 4, odd |-> n + 5,
   trimmed |-> n + 6, cur |-> n + 7, pair |-> n + 8, to |-> n + 9, noTo |-> n + 10,
   from |-> n + 11, noPair |-> n + 12, fromMatch |-> n + 13, toMatch |-> n + 14,
   result |-> n + 15, pushed |-> n + 16, rev |-> n + 17, revWork |-> n + 18,
   item |-> n + 19, popped |-> n + 20]
Labels(l) ==
  [trimmed |-> l, loop |-> l + 1, found |-> l + 2, done |-> l + 3, to |-> l + 4,
   keep |-> l + 5, after |-> l + 6, rebuild |-> l + 7, end |-> l + 8]

TrimOddTail(graph, r, l) ==
  <<Load(r.two, IntV(2)), Load(r.zero, IntV(0)), MoveIr(r.work, graph),
    Ir("VECLEN", <<r.len, r.work>>), Ir("MOD", <<r.rem, r.len, r.two>>),
    CompareIr(r.odd, "NotEqual", r.rem, r.zero), Ir("JZ", <<l.trimmed, r.odd>>),
    Ir("VECPOP", <<r.trimmed, r.work>>), MoveIr(r.work, r.trimmed), LabelAt(l.trimmed)>>
(* Leaves the loop when no edge is left, and takes the last one. *)
TakeLastEdge(r, l) ==
  <<LabelAt(l.loop), Ir("VECLEN", <<r.cur, r.work>>),
    CompareIr(r.pair, "GreaterEqual", r.cur, r.two), Ir("JZ", <<l.done, r.pair>>),
    Ir("VECLAST", <<r.to, r.work>>), Ir("VECPOP", <<r.noTo, r.work>>),
    Ir("VECLAST", <<r.from, r.noTo>>), Ir("VECPOP", <<r.noPair, r.noTo>>)>>
NextEdge(r, l) == <<MoveIr(r.work, r.noPair), Ir("JMP", <<l.loop>>)>>
PushOnto(vector, item, r) ==
  <<Ir("VECPUSH", <<r.pushed, vector, item>>), MoveIr(vector, r.pushed)>>

(* Mutant: the loop goes round without dropping the entry it has looked at. *)
FindEdgeStuck(a, result, r, l) ==
  <<Load(result, BoolV(FALSE)), LabelAt(l.loop), Ir("VECLEN", <<r.cur, r.work>>),
    CompareIr(r.pair, "GreaterEqual", r.cur, r.two), Ir("JZ", <<l.done, r.pair>>),
    Ir("VECLAST", <<r.to, r.work>>), CompareIr(r.toMatch, "Equal", r.to, a[3]),
    Ir("JZ", <<l.loop, r.toMatch>>), Load(result, BoolV(TRUE)), LabelAt(l.done)>>
(* Sets result when the edge is there. *)
FindEdge(a, result, r, l) ==
  <<Load(result, BoolV(FALSE))>> \o TakeLastEdge(r, l)
    \o <<CompareIr(r.fromMatch, "Equal", r.from, a[2]), Ir("JNZ", <<l.to, r.fromMatch>>)>>
    \o NextEdge(r, l)
    \o <<LabelAt(l.to), CompareIr(r.toMatch, "Equal", r.to, a[3]), Ir("JNZ", <<l.found, r.toMatch>>)>>
    \o NextEdge(r, l)
    \o <<LabelAt(l.found), Load(result, BoolV(TRUE)), LabelAt(l.done)>>
LowerHasEdge(a, n, m) ==
  LET r == Registers(n)
      l == Labels(m)
  IN Lowered(TrimOddTail(a[1], r, l) \o FindEdge(a, r.result, r, l), r.result, "Boolean")

(* The two ends of an edge, unless it is there already. *)
AppendEdge(a, r, l) ==
  <<Ir("JNZ", <<l.end, r.item>>)>> \o PushOnto(r.result, a[2], r) \o PushOnto(r.result, a[3], r)
    \o <<LabelAt(l.end)>>
(* A new edge goes behind the vector as it was given, odd tail included. *)
LowerAddEdge(a, n, m) ==
  LET r == Registers(n)
      l == Labels(m)
  IN Lowered(TrimOddTail(a[1], r, l) \o <<MoveIr(r.result, a[1])>> \o FindEdge(a, r.item, r, l)
               \o AppendEdge(a, r, l), r.result, "Unknown")

(* The kept entries, collected backwards, are turned round again. *)
Rebuild(r, l) ==
  <<LabelAt(l.done), Ir("STRVECNEW", <<r.result>>), MoveIr(r.revWork, r.rev),
    LabelAt(l.rebuild), Ir("VECLEN", <<r.cur, r.revWork>>),
    CompareIr(r.pair, "Greater", r.cur, r.zero), Ir("JZ", <<l.end, r.pair>>),
    Ir("VECLAST", <<r.item, r.revWork>>), Ir("VECPOP", <<r.popped, r.revWork>>)>>
    \o PushOnto(r.result, r.item, r)
    \o <<MoveIr(r.revWork, r.popped), Ir("JMP", <<l.rebuild>>), LabelAt(l.end)>>
KeepOthers(a, r, l) ==
  <<CompareIr(r.fromMatch, "Equal", r.from, a[2]), Ir("JNZ", <<l.to, r.fromMatch>>),
    Ir("JMP", <<l.keep>>), LabelAt(l.to), CompareIr(r.toMatch, "Equal", r.to, a[3]),
    Ir("JNZ", <<l.after, r.toMatch>>), Ir("JMP", <<l.keep>>), LabelAt(l.keep)>>
    \o PushOnto(r.rev, r.to, r) \o PushOnto(r.rev, r.from, r) \o <<LabelAt(l.after)>>
LowerRemoveEdge(a, n, m) ==
  LET r == Registers(n)
      l == Labels(m)
  IN Lowered(TrimOddTail(a[1], r, l) \o <<Ir("STRVECNEW", <<r.rev>>)>> \o TakeLastEdge(r, l)
               \o KeepOthers(a, r, l) \o NextEdge(r, l) \o Rebuild(r, l),
             r.result, "Unknown")
KeepTargets(a, r, l) ==
  <<CompareIr(r.fromMatch, "Equal", r.from, a[2]), Ir("JZ", <<l.keep, r.fromMatch>>)>>
    \o PushOnto(r.rev, r.to, r) \o <<Ir("JMP", <<l.after>>), LabelAt(l.keep), LabelAt(l.after)>>
LowerNeighbors(a, n, m) ==
  LET r == Registers(n)
      l == Labels(m)
  IN Lowered(TrimOddTail(a[1], r, l) \o <<Ir("STRVECNEW", <<r.rev>>)>> \o TakeLastEdge(r, l)
               \o KeepTargets(a, r, l) \o NextEdge(r, l) \o Rebuild(r, l),
             r.result, "Unknown")
LowerEdgeCount(a, n) ==
  Lowered(<<Ir("VECLEN", <<n, a[1]>>), Load(n + 1, IntV(2)), Ir("DIV", <<n + 2, n, n + 1>>)>>,
          n + 2, "Integer")

(* The code for a call whose result the analyser gave type t. *)
Lower(name, t, a, k, n, l) ==
  CASE name \in Direct -> LowerDirect(name, a, n)
    [] name \in Copying -> Lowered(<<MoveIr(n, a[1])>>, n, IF name \in {"bigint_from_int", "bigint_to_int"}
                                                            THEN "Integer" ELSE "Unknown")
    [] name \in DOMAIN InPlaceInstructions -> LowerInPlace(name, a, n)
    [] name \in DOMAIN Constants \cup Tokens -> LowerConstant(name, n)
    [] name \in {r \o "_" \o m : r \in {"symbolic", "polynomial"}, m \in {"rewrite", "canon"}} ->
         LowerSymbolic(name, a)
    [] name = "Tensor.from_list" -> Lowered(<<>>, a[1], k[1])
    [] name = "clamp" -> LowerClamp(a, k, n, l)
    [] name = "abs" -> LowerAbs(a, k, n, l)
    [] name = "frac_from_int" -> LowerFracFromInt(a, k, n)
    [] name = "tensor_dot" -> LowerDot(a, n)
    [] name = "option_unwrap_or" -> LowerUnwrapOr(t, a, k, n, l)
    [] name = "option_is_none" -> LowerNegatedTest("OPTION_IS_SOME", a, n)
    [] name = "result_is_err" -> LowerNegatedTest("RESULT_IS_OK", a, n)
    [] name \in DOMAIN Unwraps -> LowerUnwrap(name, t, a, n)
    [] name \in {"symbol_eq", "symbol_ne"} -> LowerSymbolTest(name, a, n)
    [] name \in {"T81Uint", "T81Qutrit"} -> LowerNarrowing(a, k, n)
    [] name \in TypeConstructors -> LowerConstructor(name, n)
    [] name \in DOMAIN GenericCallees -> LowerGenericConstructor(t, a, k, n)
    [] name \in SelfCalls -> LowerSelfCall(name, a, k, n)
    [] name \in {"sys_reflect", "agent_self_reflect"} -> LowerReflect(n)
    [] name \in {"async_yield", "async_sleep"} -> NoValue(<<>>)
    [] name = "core_assert" -> LowerAssert(a, l)
    [] name = "print" -> NoValue(<<Ir("PRINT", a)>>)
    [] name = "sys_exit" -> NoValue(<<Ir("TRAP", <<>>)>>)
    [] name = "collections_graph_edge_count" -> LowerEdgeCount(a, n)
    [] name = "collections_graph_has_edge" -> LowerHasEdge(a, n, l)
    [] name = "collections_graph_add_edge" -> LowerAddEdge(a, n, l)
    [] name = "collections_graph_remove_edge" -> LowerRemoveEdge(a, n, l)
    [] name = "collections_graph_neighbors" -> LowerNeighbors(a, n, l)
=============================================================================
