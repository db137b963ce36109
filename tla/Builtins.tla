------------------------------ MODULE Builtins ------------------------------
(***************************************************************************)
(* The standard library calls of T81Lang: the name each std.* call is      *)
(* reduced to, and the arguments and result the analyser gives it          *)
(* (lang/frontend/semantic_analyzer.cpp).                                  *)
(***************************************************************************)
EXTENDS Types, Values

(****************************** names **************************************)
Named(prefix, short, names) == {<<prefix \o m, short \o m>> : m \in names}
Renamed(prefix, pairs) == {<<prefix \o p[1], p[2]>> : p \in pairs}

FloatFunctionNames ==
  {"sin", "cos", "tan", "asin", "acos", "atan", "sinh", "cosh", "tanh", "exp", "log", "sqrt"}
MathNames ==
  Named("std.math.", "", FloatFunctionNames \cup {"pow", "clamp", "abs"})
    \cup Named("std.math.bigint.", "bigint_", {"from_int", "to_int", "add", "mul"})
    \cup Named("std.math.fraction.", "frac_",
               {"add", "sub", "mul", "div", "from_int", "to_int", "from_float", "to_float"})
CoreNames ==
  Renamed("std.core.", {<<"assert", "core_assert">>, <<"debug", "print">>,
                        <<"unwrap_or", "option_unwrap_or">>})
    \cup Named("std.option.", "option_", {"is_some", "is_none", "unwrap"})
    \cup Named("std.result.", "result_", {"is_ok", "is_err", "unwrap", "unwrap_err"})
    \cup Renamed("std.io.", {<<"println", "print">>, <<"stream", "io_stream">>, <<"net", "io_net">>})
SystemNames ==
  Named("std.sys.", "sys_", {"exit", "time", "entropy", "proof", "reflect"})
    \cup Named("std.async.", "async_", {"yield", "sleep", "thread", "promise"})
    \cup Named("std.agent.", "agent_", {"self_reflect"})
    \cup Named("std.symbolic.", "symbolic_", {"load", "rewrite", "canon", "confluent"})
    \cup Named("std.polynomial.", "polynomial_", {"load", "rewrite", "canon", "confluent"})
TextNames ==
  Renamed("std.text.", {<<"str_len", "str_len">>, <<"str_is_empty", "str_is_empty">>,
                        <<"to_string", "str_to_string">>, <<"from_bytes", "str_to_string">>})
    \cup Named("std.text.", "str_", {"concat", "starts_with", "ends_with", "contains", "index_of",
                                     "replace", "split", "join"})
    \cup Named("std.bytes.", "bytes_", {"len", "is_empty", "concat", "starts_with", "ends_with",
                                        "contains", "index_of", "replace", "split", "join"})
    \cup Renamed("std.bytes.", {<<"to_string", "str_to_string">>, <<"from_string", "T81Bytes">>})
CollectionNames ==
  Named("std.collections.", "collections_",
        {"len", "is_empty", "first", "last", "push", "pop", "list", "tree", "graph",
         "map", "map_put", "map_get", "map_has", "map_remove", "map_size", "map_keys",
         "set", "set_size", "set_has", "set_add", "set_remove",
         "graph_edge_count", "graph_has_edge", "graph_add_edge", "graph_remove_edge",
         "graph_neighbors"})
    \cup Renamed("std.tensor.", {<<"from_list", "Tensor.from_list">>, <<"matmul", "Tensor.matmul">>,
                                 <<"vec_add", "Tensor.vec_add">>, <<"dot_product", "tensor_dot">>})
    \cup Named("std.symbol.", "symbol_", {"intern", "to_string", "eq", "ne"})
(* TypeConstructors and the calls on the program itself have no std name. *)
TypeConstructors == {"T81Maybe", "T81Promise", "T81Agent", "T81Polynomial", "T81Symbolic", "T81Time",
                 "T81Entropy", "T81Uint", "T81Qutrit"}
SelfCalls == {"read_code", "write_code", "refine", "observe_performance", "optimize"}
(* The analyser and the generator each keep the table; the generator's     *)
(* also names the tier-four calls, which the analyser therefore rejects.   *)
AnalyzerNames == MathNames \cup CoreNames \cup SystemNames \cup TextNames \cup CollectionNames
GeneratorNumberNames == CoreNames \cup MathNames
GeneratorServiceNames ==
  SystemNames \cup Named("std.distributed.", "dist_", {"gossip", "merge", "sync", "coherence", "seal"})
GeneratorTextNames == TextNames
GeneratorCollectionNames == CollectionNames
GeneratorNames ==
  GeneratorNumberNames \cup GeneratorServiceNames \cup GeneratorTextNames \cup GeneratorCollectionNames
CanonicalName(table, name) ==
  IF \E p \in table : p[1] = name THEN (CHOOSE p \in table : p[1] = name)[2] ELSE name

(************************** the analyser's types ***************************)
Text == Basic("String")
Bytes == Basic("Bytes")
BigInt == Basic("BigInt")
Fraction == Basic("Fraction")
Void == Basic("Void")
Symbol == Basic("Symbol")
TextMap == Type("Map", <<Text, Text>>)
TextSet == Type("Set", <<Text>>)

Are(t, kinds) == Len(t) = Len(kinds) /\ \A i \in DOMAIN t : t[i].kind = kinds[i]
Fit(t, types) == Len(t) = Len(types) /\ \A i \in DOMAIN t : IsAssignable(types[i], t[i])
(* The first applicable rule gives the result. *)
Rule(applies, result) == IF applies THEN {result} ELSE {}

FloatRules(name, t) ==
  Rule(name \in FloatFunctionNames /\ Fit(t, <<Float>>), Float)
    \cup Rule(name = "pow" /\ Fit(t, <<Float, Float>>), Float)
    \cup Rule(name = "clamp" /\ Fit(t, <<Float, Float, Float>>), Float)
    \cup Rule(name = "abs" /\ Len(t) = 1 /\ IsNumeric(t[1]), t[1])
BigIntRules(name, t) ==
  Rule(name = "bigint_from_int" /\ Len(t) = 1 /\ IsInteger(t[1]), BigInt)
    \cup Rule(name = "bigint_to_int" /\ Are(t, <<"BigInt">>), I32)
    \cup Rule(name \in {"bigint_add", "bigint_mul"} /\ Len(t) = 2 /\ IsNumeric(t[1]) /\ IsNumeric(t[2]),
              BigInt)
FractionRules(name, t) ==
  Rule(name \in {"frac_add", "frac_sub", "frac_mul", "frac_div"} /\ Fit(t, <<Fraction, Fraction>>),
       Fraction)
    \cup Rule(name = "frac_from_int" /\ Len(t) = 1 /\ IsInteger(t[1]), Fraction)
    \cup Rule(name = "frac_to_int" /\ Fit(t, <<Fraction>>), I32)
    \cup Rule(name = "frac_from_float" /\ Fit(t, <<Float>>), Fraction)
    \cup Rule(name = "frac_to_float" /\ Fit(t, <<Fraction>>), Float)

IsTensorArg(t) == t.kind \in {"Tensor", "I32"}
TensorRules(name, t) ==
  Rule(name = "tensor_dot" /\ Len(t) = 2 /\ IsTensorArg(t[1]) /\ IsTensorArg(t[2]), I32)
    \cup Rule(name \in {"Tensor.matmul", "Tensor.vec_add"} /\ Len(t) = 2 /\ IsTensorArg(t[1])
                /\ IsTensorArg(t[2]), Basic("Tensor"))
    \cup Rule(name = "Tensor.from_list" /\ Len(t) = 1 /\ t[1].kind \in {"Vector", "I32"},
              Basic("Tensor"))

BoxRules(name, t) ==
  LET option == Len(t) >= 1 /\ t[1].kind = "Option"
      result == Are(t, <<"Result">>)
      payload == ParamOf(t[1], 1)
  IN Rule(name = "option_unwrap_or" /\ option /\ Len(t) = 2
            /\ (payload.kind = "Unknown" \/ IsAssignable(payload, t[2])),
          IF payload.kind = "Unknown" THEN t[2] ELSE payload)
       \cup Rule(name \in {"option_is_some", "option_is_none"} /\ option /\ Len(t) = 1, Bool)
       \cup Rule(name = "option_unwrap" /\ option /\ Len(t) = 1, payload)
       \cup Rule(name \in {"result_is_ok", "result_is_err"} /\ result, Bool)
       \cup Rule(name = "result_unwrap" /\ result, payload)
       \cup Rule(name = "result_unwrap_err" /\ result, ParamOf(t[1], 2))

(* TypeConstructors take nothing, but for the two that narrow an integer. *)
ConstructorRules(name, t) ==
  Rule(name = "T81Maybe" /\ t = <<>>, OptionOf(Unknown))
    \cup Rule(name \in TypeConstructors \ {"T81Maybe", "T81Uint", "T81Qutrit"} /\ t = <<>>, Custom(name))
    \cup Rule(name = "T81Uint" /\ Len(t) = 1 /\ IsInteger(t[1]), Basic("Uint"))
    \cup Rule(name = "T81Qutrit" /\ Len(t) = 1 /\ IsInteger(t[1]), Basic("Qutrit"))
(* Types with parameters, called under the name they are written with. *)
GenericCallees ==
  [ListOfTexts |-> Type("List", <<Text>>), MapOfNumbers |-> Type("Map", <<Text, I32>>),
   SetOfTexts |-> TextSet, TreeOfTexts |-> Type("Tree", <<Text>>), MaybeNumber |-> OptionOf(I32),
   PromiseOfText |-> Custom("T81Promise"), FixedPoint |-> Basic("Fixed"), ComplexPoint |-> Basic("Complex")]
GenericRules(name, t) ==
  IF name \notin DOMAIN GenericCallees THEN {}
  ELSE LET made == GenericCallees[name]
           numeric == \A i \in DOMAIN t : IsNumeric(t[i])
           arity == IF made.kind = "Fixed" THEN 1 ELSE IF made.kind = "Complex" THEN 2 ELSE 0
       IN Rule(Len(t) = arity /\ numeric, made)
(* Two of these do not look at what they are given at all. *)
SelfRules(name, t) ==
  Rule((name = "read_code" /\ Len(t) = 1) \/ (name = "refine" /\ Len(t) = 2), I32)
    \cup Rule(name = "write_code" /\ Len(t) = 2, Void)
    \cup Rule(name \in {"observe_performance", "optimize"}, I32)
ServiceRules(name, t) ==
  Rule(name = "sys_exit" /\ Are(t, <<"I32">>), Void)
    \cup Rule(name = "sys_time" /\ t = <<>>, Float)
    \cup Rule(name = "sys_entropy" /\ t = <<>>, I32)
    \cup Rule(name \in {"sys_proof", "io_stream", "io_net", "async_thread", "async_promise"} /\ t = <<>>,
              Text)
    \cup Rule(name \in {"sys_reflect", "async_yield", "agent_self_reflect"} /\ t = <<>>, Void)
    \cup Rule(name = "async_sleep" /\ Fit(t, <<Float>>), Void)
SymbolicRules(name, t) ==
  LET root == Custom(IF name \in {"symbolic_" \o m : m \in {"load", "rewrite", "canon", "confluent"}}
                     THEN "T81Symbolic" ELSE "T81Polynomial")
      Of(m) == name \in {"symbolic_" \o m, "polynomial_" \o m}
  IN Rule(Of("load") /\ Are(t, <<"String">>), root)
       \cup Rule(Of("rewrite") /\ Len(t) = 3 /\ t[1] = root /\ t[2] = Text /\ t[3] = Text, root)
       \cup Rule(Of("canon") /\ t = <<root>>, root)
       \cup Rule(Of("confluent") /\ t = <<root>>, Bool)
OutputRules(name, t) ==
  Rule(name = "print" /\ Len(t) = 1
         /\ (IsPrimitiveNumeric(t[1]) \/ t[1].kind \in {"String", "Bytes", "Bool"}), Void)
    \cup Rule(name = "core_assert" /\ Are(t, <<"Bool">>), Void)

(* What texts and bytes have in common. *)
SequenceRules(name, t, s, prefix) ==
  LET Is(m) == name = prefix \o m
      two == t = <<s, s>>
  IN Rule(Is("len") /\ t = <<s>>, I32)
       \cup Rule(Is("is_empty") /\ t = <<s>>, Bool)
       \cup Rule(Is("concat") /\ two, s)
       \cup Rule((Is("starts_with") \/ Is("ends_with") \/ Is("contains")) /\ two, Bool)
       \cup Rule(Is("index_of") /\ two, I32)
       \cup Rule(Is("replace") /\ t = <<s, s, s>>, s)
       \cup Rule(Is("split") /\ two, VectorOf(s))
       \cup Rule(Is("join") /\ t = <<VectorOf(s), s>>, s)
TextRules(name, t) ==
  SequenceRules(name, t, Text, "str_")
    \cup Rule(name = "str_to_string" /\ (t = <<Text>> \/ t = <<Bytes>>), Text)
BytesRules(name, t) ==
  SequenceRules(name, t, Bytes, "bytes_")
    \cup Rule(name = "T81Bytes" /\ (t = <<Text>> \/ t = <<Bytes>>), Bytes)
SymbolRules(name, t) ==
  Rule(name = "symbol_intern" /\ t = <<Text>>, Symbol)
    \cup Rule(name = "symbol_to_string" /\ t = <<Symbol>>, Text)
    \cup Rule(name \in {"symbol_eq", "symbol_ne"} /\ t = <<Symbol, Symbol>>, Bool)

VectorRules(name, t) ==
  LET Is(m) == name = "collections_" \o m
      vector == Len(t) >= 1 /\ t[1].kind = "Vector"
      typed == vector /\ t[1].params # <<>>
  IN Rule(Is("len") /\ vector /\ Len(t) = 1, I32)
       \cup Rule(Is("is_empty") /\ vector /\ Len(t) = 1, Bool)
       \cup Rule((Is("first") \/ Is("last")) /\ typed /\ Len(t) = 1, ParamOf(t[1], 1))
       \cup Rule(Is("push") /\ typed /\ Len(t) = 2 /\ IsAssignable(ParamOf(t[1], 1), t[2]), t[1])
       \cup Rule(Is("pop") /\ typed /\ Len(t) = 1, t[1])
       \cup Rule(Is("list") /\ t = <<>>, Type("List", <<Text>>))

Keyed(t, kind) == Len(t) = 2 /\ t[1].kind = kind /\ t[2] = Text
MapRules(name, t) ==
  LET Is(m) == name = "collections_" \o m
      keyed == Keyed(t, "Map")
  IN Rule(Is("map") /\ t = <<>>, TextMap)
       \cup Rule(Is("map_size") /\ Are(t, <<"Map">>), I32)
       \cup Rule(Is("map_has") /\ keyed, Bool)
       \cup Rule(Is("map_put") /\ Len(t) = 3 /\ t[1].kind = "Map" /\ Tail(t) = <<Text, Text>>, t[1])
       \cup Rule(Is("map_get") /\ keyed, OptionOf(ParamOf(t[1], 2)))
       \cup Rule(Is("map_remove") /\ keyed, t[1])
       \cup Rule(Is("map_keys") /\ Are(t, <<"Map">>), VectorOf(Text))
SetRules(name, t) ==
  LET Is(m) == name = "collections_" \o m
  IN Rule(Is("set") /\ t = <<>>, TextSet)
       \cup Rule(Is("set_size") /\ Are(t, <<"Set">>), I32)
       \cup Rule(Is("set_has") /\ Keyed(t, "Set"), Bool)
       \cup Rule((Is("set_add") \/ Is("set_remove")) /\ Keyed(t, "Set"), t[1])
GraphRules(name, t) ==
  LET Is(m) == name = "collections_" \o m
      edge == t = <<VectorOf(Text), Text, Text>>
  IN Rule((Is("tree") \/ Is("graph")) /\ t = <<>>, VectorOf(Text))
       \cup Rule(Is("graph_edge_count") /\ t = <<VectorOf(Text)>>, I32)
       \cup Rule(Is("graph_has_edge") /\ edge, Bool)
       \cup Rule((Is("graph_add_edge") \/ Is("graph_remove_edge")) /\ edge, VectorOf(Text))
       \cup Rule(Is("graph_neighbors") /\ t = <<VectorOf(Text), Text>>, VectorOf(Text))

(* Names that are written as they are looked up. *)
BareNames == {<<m, m>> : m \in TypeConstructors \cup SelfCalls \cup DOMAIN GenericCallees}

(* The rules exclude each other. *)
BuiltinTypes(name, t) ==
  FloatRules(name, t) \cup BigIntRules(name, t) \cup FractionRules(name, t) \cup TensorRules(name, t)
    \cup BoxRules(name, t) \cup ConstructorRules(name, t) \cup GenericRules(name, t)
    \cup SelfRules(name, t)
    \cup ServiceRules(name, t) \cup SymbolicRules(name, t) \cup OutputRules(name, t)
    \cup TextRules(name, t) \cup BytesRules(name, t) \cup SymbolRules(name, t)
    \cup VectorRules(name, t) \cup MapRules(name, t) \cup SetRules(name, t) \cup GraphRules(name, t)
=============================================================================
