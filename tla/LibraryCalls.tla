---------------------------- MODULE LibraryCalls -----------------------------
(***************************************************************************)
(* One call of the standard library, from the analyser's judgement to the  *)
(* last instruction: the analyser accepts a name with argument types and   *)
(* gives a result type, the generator lowers the call, the emitter encodes *)
(* it, and the machine runs it.  The properties ask whether the four agree *)
(* on what a call means.                                                   *)
(***************************************************************************)
EXTENDS Lowering, Tisc

CONSTANTS
  Signatures(_),  \* the tuples of argument types that are tried with a name
  Inputs(_),      \* the values an expression of a type may have
  Objects         \* the vectors, maps, sets and tensors that handles name

VARIABLE call     \* name, argument types and values, and result type
vars == <<tiscVars, call>>

(* A register below 75 is as good as any: calls start at the first ones. *)
RegisterCount == 24

(* The calls the analyser accepts. *)
Accepted ==
  UNION {{<<p[1], CanonicalName(AnalyzerNames, p[1]), t>> :
            t \in {s \in Signatures(p[2]) : BuiltinTypes(CanonicalName(AnalyzerNames, p[1]), s) # {}}} :
         p \in GeneratorNames \cup BareNames}

Compiled(name, types, result) ==
  LET n == Len(types)
  IN Lower(name, result, [i \in 1..n |-> i], [i \in 1..n |-> categorize_primitive(types[i])], n + 1, 1)

Init ==
  \E c \in Accepted :
    \E result \in BuiltinTypes(c[2], c[3]) :
      LET lowered == Compiled(CanonicalName(GeneratorNames, c[1]), c[3], result)
          thrown == \E i \in DOMAIN lowered.ir : lowered.ir[i].op = "THROW"
      IN \E args \in {f \in [DOMAIN c[3] -> UNION {Inputs(c[3][i]) : i \in DOMAIN c[3]}] :
                         \A i \in DOMAIN f : f[i] \in Inputs(c[3][i])} :
           /\ call = [name |-> c[2], types |-> c[3], args |-> args, type |-> result,
                      dest |-> lowered.dest]
           /\ code = IF thrown THEN <<>> ELSE Emit(Append(lowered.ir, Ir("HALT", <<>>)))
           /\ trap = IF thrown THEN "Throw" ELSE "None"
           /\ reg = [r \in 1..RegisterCount |-> IF r \in DOMAIN args THEN args[r] ELSE IntV(0)]
           /\ pc = 1
           /\ pool = Objects
           /\ stack = <<>>

Next == (Step \/ (Done /\ UNCHANGED tiscVars)) /\ UNCHANGED call
Spec == Init /\ [][Next]_vars /\ WF_vars(Next)

(****************************** the outcome ********************************)
name == call.name
types == call.types
args == call.args
result == reg[call.dest]
Halted == trap = "Halt"
ObjectOf(x) == Objects[x.n].data          \* as it was when the call was made
Given(i) == ObjectOf(args[i])
In(prefix, names) == name \in {prefix \o m : m \in names}
Holds(x) == x.n = 1
IsToken(i) == args[i].tag = "Token"
Kinds == {types[i].kind : i \in DOMAIN types}

(* The tags a value of a type may have in a register; a comparison leaves  *)
(* its truth as an integer.                                                *)
CustomTags ==
  [T81Symbolic |-> "Graph", T81Polynomial |-> "Graph", T81Agent |-> "Reflection", T81Time |-> "Float",
   T81Entropy |-> "Int", T81Promise |-> "Token"]
RECURSIVE Represents(_, _)
Represents(x, t) ==
  CASE t.kind = "Void" -> TRUE
    [] IsInteger(t) \/ t.kind = "Fixed" -> x.tag = "Int"
    [] t.kind = "Bool" -> x.tag \in {"Bool", "Int"} /\ x.n \in {0, 1}
    [] t.kind \in {"Float", "Fraction", "Tensor"} -> x.tag = t.kind
    [] t.kind \in {"String", "Bytes", "Symbol"} -> IsText(x)
    [] t.kind = "Complex" -> x.tag = "Complex"
    [] t.kind \in {"Map", "Set", "List", "Tree"} \/ t = VectorOf(Text) \/ t = VectorOf(Bytes) -> IsVec(x)
    [] t.kind = "Vector" -> x.tag = "Tensor" /\ Len(pool[x.n].shape) = 1
    [] t.kind = "Unknown" -> TRUE
    [] t.kind = "Option" -> x.tag = "Option" /\ (x.inner = <<>> \/ Represents(x.inner[1], t.params[1]))
    [] t.kind = "Result" -> x.tag = "Result" /\ Represents(x.inner[1], t.params[2 - x.n])
    [] t.kind = "Custom" -> x.tag = CustomTags[t.name]

(************************ what a call may refuse ***************************)
(* The calls whose argument's number is zero, box empty, and so on.  The   *)
(* last group is refused although the analyser accepted it: the generator  *)
(* converts no argument of these, and a token is not the symbol it prints. *)
Vectors == In("collections_", {"first", "last", "pop"})
GraphCall == In("collections_graph_", {"has_edge", "add_edge", "remove_edge", "neighbors"})
FloatCall == name \in DOMAIN FloatInstructions \cup {"frac_from_float"}
FractionCall == name \in DOMAIN FractionInstructions \cup {"frac_to_int"}
Conforming ==
  /\ \A i \in DOMAIN args : args[i].tag = "Tensor"
  /\ LET s == Objects[args[1].n].shape
         t == Objects[args[2].n].shape
     IN CASE name = "tensor_dot" -> Len(s) = 1 /\ s = t
          [] name = "Tensor.vec_add" -> Volume(s) = Volume(t)
          [] name = "Tensor.matmul" -> Len(s) = 2 /\ Len(t) = 2 /\ s[2] = t[1]
WrongRepresentation ==
  \/ FloatCall /\ name \notin {"frac_from_float", "frac_to_float"} /\ Kinds # {"Float"}
  \/ name = "frac_from_float" /\ Kinds # {"Float"}
  \/ (FractionCall \/ name = "frac_to_float") /\ name # "frac_from_float" /\ Kinds # {"Fraction"}
  \/ name = "abs" /\ Kinds = {"Fraction"}
  \/ name = "collections_push" /\ args[2].tag # (IF IsVec(args[1]) THEN "Symbol" ELSE "Int")
  \/ name \in {"symbol_eq", "symbol_ne"} /\ args[1].tag # args[2].tag
  \/ In("symbolic_", {"rewrite"}) /\ (IsToken(2) \/ IsToken(3))
  \/ In("polynomial_", {"rewrite"}) /\ (IsToken(2) \/ IsToken(3))
Foreseen ==
  CASE name = "clamp" /\ "Fraction" \in Kinds -> {"Throw"}
    [] WrongRepresentation -> {"TypeFault"}
    [] name = "optimize" /\ Len(args) # 1 -> {"Throw"}
    [] name = "read_code" -> {"Halt", "BoundsFault"}
    [] name \in {"FixedPoint", "ComplexPoint"}
         /\ (\E i \in DOMAIN args : args[i].tag = "Fraction" /\ args[i].n % 2 = 1) -> {"DecodeFault"}
    [] name = "frac_div" /\ args[2].n = 0 -> {"DivisionFault"}
    [] name = "frac_to_int" /\ args[1].n % 2 = 1 -> {"DecodeFault"}
    [] Vectors /\ Given(1) = <<>> -> {"TypeFault"}
    [] name \in {"str_split", "bytes_split"} /\ args[2].text = <<>> -> {"TypeFault"}
    [] name \in {"option_unwrap", "result_unwrap"} /\ ~Holds(args[1]) -> {"DecodeFault"}
    [] name = "result_unwrap_err" /\ Holds(args[1]) -> {"DecodeFault"}
    [] name = "sys_exit" \/ (name = "core_assert" /\ ~Holds(args[1])) -> {"TrapInstruction"}
    [] name \in {"tensor_dot", "Tensor.vec_add", "Tensor.matmul"} /\ ~Conforming ->
         IF "I32" \notin Kinds THEN {"ShapeFault"}
         ELSE IF name = "tensor_dot" THEN {"TypeFault"} ELSE {"Halt", "DecodeFault", "ShapeFault"}
    [] GraphCall /\ (\E i \in DOMAIN args : IsToken(i)) -> {"Halt", "TypeFault"}
    [] OTHER -> {"Halt"}

(* A call the analyser accepts fails in the machine only for a value the   *)
(* types cannot rule out, or where the generator is known not to convert   *)
(* (semantic_analyzer.cpp 2393-3611 against vm.cpp).                       *)
FaultsForeseen == Done => trap \in Foreseen

(* What a call returns is represented as the analyser's type for it says.  *)
(* Four do not keep to it: a float vector hands out integers, a tensor     *)
(* made of a text vector or of a number stays what it was, the default of  *)
(* an option of floats is not converted, and optimize, said to be an       *)
(* integer, hands its argument back.                                       *)
ResultRepresents ==
  Halted => \/ Represents(result, call.type)
            \/ In("collections_", {"first", "last"}) /\ types[1] = VectorOf(Float)
            \/ name = "Tensor.from_list" /\ args[1].tag # "Tensor"
            \/ name = "optimize" /\ types[1] # I32
            \/ name = "option_unwrap_or" /\ types[1].params[1] # types[2]

(* Arguments are passed by value: no call changes its arguments or what    *)
(* they name, except the updates of a map or a set, which change the first *)
(* argument's object for every variable that shares it, and refine, which  *)
(* leaves its success in the register of its first argument.               *)
Updates == In("collections_", {"map_put", "map_remove", "set_add", "set_remove"})
ArgumentsKept ==
  /\ \A i \in DOMAIN args : reg[i] = args[i] \/ (name = "refine" /\ i = 1 /\ reg[i] = IntV(1))
  /\ \A h \in DOMAIN Objects : pool[h] # Objects[h] => Updates /\ h = args[1].n

(*************************** what a call means *****************************)
(* Maps and sets: the updates are those of a function and of a set, the    *)
(* keys keep their order, and the result is the argument itself.           *)
AsMap(d) ==
  LET pairs == 1..(Len(d) \div 2)
  IN [k \in {d[2 * i - 1] : i \in pairs} |-> d[2 * Min({i \in pairs : d[2 * i - 1] = k})]]
WellFormed(d, step) == \A i, j \in {n \in DOMAIN d : n % step = 1 % step} : d[i] = d[j] => i = j
DictionaryMeaning ==
  (Halted /\ Kinds \cap {"Map", "Set"} # {} /\ name \notin SelfCalls) =>
    LET old == Given(1)
        new == pool[args[1].n].data
        key == args[2].text
        Is(m) == name = "collections_" \o m
        map == AsMap(old)
        Without(k) == [j \in DOMAIN map \ {k} |-> map[j]]
    IN CASE Is("map_put") -> /\ AsMap(new) = (key :> args[3].text) @@ map
                             /\ WellFormed(new, 2) /\ result = args[1]
         [] Is("map_remove") -> AsMap(new) = Without(key) /\ WellFormed(new, 2) /\ result = args[1]
         [] Is("map_get") -> result = IF key \in DOMAIN map THEN SomeV(TextV(map[key])) ELSE NoneV
         [] Is("map_has") -> Holds(result) = (key \in DOMAIN map)
         [] Is("map_size") -> result.n = Cardinality(DOMAIN map)
         [] Is("map_keys") -> Range(Data(result)) = DOMAIN map /\ WellFormed(Data(result), 1)
         [] Is("set_add") -> /\ Range(new) = Range(old) \cup {key}
                             /\ WellFormed(new, 1) /\ result = args[1]
         [] Is("set_remove") -> /\ Range(new) = Range(old) \ {key}
                                /\ WellFormed(new, 1) /\ result = args[1]
         [] Is("set_has") -> Holds(result) = (key \in Range(old))
         [] Is("set_size") -> result.n = Cardinality(Range(old))

(* Graphs: the generated loops agree with the list of edges.  A new edge   *)
(* is told apart from the old ones only when the vector had no odd entry.  *)
Edges(d) == [i \in 1..(Len(d) \div 2) |-> <<d[2 * i - 1], d[2 * i]>>]
GraphMeaning ==
  (Halted /\ name \in {"collections_graph_" \o m : m \in {"edge_count", "has_edge", "add_edge",
                                                          "remove_edge", "neighbors"}}) =>
    LET old == Edges(Given(1))
        edge == <<args[2].text, args[3].text>>
        From(e) == e[1] = args[2].text
        Is(m) == name = "collections_graph_" \o m
    IN CASE Is("edge_count") -> result.n = Len(old)
         [] Is("has_edge") -> Holds(result) = Contains(old, edge)
         [] Is("add_edge") ->
              CASE Contains(old, edge) -> Data(result) = Given(1)
                [] Len(Given(1)) % 2 = 0 -> Edges(Data(result)) = Append(old, edge)
                [] OTHER -> Len(Edges(Data(result))) = Len(old) + 1
         [] Is("remove_edge") -> /\ Edges(Data(result)) = SelectSeq(old, LAMBDA e : e # edge)
                                 /\ Len(Data(result)) % 2 = 0
         [] Is("neighbors") ->
              LET found == SelectSeq(old, From) IN Data(result) = [i \in DOMAIN found |-> found[i][2]]

(* Texts and bytes: what each call says of its operands, in their order. *)
Scan(s, t, u) ==
  LET Replaced[i \in 1..(Len(s) + 1)] ==
        IF i > Len(s) THEN <<>>
        ELSE IF t # <<>> /\ OccursAt(s, t, i) THEN u \o Replaced[i + Len(t)]
        ELSE <<s[i]>> \o Replaced[i + 1]
  IN Replaced[1]
TextMeaning ==
  (Halted /\ \E p \in {"str_", "bytes_"} :
               In(p, {"len", "is_empty", "concat", "starts_with", "ends_with", "contains",
                      "index_of", "replace", "split", "join"})) =>
    LET Is(m) == name \in {"str_" \o m, "bytes_" \o m}
        s == args[1].text
        t == args[2].text
        prefixes == {i \in 0..Len(s) : OccursAt(s, t, i + 1)}
    IN CASE Is("len") -> result.n = Len(s)
         [] Is("is_empty") -> Holds(result) = (s = <<>>)
         [] Is("concat") -> result.text = s \o t
         [] Is("starts_with") -> Holds(result) = (0 \in prefixes)
         [] Is("ends_with") -> Holds(result) = (Len(s) - Len(t) \in prefixes)
         [] Is("contains") -> Holds(result) = (prefixes # {})
         [] Is("index_of") -> IF prefixes = {} THEN result.n = -1
                              ELSE result.n \in prefixes /\ \A i \in prefixes : result.n <= i
         [] Is("replace") -> result.text = Scan(s, t, args[3].text)
         [] Is("split") -> /\ JoinTexts(Data(result), t) = s
                           /\ \A i \in DOMAIN Data(result) : Occurrences(Data(result)[i], t) = {}
         [] Is("join") -> result.text = FlattenSeq([i \in DOMAIN Given(1) |->
                            IF i = 1 THEN Given(1)[i] ELSE t \o Given(1)[i]])

(* Numbers, options and results: clamping stays between ordered bounds,    *)
(* conversions keep the number, tests and defaults follow the box.         *)
Halves(x) == IF x.tag \in {"Float", "Fraction"} THEN x.n ELSE 2 * x.n
ScalarMeaning ==
  Halted =>
    LET x == args[1]
        h == Halves(x)
        low == Halves(args[2])
        high == Halves(args[3])
        Is(m) == name = m
    IN CASE Is("clamp") -> (low <= high) => result = FloatV(IF h < low THEN low ELSE
                                                            IF h > high THEN high ELSE h)
         [] Is("abs") -> Halves(result) = (IF h < 0 THEN -h ELSE h) /\ result.tag = x.tag
         [] Is("frac_from_int") -> result = FracV(2 * x.n)
         [] Is("frac_to_int") -> 2 * result.n = x.n
         [] Is("frac_add") -> result.n = x.n + args[2].n
         [] Is("frac_sub") -> result.n = x.n - args[2].n
         [] Is("frac_from_float") \/ Is("frac_to_float") -> result.n = x.n
         [] name \in Copying -> result = x
         [] In("option_", {"is_some"}) \/ In("result_", {"is_ok"}) -> Holds(result) = Holds(x)
         [] In("option_", {"is_none"}) \/ In("result_", {"is_err"}) -> Holds(result) = ~Holds(x)
         [] Is("option_unwrap_or") -> result = IF Holds(x) THEN x.inner[1] ELSE args[2]
         [] name \in DOMAIN Unwraps -> result = x.inner[1]
         [] Is("symbol_eq") -> Holds(result) = (x = args[2])
         [] Is("symbol_ne") -> Holds(result) = (x # args[2])
         [] OTHER -> TRUE

(* Every call means what its name says, by itself and on every kind of      *)
(* argument its name is defined for; its value is of the analyser's type,   *)
(* and on the way it leaves its arguments alone.                            *)
CallsMean ==
  DictionaryMeaning /\ GraphMeaning /\ TextMeaning /\ ScalarMeaning /\ ResultRepresents /\ ArgumentsKept

(* Every call comes to an end, the loops over graphs included. *)
Terminates == <>Done
=============================================================================
