------------------------------- MODULE Types --------------------------------
(***************************************************************************)
(* The types of the T81Lang analyser and the relations it decides on them  *)
(* (lang/frontend/semantic_analyzer.cpp): what may be assigned to what,    *)
(* which type two numeric operands share, and how a declared type takes    *)
(* missing parameters from its initialiser or its context.                 *)
(***************************************************************************)
EXTENDS Integers, SequencesExt

(* A type has a kind, parameters, and a name when it is a record, an enum, *)
(* or one of the runtime's opaque types.                                   *)
Type(kind, params) == [kind |-> kind, params |-> params, name |-> ""]
Basic(kind) == Type(kind, <<>>)
Custom(name) == [kind |-> "Custom", params |-> <<>>, name |-> name]
Unknown == Basic("Unknown")
Error == Basic("Error")
Bool == Basic("Bool")
I32 == Basic("I32")
Float == Basic("Float")
VectorOf(t) == Type("Vector", <<t>>)
OptionOf(t) == Type("Option", <<t>>)
ResultOf(t, e) == Type("Result", <<t, e>>)

(* A parameter that is not there counts as Unknown. *)
ParamOf(t, i) == IF i \in DOMAIN t.params THEN t.params[i] ELSE Unknown

NumericOrder ==
  <<"Qutrit", "I2", "I8", "I16", "I32", "Uint", "BigInt", "Fraction", "Fixed", "Float">>
NumericRank(t) ==
  IF t.kind \in Range(NumericOrder)
  THEN CHOOSE i \in DOMAIN NumericOrder : NumericOrder[i] = t.kind
  ELSE 0
IsNumeric(t) == NumericRank(t) > 0
IsInteger(t) == NumericRank(t) \in 1..7
IsPrimitiveNumeric(t) == IsInteger(t) \/ t.kind \in {"Float", "Fraction", "Fixed"}

(* Is a value of type v accepted where type t is expected? *)
RECURSIVE IsAssignable(_, _)
StructuralParamsAssignable(t, v) ==
  LET nt == Len(t.params)
      nv == Len(v.params)
  IN /\ nt = 0 \/ nv = 0 \/ nt = nv
     /\ \A i \in 1..(IF nt > nv THEN nt ELSE nv) : IsAssignable(ParamOf(t, i), ParamOf(v, i))
IsAssignable(t, v) ==
  CASE t.kind \in {"Error", "Unknown"} \/ v.kind \in {"Error", "Unknown"} -> TRUE
    [] t = v -> TRUE
    [] t.kind = "Option" /\ v.kind = "Option" -> IsAssignable(ParamOf(t, 1), ParamOf(v, 1))
    [] t.kind = "Result" /\ v.kind = "Result" ->
         \A i \in 1..2 : IsAssignable(ParamOf(t, i), ParamOf(v, i))
    [] t.kind = "Fixed" /\ IsInteger(v) -> TRUE
    [] t.kind = "Qutrit" /\ IsInteger(v) -> v.kind # "BigInt"
    [] IsNumeric(t) /\ IsNumeric(v) -> NumericRank(v) <= NumericRank(t)
    [] t.kind = v.kind /\ (t.params # <<>> \/ v.params # <<>>) ->
         t.name = v.name /\ StructuralParamsAssignable(t, v)
    [] OTHER -> t.kind = "Custom" /\ v.kind = "Custom" /\ t.name = v.name

(* The type two operands share, or Error. *)
DeduceNumericType(l, r, op) ==
  LET Either(a, P(_)) == (l.kind = a /\ P(r)) \/ (r.kind = a /\ P(l))
      IsFloat(t) == t.kind = "Float"
  IN CASE "Error" \in {l.kind, r.kind} -> Error
       [] "Unknown" \in {l.kind, r.kind} -> Unknown
       [] l.kind = r.kind /\ l.kind \in {"Complex", "Fixed", "Float", "Fraction"} -> l
       [] Either("Fixed", IsInteger) -> IF l.kind = "Fixed" THEN l ELSE r
       [] Either("Fixed", IsFloat) -> Float
       [] ~IsPrimitiveNumeric(l) \/ ~IsPrimitiveNumeric(r) -> Error
       [] IsInteger(l) /\ IsInteger(r) ->
            IF op = "-" /\ "Uint" \in {l.kind, r.kind} THEN Basic("BigInt")
            ELSE IF NumericRank(l) >= NumericRank(r) THEN l ELSE r
       [] Either("Float", IsInteger) \/ Either("Fraction", IsInteger) ->
            IF IsInteger(l) THEN r ELSE l
       [] OTHER -> Error

WidenNumeric(l, r, op) ==
  IF op = "%" /\ "Unknown" \notin {l.kind, r.kind} /\ (~IsInteger(l) \/ ~IsInteger(r))
  THEN Error ELSE DeduceNumericType(l, r, op)

(* The type of a declaration whose initialiser knows parameters the        *)
(* declaration leaves open.                                                *)
RefineGenericType(declared, init) ==
  IF declared.kind # init.kind \/ declared.kind = "Unknown" THEN declared
  ELSE LET n == CASE declared.kind = "Option" ->
                       IF declared.params = <<>> THEN Len(init.params) ELSE Len(declared.params)
                  [] declared.kind = "Result" -> 2
                  [] OTHER -> IF Len(declared.params) > Len(init.params)
                              THEN Len(declared.params) ELSE Len(init.params)
       IN [declared EXCEPT !.params =
             [i \in 1..n |-> IF ParamOf(declared, i).kind = "Unknown"
                             THEN ParamOf(init, i) ELSE declared.params[i]]]

(* The same for a constructor's type and the type its context expects. *)
MergeExpectedParams(t, expected) ==
  IF t.kind # expected.kind \/ t.name # expected.name THEN t
  ELSE LET n == IF Len(t.params) > Len(expected.params)
                THEN Len(t.params) ELSE Len(expected.params)
       IN [t EXCEPT !.params = [i \in 1..n |-> IF ParamOf(t, i).kind = "Unknown"
                                               THEN ParamOf(expected, i) ELSE t.params[i]]]

(* What a binary operator yields on operands of types l and r. *)
BinaryType(op, l, r) ==
  CASE op \in {"+", "-", "*", "/", "%"} -> WidenNumeric(l, r, op)
    [] op \in {"&", "|", "^", "<<", ">>", ">>>"} ->
         IF IsInteger(l) /\ IsInteger(r) THEN WidenNumeric(l, r, op) ELSE Error
    [] op = "**" -> IF {l.kind, r.kind} \subseteq {"Tensor", "Matrix"} THEN l
                    ELSE WidenNumeric(l, r, op)
    [] op \in {"<", "<=", ">", ">="} ->
         IF DeduceNumericType(l, r, op) = Error /\ "Error" \notin {l.kind, r.kind}
         THEN Error ELSE Bool
    [] op \in {"==", "!="} ->
         IF l # r /\ DeduceNumericType(l, r, op) = Error /\ "Error" \notin {l.kind, r.kind}
         THEN Error ELSE Bool
    [] op \in {"&&", "||"} ->
         IF IsAssignable(Bool, l) /\ IsAssignable(Bool, r) THEN Bool ELSE Error

UnaryType(op, t) ==
  CASE op = "!" -> IF IsAssignable(Bool, t) THEN Bool ELSE Error
    [] op = "-" -> IF IsNumeric(t) /\ t.kind # "Uint" THEN t ELSE Error
    [] op = "~" -> IF IsInteger(t) THEN t ELSE Error
=============================================================================
