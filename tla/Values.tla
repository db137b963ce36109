------------------------------- MODULE Values -------------------------------
(***************************************************************************)
(* Tagged register values of the TISC machine, and the pure functions its  *)
(* handlers apply to them (core/vm/vm.cpp).  A value has a tag, a number   *)
(* (an integer, a truth value, a float or a fraction counted in halves, a  *)
(* variant, or the handle of a pool object), a text, and the value it      *)
(* wraps.  A text is a sequence of character codes.                        *)
(***************************************************************************)
EXTENDS Integers, SequencesExt, Bitwise

Value(tag, n, text, inner) == [tag |-> tag, n |-> n, text |-> text, inner |-> inner]
V(tag, n) == Value(tag, n, <<>>, <<>>)
IntV(n) == V("Int", n)
BoolV(p) == V("Bool", IF p THEN 1 ELSE 0)
FloatV(h) == V("Float", h)
FracV(h) == V("Fraction", h)
TextV(s) == Value("Symbol", 0, s, <<>>)

(* The text of a runtime token such as "std.io.net": a literal with this   *)
(* text becomes a token, not a symbol.                                     *)
TokenText == <<0>>
TokenV == Value("Token", 1, TokenText, <<>>)
LoadedText(s) == IF s = TokenText THEN TokenV ELSE TextV(s)

(* An outcome of a handler that is not a value but a trap. *)
Fault(trap) == V(trap, 0)
Faults == {"DecodeFault", "TypeFault", "DivisionFault", "ShapeFault", "BoundsFault", "StackFault",
           "TrapInstruction", "SecurityFault"}

IsText(x) == x.tag \in {"Symbol", "Token"}
IsVec(x) == x.tag = "StringVector"

Option(inner) == Value("Option", Len(inner), <<>>, inner)
NoneV == Option(<<>>)
SomeV(x) == Option(<<x>>)
ResultV(ok, x) == Value("Result", IF ok THEN 1 ELSE 0, <<>>, <<x>>)
ComplexV(re, im) == Value("Complex", 0, <<re, im>>, <<>>)
EnumV(variant, inner) == Value("Enum", variant, <<>>, inner)

(* An instruction has three operands; a load may carry a literal. *)
Ins(op, a, b, c) == [op |-> op, a |-> a, b |-> b, c |-> c, lit |-> V("Int", 0)]
LoadImm(a, value) == [Ins("LoadImm", a, 0, 0) EXCEPT !.lit = value]

(*************************** texts ****************************************)
OccursAt(s, t, i) == i + Len(t) - 1 <= Len(s) /\ SubSeq(s, i, i + Len(t) - 1) = t
Occurrences(s, t) == {i \in 1..(Len(s) + 1) : OccursAt(s, t, i)}
IndexOf(s, t) == IF Occurrences(s, t) = {} THEN -1 ELSE Min(Occurrences(s, t)) - 1
SplitText(s, sep) ==
  LET From[i \in 1..(Len(s) + 1)] ==
        LET hits == {j \in Occurrences(s, sep) : j >= i}
        IN IF hits = {} THEN <<SubSeq(s, i, Len(s))>>
           ELSE <<SubSeq(s, i, Min(hits) - 1)>> \o From[Min(hits) + Len(sep)]
  IN From[1]
JoinTexts(parts, sep) ==
  IF parts = <<>> THEN <<>>
  ELSE parts[1] \o FlattenSeq([i \in 1..(Len(parts) - 1) |-> sep \o parts[i + 1]])

(************************** bits *******************************************)
(* Bits of two's complement.  The numbers of a model are smaller than      *)
(* Window, so that a word of the code, 64 bits wide, continues their sign. *)
(* Only the low six bits of an amount count.                               *)
Window == 2^16
Signed(u) == IF u >= Window \div 2 THEN u - Window ELSE u
ShiftedRight(x, k) == IF k < 30 THEN x \div 2^k ELSE IF x < 0 THEN -1 ELSE 0
OfBits(op, x, y) ==
  LET u == x % Window
      v == y % Window
      k == y % 64
  IN CASE op = "BitAnd" -> Signed(u & v)
       [] op = "BitOr" -> Signed(u | v)
       [] op = "BitXor" -> Signed(u ^^ v)
       [] op = "BitNot" -> -1 - x
       [] op = "BitShl" -> IF x = 0 THEN 0 ELSE x * 2^k
       [] op = "BitShr" -> ShiftedRight(x, k)
       [] op = "BitUShr" -> ShiftedRight(x, k) + (IF x < 0 /\ k > 0 THEN 2^(64 - k) ELSE 0)

(************************** comparison *************************************)
Sign(n) == IF n < 0 THEN -1 ELSE IF n > 0 THEN 1 ELSE 0
TextOrder(s, t) ==
  LET split == {i \in 1..Len(s) : i > Len(t) \/ s[i] # t[i]}
  IN IF split = {} THEN Sign(Len(s) - Len(t))
     ELSE LET i == Min(split) IN IF i > Len(t) THEN 1 ELSE Sign(s[i] - t[i])

(* -1, 0 or 1, and 2 when the two values cannot be compared. *)
RECURSIVE CompareValue(_, _)
CompareValue(x, y) ==
  CASE IsText(x) -> TextOrder(x.text, y.text)
    [] x.tag = "Enum" -> 2
    [] x.tag \in {"Option", "Result"} ->
         IF x.n # y.n THEN Sign(x.n - y.n)
         ELSE IF x.inner = <<>> THEN 0
         ELSE IF x.inner[1].tag # y.inner[1].tag THEN 2
         ELSE CompareValue(x.inner[1], y.inner[1])
    [] OTHER -> Sign(x.n - y.n)

Relations == {"Less", "LessEqual", "Greater", "GreaterEqual", "Equal", "NotEqual"}
CompareResult(op, x, y) ==
  IF x.tag # y.tag THEN Fault("TypeFault")
  ELSE LET order == CompareValue(x, y)
       IN IF order = 2 THEN Fault("DecodeFault")
          ELSE IntV(IF CASE op = "Less" -> order < 0
                         [] op = "LessEqual" -> order <= 0
                         [] op = "Greater" -> order > 0
                         [] op = "GreaterEqual" -> order >= 0
                         [] op = "Equal" -> order = 0
                         [] OTHER -> order # 0
                    THEN 1 ELSE 0)

(* Division truncates toward zero. *)
TruncDiv(x, y) == Sign(x) * Sign(y) * ((IF x < 0 THEN -x ELSE x) \div (IF y < 0 THEN -y ELSE y))

(********************** conversions and fractions **************************)
(* I2F and I2Frac read the number whatever the tag says. *)
ConvertOps == {"F2I", "Frac2I", "F2Frac", "Frac2F"}
ConvertResult(op, x) ==
  CASE op \in {"F2I", "F2Frac"} /\ x.tag # "Float" -> Fault("TypeFault")
    [] op \in {"Frac2I", "Frac2F"} /\ x.tag # "Fraction" -> Fault("TypeFault")
    [] op = "F2I" -> IntV(TruncDiv(x.n, 2))
    [] op = "Frac2I" -> IF x.n % 2 = 0 THEN IntV(x.n \div 2) ELSE Fault("DecodeFault")
    [] op = "F2Frac" -> FracV(x.n)
    [] op = "Frac2F" -> FloatV(x.n)

(*************************** boxed values **********************************)
OptionIsSome(x) == IF x.tag = "Option" THEN IntV(x.n) ELSE Fault("TypeFault")
OptionUnwrap(x) ==
  CASE x.tag # "Option" -> Fault("TypeFault")
    [] x.inner = <<>> -> Fault("DecodeFault")
    [] OTHER -> x.inner[1]
ResultIsOk(x) == IF x.tag = "Result" THEN IntV(x.n) ELSE Fault("TypeFault")
ResultUnwrap(x, ok) ==
  CASE x.tag # "Result" -> Fault("TypeFault")
    [] (x.n = 1) # ok -> Fault("DecodeFault")
    [] OTHER -> x.inner[1]
EnumIsVariant(x, variant) ==
  IF x.tag = "Enum" THEN IntV(IF x.n = variant THEN 1 ELSE 0) ELSE Fault("TypeFault")
EnumUnwrapPayload(x) ==
  CASE x.tag # "Enum" -> Fault("TypeFault")
    [] x.inner = <<>> -> Fault("DecodeFault")
    [] OTHER -> x.inner[1]

(* Some(v) wraps whatever the register holds, tag included. *)
BoxOps == {"MakeOptionSome", "MakeOptionNone", "MakeResultOk", "MakeResultErr", "OptionIsSome",
           "OptionUnwrap", "ResultIsOk", "ResultUnwrapOk", "ResultUnwrapErr"}
BoxResult(op, x) ==
  CASE op = "MakeOptionSome" -> SomeV(x)
    [] op = "MakeOptionNone" -> NoneV
    [] op = "MakeResultOk" -> ResultV(TRUE, x)
    [] op = "MakeResultErr" -> ResultV(FALSE, x)
    [] op = "OptionIsSome" -> OptionIsSome(x)
    [] op = "OptionUnwrap" -> OptionUnwrap(x)
    [] op = "ResultIsOk" -> ResultIsOk(x)
    [] op = "ResultUnwrapOk" -> ResultUnwrap(x, TRUE)
    [] op = "ResultUnwrapErr" -> ResultUnwrap(x, FALSE)
=============================================================================
