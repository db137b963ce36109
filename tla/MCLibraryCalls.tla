--------------------------- MODULE MCLibraryCalls ----------------------------
(* A small instance of LibraryCalls for TLC. *)
EXTENDS LibraryCalls

a == <<1>>
b == <<2>>
aa == <<1, 1>>
Words == {<<>>, a, b, aa, <<1, 2, 1>>}

MCObjects ==
  <<Texts(<<>>), Texts(<<a>>), Texts(<<a, b>>), Texts(<<a, b, b>>),
    Texts(<<a, b, b, a, a, b>>), Texts(<<a, b, a, a, b>>), Texts(<<a, a, b, a>>), Texts(<<b, a>>),
    Tensor(<<1>>, <<-3>>), Tensor(<<2>>, <<2, 5>>), Tensor(<<2>>, <<4, 0>>),
    Tensor(<<2, 1>>, <<1, 2>>), Tensor(<<1, 2>>, <<0, 4>>), Texts(<<a, b, b, aa>>)>>

VectorTypes == {VectorOf(Text), VectorOf(Bytes), VectorOf(I32), VectorOf(Float)}
Symbolics == {Custom("T81Symbolic"), Custom("T81Polynomial")}
BoxTypes == {OptionOf(I32), OptionOf(Float), OptionOf(Text), ResultOf(I32, Text)}
ScalarTypes == {I32, BigInt, Float, Fraction, Bool, Text, Bytes, Symbol}
ArgTypes == ScalarTypes \cup VectorTypes \cup Symbolics \cup BoxTypes \cup {TextMap, TextSet, Basic("Tensor")}
Numbers == {I32, Fraction, Float}
AllSignatures ==
  {<<>>} \cup {<<t>> : t \in ArgTypes} \cup (ArgTypes \X ArgTypes)
    \cup (Numbers \X Numbers \X Numbers)
    \cup (({Text, Bytes, VectorOf(Text), TextMap} \cup Symbolics) \X {Text, Bytes} \X {Text, Bytes})

(* The calls on the program itself take anything. *)
SelfSignatures == {<<>>} \cup {<<t>> : t \in {I32, Text, VectorOf(Text)}} \cup ({I32, Float} \X {I32, Text})
MCSignatures(m) == IF m \in SelfCalls THEN SelfSignatures ELSE AllSignatures

TextInputs == {TextV(s) : s \in Words} \cup {TokenV}
MCInputs(t) ==
  CASE t.kind \in {"I32", "BigInt"} -> {IntV(n) : n \in {-1, 0, 2}}
    [] t.kind = "Float" -> {FloatV(h) : h \in {-3, 0, 1, 4}}
    [] t.kind = "Fraction" -> {FracV(h) : h \in {-3, 0, 2}}
    [] t.kind = "Bool" -> {BoolV(p) : p \in BOOLEAN} \cup {IntV(n) : n \in {0, 1}}
    [] t.kind \in {"String", "Bytes"} -> TextInputs
    [] t.kind = "Symbol" -> {TextV(a), TextV(b), TokenV}
    [] t \in {VectorOf(Text), VectorOf(Bytes)} -> {V("StringVector", h) : h \in 1..8}
    [] t = VectorOf(I32) -> {V("Tensor", 11)}
    [] t = VectorOf(Float) -> {V("Tensor", h) : h \in 9..11}
    [] t = Basic("Tensor") -> {V("Tensor", h) : h \in 9..13}
    [] t.kind = "Map" -> {V("StringVector", h) : h \in {1, 3, 14}}
    [] t.kind = "Set" -> {V("StringVector", h) : h \in {1, 2, 3, 8}}
    [] t.kind = "Option" ->
         {NoneV, SomeV(CASE t.params[1] = I32 -> IntV(2) [] t.params[1] = Float -> FloatV(3)
                         [] OTHER -> TextV(b))}
    [] t.kind = "Result" -> {ResultV(TRUE, IntV(2)), ResultV(FALSE, TextV(b))}
    [] OTHER -> {V("Graph", 1)}
=============================================================================
