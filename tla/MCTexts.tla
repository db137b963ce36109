------------------------------- MODULE MCTexts -------------------------------
(* Trees of every form for TLC. *)
EXTENDS Texts

a == Name("a")
b == Name("b")
One == Num(1)
Group(e) == Node("Grouping", "", <<e>>)
Main(stmts) == <<Function("main", <<>>, Basic("Void"), stmts)>>
Gives(e) == Main(<<Return(<<e>>)>>)
MCEnums == <<>>
MCRecords == [r \in {} |-> <<>>]
MCCapitalised == {"Point", "Option", "Result", "N"}
MCSegments == [s \in {"std.io.print", "core.io"} |->
                 CASE s = "std.io.print" -> <<"std", "io", "print">>
                   [] OTHER -> <<"core", "io">>]
MCSpare == {Word(w) : w \in {";", ",", "(", ")", "{", "}", "[", "=", "if", "fn", "@", ":", "-", "->"}} \cup {Ident("a")}

(* Operators of every level beside those of every other, with the          *)
(* parentheses they need.                                                  *)
Operators == {"||", "&&", "|", "^", "&", "->", "..", "==", "<", ">>", "-", "/", "**"}
Needed(e, least) == IF Tightness(e) >= least THEN e ELSE Group(e)
Two(op, l, r) ==
  LET k == Tightness(Binary(op, l, r))
  IN Binary(op, Needed(l, IF op \in {"..", "**"} THEN k + 1 ELSE k), Needed(r, IF op = "**" THEN k ELSE k + 1))
Operations ==
  UNION {{Two(o, Two(p, a, One), b), Two(o, a, Two(p, One, b)), Unary("-", Needed(Two(o, a, b), 14))} :
           o \in Operators, p \in Operators}
    \cup {Two(o, Unary("!", a), Unary("-", b)) : o \in Operators}

Pair == NamedType("Pair", <<I32, OptionOf(I32)>>)
Quote == [Lit(TextV(<<1>>)) EXCEPT !.name = "k"]
Truth == [Lit(BoolV(TRUE)) EXCEPT !.name = ""]
Primaries ==
  {Lit(FloatV(1)), Quote, Truth, Node("Symbol", "a", <<>>), Vector(<<>>), Vector(<<One, a>>),
   [Vector(<<a, One>>) EXCEPT !.mark = "repeat"], Call("std.io.print", <<a, One>>), FieldOf(Name("Shape"), "Dot"),
   FieldOf(FieldOf(Group(a), "x"), "y"), Call("", <<Index(a, One), b>>), Index(Group(a), b),
   Index(a, Quote), Index(a, Name("N")), Index(Index(a, One), Name("N")),
   Node("RecordLiteral", "Point", <<Node("Field", "x", <<One>>), Node("Field", "y", <<a>>)>>),
   Call("", <<[Node("TypeExpr", "", <<>>) EXCEPT !.type = VectorOf(I32)], a>>),
   [Node("TypeExpr", "", <<>>) EXCEPT !.type = NamedType("Result", <<I32, Custom("Point")>>)],
   Call("", <<[Node("TypeExpr", "", <<>>) EXCEPT !.type = NamedType("Fixed", <<Num(2), One>>)], a>>),
   Node("InfiniteLiteral", "", <<a>>), Node("Infer", "", <<Two("-", a, One)>>), Assign("a", Assign("b", One)),
   Node("Assign", "", <<Index(a, One), b>>), Node("Assign", "", <<FieldOf(FieldOf(a, "x"), "y"), Unary("~", b)>>)}
Nested(v, p) == Node("Nested", v, <<p>>)
Patterns ==
  {Nested("Ok", Node("Binding", "n", <<>>)), Node("Tuple", "", <<Name("n"), Name("m")>>),
   Node("Fields", "", <<[Node("Binding", "x", <<>>) EXCEPT !.mark = "x"], [Node("Binding", "y", <<>>) EXCEPT !.mark = "n"]>>),
   Nested("Some", Nested("Ok", Node("Binding", "_", <<>>)))}
Matches ==
  {Match(a, <<Arm("Some", "n", Name("n")), GuardedArm("None", "", Two("<", a, b), One), Arm("None", "", Num(2))>>),
   Match(Two("-", a, b), <<Arm("None", "_", BlockOf(<<Do(a)>>, b))>>)}
    \cup {Match(a, <<Node("PatternArm", "Some", <<p, b>>), Arm("None", "", One)>>) : p \in Patterns}
Alternatives ==
  {IfElse(a, One, b), Node("IfExpr", "", <<a, Braces(<<>>), IfElse(b, a, One)>>), BlockOf(<<Let("c", I32, a)>>, One),
   Two("-", IfElse(a, One, b), BlockOf(<<>>, a))}

(* A loop over a name has its braces taken for a record. *)
AtTop ==
  {If(a, <<Block(<<Break>>)>>), If(a, <<Return(<<>>), Block(<<>>)>>), Block(<<Continue>>), Node("Reflect", "", <<Do(a)>>),
   Node("Distributed", "", <<Do(a)>>), Node("Infinite", "", <<>>), Node("Train", "", <<a, Do(b)>>),
   While(a, If(b, <<Do(a), Break>>)), For("i", One, Group(a), Block(<<Do(b)>>)), For("i", One, a, Do(b)),
   For("i", One, a, Block(<<Do(b)>>)), ForOver("i", Group(a), Do(b), NoBound),
   [For("i", One, Num(2), Do(b)) EXCEPT !.mark = "bounded", !.lit = IntV(4)],
   Loop("infinite", <<Break>>), Loop("guarded", <<a, Do(b)>>), [Loop("bounded", <<>>) EXCEPT !.lit = IntV(3)],
   Node("Recurse", "f", <<Param("n", Unknown), Param("m", I32), Return(<<a>>)>>),
   [Node("Type", "Pair", <<Node("Generic", "N", <<>>)>>) EXCEPT !.type = NamedType("Result", <<Custom("N"), I32>>)],
   Node("Record", "Point", <<Attribute("schema", IntV(2)), [Attribute("module", IntV(0)) EXCEPT !.mark = "core.io"],
                             [Node("Member", "x", <<>>) EXCEPT !.type = I32]>>),
   Node("Enum", "Shape", <<Node("Variant", "Dot", <<>>), [Node("Variant", "Line", <<>>) EXCEPT !.type = OptionOf(I32)]>>),
   Function("id", <<Node("Generic", "N", <<>>), Param("n", Custom("N"))>>, Custom("N"), <<Return(<<Name("n")>>)>>),
   Function("f", <<Attribute("tier", IntV(3))>>, I32, <<Function("g", <<>>, I32, <<Return(<<One>>)>>), Return(<<a>>)>>)}
InBlock ==
  {<<Do(IfBraces(a, <<Break>>)), Do(b)>>, <<If(a, <<Break>>), Do(Braces(<<Do(a)>>))>>, <<Var("c", Bool, <<>>), Loop("infinite", <<Break>>)>>,
   <<Do(Node("IfExpr", "", <<a, Braces(<<Do(b)>>), IfBraces(b, <<Do(a)>>)>>)), Return(<<>>)>>, <<Let("c", Pair, a), While(a, Block(<<Do(b)>>))>>}

Deep == {Gives(e) : e \in Operations}
Broad == {Gives(e) : e \in Primaries \cup Matches \cup Alternatives} \cup {<<s, Do(b)>> : s \in AtTop} \cup {Main(b1) : b1 \in InBlock}
MCSources == Deep \cup Broad
=============================================================================
