----------------------------- MODULE MCCompiler ------------------------------
(* Families of small programs for TLC. *)
EXTENDS Compiler

True == Lit(BoolV(TRUE))
False == Lit(BoolV(FALSE))
Real(h) == Lit(FloatV(h))
Str(s) == Lit(TextV(s))
Main(type, stmts) == <<Function("main", <<>>, type, stmts)>>
Gives(e) == Return(<<e>>)
x == Name("x")
y == Name("y")
n == Name("n")
Plus(a, b) == Binary("+", a, b)
Below(a, b) == Binary("<", a, b)
Is1(e, k) == Binary("==", e, Num(k))
SetX(e) == Do(Assign("x", e))
Grow == SetX(Plus(x, Num(1)))
IntX(k) == Var("x", I32, <<Num(k)>>)

MCEnums ==
  <<[name |-> "Shape", variants |-> <<<<"Dot", <<>>>>, <<"Line", <<I32>>>>, <<"Tag", <<Text>>>>>>],
    [name |-> "Light", variants |-> <<<<"Off", <<>>>>, <<"On", <<Float>>>>>>]>>

MCRecords == "Point" :> [at |-> I32, label |-> Text]
Bare(e, v) == FieldOf(Name(e), v)
Made(e, v, args) == Call(e \o "." \o v, args)

(* Expressions of integers, and of truth values. *)
Ints == {Num(0), Num(3)}
Sums == {Binary(op, a, b) : op \in {"+", "-", "*", "/", "%"}, a \in {Num(7)}, b \in Ints}
          \cup {Unary("-", Num(5)), Assign("x", Num(2)), x}
Conditions == {True, False, Below(Num(1), Num(2)), Below(Num(2), x)}
Truths == {Binary(op, a, b) : op \in {"&&", "||", "=="}, a \in Conditions, b \in Conditions}
            \cup {Unary("!", c) : c \in Conditions}
Scalars ==
  {<<IntX(1)>> \o Main(I32, <<Gives(Binary("-", a, b))>>) : a \in Sums, b \in Sums}
    \cup {<<IntX(1)>> \o Main(I32, <<Gives(IfElse(c, Assign("x", Num(5)), x))>>) : c \in Truths}
    \cup {<<IntX(1)>> \o Main(Bool, <<Gives(c)>>) : c \in Truths}

(* Loops with statements that leave them. *)
Bodies ==
  LET Steps == {<<Grow>>, <<If(Is1(x, 1), <<Break>>)>>, <<If(Is1(x, 2), <<Continue>>)>>,
                <<Do(IfBraces(Is1(x, 2), <<Grow, Gives(Num(9))>>))>>, <<SetX(Plus(x, Num(2)))>>}
  IN {a \o b : a \in Steps, b \in Steps} \cup {a \o b \o <<Grow>> : a \in Steps, b \in Steps}
Loops(body) ==
  {<<While(Below(x, Num(4)), Block(body))>>,
   <<Loop("guarded", <<Below(x, Num(4))>> \o body)>>,
   <<AtMost(4, body \o <<If(Below(Num(4), x), <<Break>>)>>)>>,
   <<For("i", Num(0), Num(2), Block(<<Loop("guarded", <<Below(x, Name("i"))>> \o body)>>))>>,
   <<For("i", x, Num(3), Block(body))>>}
Looping == UNION {{Main(I32, <<IntX(0)>> \o l \o <<Gives(x)>>) : l \in Loops(b)} : b \in Bodies}

(* Functions: the order of arguments, results and effects. *)
Minus == Function("minus", <<Param("a", I32), Param("b", I32)>>, I32,
                  <<Gives(Binary("-", Name("a"), Name("b")))>>)
Next1 == Function("next", <<>>, I32, <<Grow, Gives(x)>>)
Clear == Function("clear", <<>>, Void, <<If(Is1(x, 0), <<Return(<<>>)>>), SetX(Num(0))>>)
CallExprs == {Num(1), Call("next", <<>>), x, Assign("x", Num(6)), Call("minus", <<Num(9), Call("next", <<>>)>>)}
Calling ==
  {<<IntX(4), Minus, Next1>> \o Main(I32, <<Gives(Call("minus", <<a, b>>))>>) : a \in CallExprs, b \in CallExprs}
    \cup {<<IntX(4), Next1>> \o Main(I32, <<Gives(Binary("-", a, b))>>) :
            a \in {x, Call("next", <<>>)}, b \in {x, Call("next", <<>>)}}
    \cup {<<IntX(k), Clear>> \o Main(I32, <<Do(Call("clear", <<>>)), s, Gives(x)>>) :
            k \in {0, 1}, s \in {Do(Call("clear", <<>>)), Let("z", Unknown, Call("clear", <<>>)), Grow}}
    \cup {<<Function("f", <<Param("c", Bool)>>, I32, body)>> \o Main(I32, <<Gives(Call("f", <<True>>))>>) :
            body \in {<<If(Name("c"), <<Gives(Num(1)), Gives(Num(2))>>)>>, <<If(Name("c"), <<Gives(Num(1))>>)>>,
                      <<Do(Num(1))>>, <<Gives(Name("c"))>>}}
    \cup {Main(Void, <<>>), Main(I32, <<Gives(Call("g", <<>>))>>)}

(* Scopes and aliases. *)
Scoping ==
  {Main(I32, <<IntX(1), s, Grow, Gives(Binary("*", x, Num(10)))>>) :
     s \in {Do(Braces(<<Let("x", I32, Num(7))>>)), Do(Braces(<<IntX(2), Grow>>)), Let("y", I32, x), Var("y", I32, <<x>>),
            Do(Braces(<<Let("y", I32, x), Grow>>)), Let("x", I32, Num(3)), For("x", Num(0), Num(2), Block(<<>>))}}
    \cup {Main(I32, <<IntX(1), Var("y", I32, <<a>>), SetX(Num(5)), Do(Assign("y", Plus(y, Num(1)))), Gives(e)>>) :
            a \in {x, Num(1), Plus(x, Num(0)), BlockOf(<<>>, x), BlockOf(<<Grow>>, Plus(x, x))}, e \in {x, y}}
    \cup {Main(I32, <<Let("y", I32, Num(1)), Do(Assign("y", Num(2))), Gives(y)>>),
          Main(I32, <<Do(Braces(<<IntX(1)>>)), Gives(x)>>)}

(* Boxes, and matches on them. *)
Sees(type, value, arms) == Main(I32, <<IntX(3), Let("o", type, value), Gives(Match(Name("o"), arms))>>)
OptionArms ==
  {<<Arm("Some", "n", Plus(n, x)), Arm("None", "", Num(0))>>, <<Arm("None", "", x), Arm("Some", "_", Num(8))>>,
   <<GuardedArm("Some", "n", Below(n, x), Num(5)), Arm("Some", "n", n), Arm("None", "", Num(0))>>,
   <<Arm("None", "", Num(0)), GuardedArm("Some", "n", Below(x, n), Assign("x", n)), Arm("Some", "m", Name("m"))>>,
   <<GuardedArm("None", "", Below(x, Num(2)), Num(4)), Arm("Some", "x", x), Arm("None", "", Num(7))>>,
   <<Arm("Some", "n", n)>>}
ResultArms ==
  {<<Arm("Ok", "n", n), Arm("Err", "e", Call("std.text.str_len", <<Name("e")>>))>>,
   <<GuardedArm("Err", "e", Binary("==", Name("e"), Str(<<1>>)), Num(4)), Arm("Ok", "_", x), Arm("Err", "_", Num(2))>>}
EnumArms ==
  {<<Arm("Dot", "", Num(1)), Arm("Line", "n", n), Arm("Tag", "_", x)>>,
   <<Arm("Tag", "s", Num(2)), GuardedArm("Line", "n", Below(n, x), x), Arm("Dot", "", Num(0)), Arm("Line", "n", n)>>,
   <<Arm("Dot", "", Num(1)), Arm("Line", "n", n)>>}
Matching ==
  {Sees(OptionOf(I32), v, arms) : v \in {Call("None", <<>>), Call("Some", <<Num(2)>>), Call("Some", <<Num(9)>>)},
                                  arms \in OptionArms}
    \cup {Sees(ResultOf(I32, Text), v, arms) :
            v \in {Call("Ok", <<Num(2)>>), Call("Err", <<Str(<<1>>)>>), Call("Err", <<Str(<<1, 2>>)>>)},
            arms \in ResultArms}
    \cup {Sees(Custom("Shape"), v, arms) :
            v \in {Bare("Shape", "Dot"), Made("Shape", "Line", <<Num(2)>>),
                   Made("Shape", "Line", <<Num(9)>>), Made("Shape", "Tag", <<Str(<<1>>)>>)},
            arms \in EnumArms}
    \cup {Main(I32, <<Gives(Match(Made("Light", "On", <<v>>), <<Arm("Off", "", Num(0)), Arm("On", "_", Num(1))>>))>>) :
            v \in {Real(1), Num(1), True}}
    \cup {Main(OptionOf(I32), <<Let("o", OptionOf(I32), Call("Some", <<Num(1)>>)), Gives(e)>>) :
            e \in {Name("o"), Call("None", <<>>), Call("Some", <<Num(2)>>), IfElse(True, Call("None", <<>>), Name("o"))}}
    \cup {Main(Bool, <<Gives(Binary("==", a, a))>>) : a \in {Bare("Shape", "Dot"), Vector(<<Num(1)>>), Str(<<1>>)}}

(* Numbers of several types, vectors, texts and library calls. *)
Realy(type, init, e) == Main(Float, <<Var("x", type, <<init>>), Gives(e)>>)
Takes(e) == <<Function("f", <<Param("a", Float)>>, Float, <<Gives(e)>>)>>
Mixing ==
  {Realy(Float, i, e) : i \in {Real(3), Num(1)},
     e \in {x, Plus(x, Real(1)), Plus(x, Num(1)), Binary("-", Num(1), x), Unary("-", x), Num(1), Binary("%", x, x),
            IfElse(Below(x, Num(2)), x, Real(5)), IfElse(Below(Num(2), x), Real(5), Num(2))}}
    \cup {Main(Float, <<Var("x", Float, <<Real(3)>>), Do(Binary(op, x, Real(k))), Gives(x)>>) : op \in {"*", "/"}, k \in {0, 1}}
    \cup {Takes(e) \o Main(Float, <<Gives(u)>>) :
            e \in {Name("a"), Plus(Name("a"), Real(1))},
            u \in {Call("f", <<Real(3)>>), Call("f", <<Num(3)>>), Plus(Call("f", <<Real(3)>>), Real(1))}}
    \cup {Main(I32, <<Let("v", VectorOf(t), Vector(es)), For("i", Num(0), high, Block(<<>>)), Gives(e)>>) :
            t \in {I32, Float}, es \in {<<Num(4), Num(5)>>, <<Num(4), Unary("-", Num(5))>>, <<Real(3)>>},
            high \in {Num(1), Real(1)},
            e \in {Index(Name("v"), Num(0)), Index(Name("v"), Num(1)), Plus(Index(Name("v"), Num(0)), Num(1))}}
    \cup {Main(Text, <<Let("s", Text, Str(<<1>>)), Do(Call("std.core.assert", <<c>>)), Do(Call("std.io.println", <<Name("s")>>)),
                       Gives(Call("std.text.concat", <<Name("s"), Str(<<2>>)>>))>>) :
            c \in {True, False, Binary("==", Name("s"), Str(<<1>>)),
                   Binary("==", Name("s"), Call("std.text.concat", <<Name("s"), Str(<<>>)>>)),
                   Unary("!", Call("std.option.is_some", <<Call("Some", <<Num(1)>>)>>))}}
    \cup {Main(I32, <<Gives(Call("std.core.unwrap_or", <<o, Num(4)>>))>>) : o \in {Call("Some", <<Num(1)>>)}}
    \cup {Main(I32, <<Let("v", VectorOf(Text), Vector(<<Str(<<1>>), Str(<<2>>)>>)), Gives(Call("std.collections.len", <<Name("v")>>))>>)}

(* Effects of conditions, and of statements within expressions. *)
Tests1 == {Below(Call("next", <<>>), Num(k)) : k \in {5, 9}} \cup {Below(x, Num(5)), False, Call("odd", <<x>>)}
Odd == Function("odd", <<Param("k", I32)>>, Bool, <<Gives(Is1(Binary("%", Name("k"), Num(2)), 1))>>)
Effects ==
  {<<IntX(4), Next1, Odd>> \o Main(I32, <<Gives(IfElse(Binary(op, a, b), x, Binary("*", x, Num(10))))>>) :
     op \in {"&&", "||", "=="}, a \in Tests1, b \in Tests1}
    \cup {<<IntX(4), Next1, Odd>> \o Main(I32, <<While(Binary(op, a, Below(x, Num(9))), Do(Call("next", <<>>))), Gives(x)>>) :
             op \in {"&&", "||"}, a \in Tests1 \ {False}}
Leaves == {Break, Continue, Gives(Num(7)), Grow}
Early == {BlockOf(<<s>>, Num(2)) : s \in Leaves}
           \cup {BlockOf(<<If(Is1(x, k), <<s>>), Grow>>, x) : s \in Leaves \ {Continue}, k \in {1, 2}}
Uses(e) == {Binary("-", Num(9), e), Call("minus", <<e, Num(1)>>), Call("minus", <<Num(9), e>>),
            Call("std.core.unwrap_or", <<Call("Some", <<e>>), Num(1)>>),
            Match(Call("Some", <<Num(3)>>), <<Arm("Some", "n", Plus(n, e)), Arm("None", "", Num(0))>>),
            Match(Call("Some", <<e>>), <<Arm("None", "", e), Arm("Some", "n", n)>>),
            IfElse(Below(x, Num(2)), e, Num(4))}
Leaving ==
  UNION {{<<Minus>> \o Main(I32, <<IntX(0), While(Below(x, Num(3)), Block(<<Grow, Do(u)>>)), Gives(x)>>),
          <<Minus>> \o Main(I32, <<IntX(0), Loop("guarded", <<Below(x, Num(3)), Grow, Let("r", I32, u), SetX(Plus(x, Name("r")))>>), Gives(x)>>)} :
         u \in UNION {Uses(e) : e \in Early}}

(* Loops within loops and within functions. *)
Inner(body) == {<<While(Below(x, Num(4)), Block(<<Grow>> \o body))>>, <<For("j", Num(0), Num(2), Block(body))>>,
                <<Loop("infinite", <<Grow, If(Below(Num(3), x), <<Break>>)>> \o body)>>}
Exits == {<<Do(IfBraces(Is1(x, k), <<s>>))>> : k \in {1, 3}, s \in {Break, Continue, Return(<<x>>)}} \cup {<<Grow>>}
Nests ==
  UNION {{<<Function("f", <<Param("k", I32)>>, I32,
                     <<IntX(0), For("i", Num(0), Name("k"), Block(l \o e)), Gives(Plus(x, Num(20)))>>)>>
            \o Main(I32, <<Gives(Call("f", <<Num(2)>>))>>) : l \in Inner(b)} : b \in Exits, e \in Exits}

(* Bits, elements that are set, and records. *)
BitPrograms ==
  {Main(I32, <<Gives(Binary(op, Num(a), b))>>) :
     op \in {"&", "|", "^", "<<", ">>"}, a \in {6, 0}, b \in {Num(3), Num(0), Num(65), Unary("~", Num(0))} \ {Unary("~", Num(0))}}
    \cup {Main(I32, <<Gives(Binary(op, Unary("-", Num(6)), Num(3)))>>) : op \in {"&", "|", "^", "<<", ">>"}}
    \cup {Main(I32, <<Gives(Binary(">>>", a, Num(k)))>>) : a \in {Num(6), Unary("~", Num(5))}, k \in {0, 60}}
v == Name("v")
Vec(t, es) == Var("v", VectorOf(t), <<Vector(es)>>)
At0(i) == Index(v, i)
Setting ==
  {Main(I32, <<IntX(1), Vec(I32, <<Num(4), Num(5)>>), Do(SetTo(At0(i), e)), Gives(Binary("-", At0(Num(0)), At0(Num(1))))>>) :
     i \in {Num(0), x, Assign("x", Num(0)), Num(2)}, e \in {Num(7), x, Assign("x", Num(0)), Plus(At0(x), x)}}
    \cup {Main(I32, <<Vec(I32, <<Num(4)>>), w, Do(SetTo(Index(u, Num(0)), Num(9))), Gives(At0(Num(0)))>>) :
             w \in {Var("w", VectorOf(I32), <<v>>)}, u \in {v, Name("w")}}
    \cup {Main(I32, <<IntX(0), While(Below(x, Num(2)), Block(<<Vec(I32, <<Num(4)>>), Grow, e>>)), Gives(x)>>) :
             e \in {Do(SetTo(At0(Num(0)), Num(9))), SetX(Plus(x, At0(Num(0))))}}
    \cup {Main(Float, <<Vec(Float, <<Real(3)>>), Do(SetTo(At0(Num(0)), e)), Gives(At0(Num(0)))>>) : e \in {Real(1), Num(2)}}
    \cup {Main(I32, <<Vec(Text, <<Str(<<1>>)>>), Do(SetTo(At0(Num(0)), Str(<<2>>))), Gives(Num(0))>>),
          Main(I32, <<Let("v", VectorOf(I32), Vector(<<Num(4)>>)), Do(SetTo(At0(Num(0)), Num(2))), Gives(Num(0))>>)}
P(a, b) == RecordOf("Point", <<Field("at", a), Field("label", b)>>)
Recording ==
  {Main(I32, <<Var("p", Unknown, <<P(Num(2), Str(<<1>>))>>), s, Gives(e)>>) :
     s \in {Do(Num(0)), Do(SetTo(FieldOf(Name("p"), "at"), Num(3)))},
     e \in {FieldOf(Name("p"), "at"), Plus(FieldOf(Name("p"), "at"), Num(1)), Num(1),
            Call("std.text.str_len", <<FieldOf(Name("p"), "label")>>), FieldOf(Name("p"), "on")}}
    \cup {Main(I32, <<Let("p", Unknown, r), Gives(Num(1))>>) :
             r \in {P(Str(<<1>>), Str(<<1>>)), RecordOf("Point", <<Field("at", Num(1))>>)}}
    \cup {Main(I32, <<Gives(Match(w, <<Arm("Dot", "", Num(1)), Arm("Line", "n", n), Arm("Tag", "_", Num(3))>>))>>) :
             w \in {Name("Dot"), Call("Line", <<Num(2)>>), Made("Shape", "Line", <<Num(2)>>)}}
    \cup {Main(I32, <<Do(w), Gives(Num(1))>>) : w \in {Name("Dot"), Call("Line", <<Num(2)>>), Name("Shape")}}

(* Names for types. *)
T == Custom("T")
Same(type) == Function("same", <<Generic("T"), Param("a", T), Param("b", T)>>, type, <<Gives(Name("b"))>>)
Explicitly(f, types, args) ==
  Call("", <<[Node("TypeExpr", "", <<>>) EXCEPT !.type = [Custom(f) EXCEPT !.params = types]]>> \o args)
Generics1 ==
  {<<Same(type)>> \o Main(r, <<Gives(c)>>) :
     type \in {T, I32}, r \in {I32, Text},
     c \in {Call("same", <<a, b>>) : a \in {Num(1), Str(<<1>>)}, b \in {Num(2), Str(<<2>>)}}
          \cup {Explicitly("same", ts, <<Num(1), Num(2)>>) : ts \in {<<>>, <<I32>>, <<Text>>, <<I32, I32>>}}}
    \cup {<<Function("first", <<Generic("T"), Param("u", OptionOf(T)), Param("d", T)>>, T,
                     <<Gives(Match(Name("u"), <<Arm("Some", "n", n), Arm("None", "", Name("d"))>>))>>)>>
             \o Main(I32, <<Let("o", OptionOf(I32), o), Gives(Call("first", <<Name("o"), d>>))>>) :
             o \in {Call("None", <<>>), Call("Some", <<Num(3)>>)}, d \in {Num(4), Str(<<1>>)}}

(* The statements of the tiers, and functions that declare one. *)
Tier(k) == Attribute("tier", IntV(k))
(* In a function most of them may only be a branch or a body of their own. *)
Blocks == {Node("Distributed", "", <<Grow, Let("z", I32, x)>>), Node("Infinite", "", <<Grow>>), Node("Train", "", <<x, Grow>>)}
Anywhere == {Node("Reflect", "", <<Grow>>), Loop("infinite", <<Grow, Break>>), Grow}
Deep == Anywhere \cup {If(Is1(x, 1), <<s>>) : s \in Blocks \cup Anywhere} \cup {While(Below(x, Num(3)), s) : s \in Blocks}
          \cup {Do(IfBraces(Is1(x, 1), <<s>>)) : s \in Anywhere}
Recursion(s) == Node("Recurse", "rec", <<Param("k", I32), s>>)
Tiered ==
  {<<IntX(1), s, s>> \o Main(I32, <<Gives(x)>>) : s \in Blocks \cup Anywhere \cup {Recursion(SetX(Plus(x, Num(2)))), Recursion(Grow)}}
    \cup {<<IntX(1), Function("inner", <<Tier(k)>>, Void, <<s>>), Function("outer", <<Tier(2)>>, Void, <<Do(Call("inner", <<>>))>>)>>
             \o Main(I32, <<Do(Call("outer", <<>>)), Gives(x)>>) : s \in Deep, k \in {1, 2, 5}}
    \cup {<<Function("f", <<Tier(k)>>, Void, <<Do(Call("std.io.println", <<Str(<<1>>)>>))>>)>> \o Main(Void, <<Do(Call("f", <<>>))>>) :
             k \in {1, 2}}
    \cup {<<IntX(1), Function("inner", <<Generic("T"), Tier(5), Param("a", T)>>, Void, <<If(True, <<Node("Infinite", "", <<Grow>>)>>)>>),
            Function("outer", <<Tier(1)>>, Void, <<Do(c)>>)>> \o Main(I32, <<Do(Call("outer", <<>>)), Gives(x)>>) :
             c \in {Call("inner", <<Num(1)>>), Explicitly("inner", <<I32>>, <<Num(1)>>)}}
    \cup {<<Recursion(Do(Num(0)))>> \o Main(I32, <<Gives(e)>>) : e \in {Num(1), Call("rec", <<Num(1)>>)}}

MCPrograms == BitPrograms \cup Setting \cup Recording \cup Generics1 \cup Tiered \cup Scalars \cup Looping \cup Calling \cup Scoping \cup Matching \cup Mixing \cup Effects
                \cup Leaving \cup Nests

(* Functions that call themselves or each other. *)
Down(f, g) == Function(f, <<Param("n", I32)>>, I32,
                       <<If(Below(n, Num(1)), <<Gives(Num(0))>>),
                         Gives(Plus(Num(1), Call(g, <<Binary("-", n, Num(1))>>)))>>)
RecursivePrograms ==
  {<<Down("deep_recursion", "deep_recursion")>> \o Main(I32, <<Gives(Call("deep_recursion", <<Num(1)>>))>>),
    <<Down("even", "odd"), Down("odd", "even")>> \o Main(I32, <<Gives(Call("even", <<Num(2)>>))>>),
    <<Down("f", "g"), Minus>> \o <<Function("g", <<Param("m", I32)>>, I32, <<Gives(Name("m"))>>)>>
      \o Main(I32, <<Gives(Call("f", <<Num(2)>>))>>)}
=============================================================================
