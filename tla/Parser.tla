------------------------------- MODULE Parser --------------------------------
(***************************************************************************)
(* The recursive descent parser (lang/frontend/parser.cpp).  Each operator *)
(* is the method of the same name: it takes the parser's state and returns *)
(* the state after it, with what it built in out.  An exception is a state *)
(* that is thrown: everything up to the handler leaves it as it is.        *)
(***************************************************************************)
EXTENDS Syntax

CONSTANT Capitalised      \* the names that begin with a capital letter

Token(type, text, lit) == [type |-> type, text |-> text, lit |-> lit]
Word(type) == Token(type, "", IntV(0))    \* a keyword or a sign
Ident(x) == Token("Identifier", x, IntV(0))
Eof == Word("Eof")

(* lost says what has been read and then left out without an error. *)
State(text) == [text |-> text, at |-> 1, err |-> FALSE, thrown |-> FALSE, lost |-> {}, out |-> <<>>]
Out(s, tree) == [s EXCEPT !.out = tree]
Lose(s, what) == [s EXCEPT !.lost = @ \cup what]

PeekAt(s, i) == IF i \in DOMAIN s.text THEN s.text[i] ELSE Eof
peek(s) == PeekAt(s, s.at)
is_at_end(s) == s.at > Len(s.text)
check(s, types) == peek(s).type \in types
advance(s) == IF is_at_end(s) THEN s ELSE [s EXCEPT !.at = @ + 1]
report_error(s) == [s EXCEPT !.err = TRUE]
Throw(s) == [s EXCEPT !.err = TRUE, !.thrown = TRUE]
consume(s, type) == CASE s.thrown -> s
                      [] check(s, {type}) -> advance(s)
                      [] OTHER -> Throw(s)
Skip(s, type) == IF check(s, {type}) THEN advance(s) ELSE s
SkipTo(s, types) ==
  [s EXCEPT !.at = CHOOSE i \in s.at .. Len(s.text) + 1 :
                     /\ i > Len(s.text) \/ s.text[i].type \in types
                     /\ \A j \in s.at .. i - 1 : s.text[j].type \notin types]

(* After an error: behind the next semicolon, or at a word that begins a   *)
(* statement.                                                              *)
Beginnings == {"fn", "let", "var", "for", "if", "while", "return"}
synchronize(s) ==
  LET a == advance(s)
      Stops(i) == i > Len(s.text) \/ s.text[i - 1].type = ";" \/ s.text[i].type \in Beginnings
  IN [a EXCEPT !.thrown = FALSE,
               !.at = CHOOSE i \in a.at .. Len(s.text) + 1 : Stops(i) /\ \A j \in a.at .. i - 1 : ~Stops(j)]

(* The name of a call's callee may have dots, as library names do. *)
RECURSIVE Qualified(_), QualifiedName(_)
Qualified(t) == Is(t, "Variable") \/ (Is(t, "FieldAccess") /\ Qualified(t.args[1]))
QualifiedName(t) == IF Is(t, "Variable") THEN t.name ELSE QualifiedName(t.args[1]) \o "." \o t.name
CallOn(callee, args) == IF Qualified(callee) THEN Call(QualifiedName(callee), args)
                        ELSE Call("", <<callee>> \o args)
AssignTo(target, value) == IF Is(target, "Variable") THEN Assign(target.name, value)
                           ELSE Node("Assign", "", <<target, value>>)
Kinds == Range(NumericOrder) \cup {"Bool", "Void", "Complex", "String", "Vector", "Option", "Result", "Map", "Set"}
NamedType(name, params) == IF name \in Kinds THEN Type(name, params) ELSE [Custom(name) EXCEPT !.params = params]

(* One operator goes to every rule of the grammar. *)
RECURSIVE Parse(_, _)

(* Items of a kind with commas between them: at least one. *)
RECURSIVE Commas(_, _)
Parameter(s, typed) ==
  LET name == consume(s, "Identifier")
      t == Parse("type", consume(name, ":"))
  IN IF typed \/ check(name, {":"}) THEN Out(t, Param(peek(s).text, t.out))
     ELSE Out(name, Param(peek(s).text, Unknown))
Item(s, kind) ==
  CASE kind = "expression" -> Parse("expression", s)
    [] kind = "generic" -> Out(consume(s, "Identifier"), Node("Generic", peek(s).text, <<>>))
    [] OTHER -> Parameter(s, kind = "parameter")
Commas(s, kind) ==
  LET i == Item(s, kind)
      rest == Commas(advance(i), kind)
  IN IF i.thrown \/ ~check(i, {","}) THEN Out(i, <<i.out>>) ELSE Out(rest, <<i.out>> \o rest.out)
(* None, or some in parentheses. *)
InParens(s, kind) ==
  LET a == consume(s, "(")
      items == Commas(a, kind)
  IN IF a.thrown \/ check(a, {")"}) THEN Out(consume(a, ")"), <<>>) ELSE consume(items, ")")

(****************************** types **************************************)
is_type_start(s) == check(s, {"Identifier", "TypeName", "String"})
RECURSIVE TypeParams(_, _, _)
TypeParams(s, name, params) ==
  LET a == IF params = <<>> THEN s ELSE advance(s)
      p == IF is_type_start(a) \/ (name = "Result" /\ Len(params) = 1) THEN Parse("type", a) ELSE Parse("expression", a)
  IN CASE s.thrown \/ (params # <<>> /\ ~check(s, {","})) -> Out(s, params)
       [] params # <<>> /\ check(a, {"]"}) -> Out(report_error(a), params)
       [] Len(params) >= 8 -> Out(SkipTo(report_error(a), {"]"}), params)
       [] OTHER -> TypeParams(p, name, Append(params, p.out))
parse_generic_type(s, name) ==
  LET ps == consume(TypeParams(consume(s, "["), name, <<>>), "]")
  IN Out(ps, NamedType(name, ps.out))
type(s) ==
  LET a == advance(s)
      name == peek(s).text
  IN CASE s.thrown -> s
       [] ~is_type_start(s) -> Out(report_error(s), Unknown)
       [] check(a, {"<"}) -> Out(report_error(a), Unknown)
       [] check(a, {"["}) -> parse_generic_type(a, name)
       [] OTHER -> Out(a, NamedType(name, <<>>))

(**************************** expressions **********************************)
(* From the loosest to the tightest; all associate to the left but "..",   *)
(* which does not associate, and "**", which does to the right.            *)
Levels == <<{"||"}, {"&&"}, {"|"}, {"^"}, {"&"}, {"->"}, {".."}, {"!=", "=="}, {">", ">=", "<", "<="},
            {"<<", ">>", ">>>"}, {"-", "+"}, {"/", "*", "%"}, {"**"}>>
RangeLevel == 7
ExponentLevel == 13

RECURSIVE LevelFrom(_, _), MoreOperands(_, _)
(* Mutant: operators of one level associate to the right. *)
MoreOperandsRight(left, k) ==
  LET right == LevelFrom(advance(left), k)
  IN IF left.thrown \/ ~check(left, Levels[k]) THEN left
     ELSE Out(right, Binary(peek(left).type, left.out, right.out))
MoreOperands(left, k) ==
  LET right == LevelFrom(advance(left), k + 1)
  IN IF left.thrown \/ ~check(left, Levels[k]) THEN left
     ELSE MoreOperands(Out(right, Binary(peek(left).type, left.out, right.out)), k)
LevelFrom(s, k) ==
  LET left == LevelFrom(s, k + 1)
      right == LevelFrom(advance(left), IF k = ExponentLevel THEN k ELSE k + 1)
  IN CASE k > Len(Levels) -> Parse("unary", s)
       [] k \notin {RangeLevel, ExponentLevel} -> MoreOperands(left, k)
       [] left.thrown \/ ~check(left, Levels[k]) -> left
       [] OTHER -> Out(right, Binary(peek(left).type, left.out, right.out))
(* Mutant: what is assigned is no assignment itself. *)
AssignmentOnce(s) ==
  LET target == LevelFrom(s, 1)
      value == LevelFrom(advance(target), 1)
  IN IF target.thrown \/ ~check(target, {"="}) THEN target
     ELSE Out(value, AssignTo(target.out, value.out))
assignment(s) ==
  LET target == LevelFrom(s, 1)
      value == Parse("expression", advance(target))
  IN CASE target.thrown \/ ~check(target, {"="}) -> target
       [] ~value.thrown /\ target.out.op \notin {"Variable", "Index", "FieldAccess"} ->
            Out(report_error(value), target.out)
       [] OTHER -> Out(value, AssignTo(target.out, value.out))
expression(s) == IF s.thrown THEN s ELSE assignment(s)

(* Statements of a block, up to its brace.  The last may be an expression  *)
(* without a semicolon, which is the block's value.                        *)
Final(e) == Node("Final", "", <<e>>)
Broken == Node("Broken", "", <<>>)
RECURSIVE parse_block_body(_, _)
parse_block_body(s, stmts) ==
  LET i == Parse("inner", s)
      Body(final) == Out(i, [stmts |-> stmts, final |-> final])
  IN CASE s.thrown \/ check(s, {"}"}) \/ is_at_end(s) -> Out(s, [stmts |-> stmts, final |-> <<>>])
       [] i.thrown -> parse_block_body(synchronize(i), stmts)
       [] Is(i.out, "Final") -> Body(i.out.args)
       [] i.out = Broken -> Body(<<>>)
       [] OTHER -> parse_block_body(i, Append(stmts, i.out))
block(s) ==
  LET b == consume(parse_block_body(s, <<>>), "}")
  IN Out(b, b.out.stmts \o [i \in DOMAIN b.out.final |-> Do(b.out.final[i])])
block_expression(s) ==
  LET b == consume(parse_block_body(consume(s, "{"), <<>>), "}")
  IN Out(b, IF b.out.final = <<>> THEN Braces(b.out.stmts) ELSE BlockOf(b.out.stmts, b.out.final[1]))
Condition(s) == consume(Parse("expression", consume(s, "(")), ")")
(* The rest of an if with braces, behind its condition. *)
Branches(c) ==
  LET then == Parse("block_expression", c)
      e == advance(then)
      else == IF check(e, {"if"}) THEN Parse("branches", Parse("condition", advance(e))) ELSE Parse("block_expression", e)
  IN IF then.thrown \/ ~check(then, {"else"}) THEN Out(then, Node("IfExpr", "", <<c.out, then.out>>))
     ELSE Out(else, Node("IfExpr", "", <<c.out, then.out, else.out>>))

(* A bracket behind a name opens type parameters when a type could follow, *)
(* and an index otherwise.                                                 *)
LooksLikeType(token) == \/ token.type \in {"TypeName", "String"}
                        \/ token.type = "Identifier" /\ token.text \in Capitalised
RECURSIVE Elements(_), RecordFields(_, _)
Elements(s) ==
  LET e == Parse("expression", s)
      a == advance(e)
      rest == Elements(a)
  IN CASE e.thrown \/ ~check(e, {","}) -> Out(e, <<e.out>>)
       [] check(a, {"]"}) -> Out(a, <<e.out>>)
       [] OTHER -> Out(rest, <<e.out>> \o rest.out)
VectorLiteral(s) ==
  LET es == Elements(s)
      count == Parse("expression", advance(es))
  IN CASE check(s, {"]"}) -> Out(advance(s), Vector(<<>>))
       [] ~es.thrown /\ Len(es.out) = 1 /\ check(es, {";"}) ->
            Out(consume(count, "]"), [Vector(es.out \o <<count.out>>) EXCEPT !.mark = "repeat"])
       [] OTHER -> Out(consume(es, "]"), Vector(es.out))
RecordFields(s, fields) ==
  LET v == Parse("expression", consume(consume(s, "Identifier"), ":"))
      more == Append(fields, Node("Field", peek(s).text, <<v.out>>))
  IN CASE s.thrown \/ check(s, {"}"}) -> Out(s, fields)
       [] ~v.thrown /\ check(v, {",", ";"}) -> RecordFields(advance(v), more)
       [] OTHER -> Out(v, more)
record_literal(s, name) ==
  LET fs == consume(RecordFields(s, <<>>), "}") IN Out(fs, Node("RecordLiteral", name, fs.out))
FieldNames == {"Identifier", "TypeName", "type", "record", "enum", "fn", "let", "var", "if", "else", "for", "in",
               "while", "loop", "reflect", "break", "continue", "return", "match", "true", "false"}
TypeName(t, s) == Out(s, [Node("TypeExpr", "", <<>>) EXCEPT !.type = t])
Postfix(e) ==
  LET a == advance(e)
      args == Parse("expressions", e)
      index == consume(Parse("expression", a), "]")
  IN CASE e.thrown -> e
       [] check(e, {"."}) /\ ~check(a, FieldNames) -> Throw(a)
       [] check(e, {"."}) -> Parse("postfix", Out(advance(a), FieldOf(e.out, IF peek(a).text = "" THEN peek(a).type ELSE peek(a).text)))
       [] check(e, {"("}) -> Parse("postfix", Out(args, CallOn(e.out, args.out)))
       [] check(e, {"["}) -> Parse("postfix", Out(index, Index(e.out, index.out)))
       [] OTHER -> e

(* The arms of a match have a comma or a semicolon between them.  An arm   *)
(* that fails is skipped.                                                  *)
ArmEnds == {";", ",", "}"}
Separator(s) == IF check(s, {";", ","}) THEN advance(s) ELSE s
ArmOf(variant, pattern, guard, value) ==
  IF pattern.op \in {"NoPattern", "Binding"} THEN [Node("Arm", variant, Append(guard, value)) EXCEPT !.mark = pattern.name]
  ELSE Node("PatternArm", variant, <<pattern>> \o Append(guard, value))
NoPattern == Node("NoPattern", "", <<>>)
PatternInParens(s) == IF check(s, {")"}) THEN Out(s, NoPattern) ELSE Parse("pattern", s)
GuardUnreported(s) ==   \* mutant: a guard that is missing is not reported
  LET a == advance(s)
      e == Parse("expression", a)
  IN CASE s.thrown \/ ~check(s, {"if"}) -> Out(s, <<>>)
       [] check(a, {"=>"}) -> Out(a, <<>>)
       [] OTHER -> Out(e, <<e.out>>)
Guard(s) ==
  LET a == advance(s)
      e == Parse("expression", a)
  IN CASE s.thrown \/ ~check(s, {"if"}) -> Out(s, <<>>)
       [] check(a, {"=>"}) -> Out(report_error(a), <<>>)
       [] OTHER -> Out(e, <<e.out>>)
match_arm(s) ==
  LET v == consume(s, "Identifier")
      p == Parse("inner_pattern", advance(v))
      closed == CASE v.thrown \/ ~check(v, {"("}) -> Out(v, NoPattern)
                  [] p.thrown \/ check(p, {")"}) -> consume(p, ")")
                  [] check(p, {"=>", "if"}) -> report_error(p)
                  [] OTHER -> Throw(p)
      g == Guard(closed)
      value == Parse("expression", consume(g, "=>"))
  IN IF value.thrown THEN value ELSE Out(value, ArmOf(peek(s).text, closed.out, g.out, value.out))
RECURSIVE ArmsFrom(_, _)
ArmsFrom(s, arms) ==
  LET a == Parse("arm", s)
      more == Append(arms, a.out)
      missing == report_error(a)
  IN CASE s.thrown \/ check(s, {"}"}) \/ is_at_end(s) -> Out(s, arms)
       [] a.thrown -> ArmsFrom(Separator(SkipTo([a EXCEPT !.thrown = FALSE], ArmEnds)), arms)
       [] check(a, ArmEnds) -> ArmsFrom(Separator(a), more)
       [] check(a, {"Identifier"}) -> ArmsFrom(missing, more)
       [] OTHER -> ArmsFrom(Separator(SkipTo(missing, ArmEnds)), more)
match_expression(s) ==
  LET value == Parse("condition", s)
      arms == consume(ArmsFrom(consume(value, "{"), <<>>), "}")
  IN Out(arms, Match(value.out, arms.out))

(* Patterns: a name, a variant of a pattern, names, fields. *)
RECURSIVE FieldPatterns(_, _), TuplePattern(_, _)
FieldPatterns(s, fields) ==
  LET name == peek(s).text
      a == advance(s)
      b == advance(a)
      bound == IF check(b, {"Identifier"}) THEN advance(b) ELSE SkipTo(report_error(b), ArmEnds)
      f == IF check(a, {":"}) THEN bound ELSE a
      binding == IF check(a, {":"}) /\ check(b, {"Identifier"}) THEN peek(b).text ELSE name
      more == Append(fields, [Node("Binding", name, <<>>) EXCEPT !.mark = binding])
  IN CASE check(s, {"}"}) \/ is_at_end(s) -> Out(s, fields)
       [] ~check(s, {"Identifier"}) -> FieldPatterns(Separator(SkipTo(report_error(s), ArmEnds)), fields)
       [] check(f, {"}"}) -> Out(f, more)
       [] check(f, {",", ";"}) -> FieldPatterns(advance(f), more)
       [] OTHER -> FieldPatterns(Separator(SkipTo(report_error(f), ArmEnds)), more)
TuplePattern(s, names) ==
  LET a == advance(s)
      more == Append(names, Name(peek(s).text))
      skipped == SkipTo(report_error(s), {",", ")"})
  IN CASE check(s, {"Identifier"}) /\ check(a, {","}) -> TuplePattern(advance(a), more)
       [] check(s, {"Identifier"}) -> Out(a, Node("Tuple", "", more))
       [] check(skipped, {","}) -> TuplePattern(advance(skipped), names)
       [] OTHER -> Out(skipped, Node("Tuple", "", names))
parse_match_pattern(s) ==
  LET name == peek(s).text
      a == advance(s)
      fields == consume(FieldPatterns(a, <<>>), "}")
      inner == Parse("inner_pattern", advance(a))
      nested == consume(inner, ")")
  IN CASE check(s, {"{"}) -> Out(fields, Node("Fields", "", fields.out))
       [] ~check(s, {"Identifier"}) -> Throw(s)
       [] check(a, {"("}) -> Out(nested, Node("Nested", name, IF inner.out = NoPattern THEN <<>> ELSE <<inner.out>>))
       [] check(a, {","}) -> TuplePattern(advance(a), <<Name(name)>>)
       [] OTHER -> Out(a, Node("Binding", name, <<>>))

NamePrimary(s, name) ==
  LET generic == parse_generic_type(s, name)
  IN CASE check(s, {"["}) /\ LooksLikeType(PeekAt(s, s.at + 1)) -> Parse("postfix", TypeName(generic.out, generic))
       [] check(s, {"{"}) -> record_literal(advance(s), name)
       [] OTHER -> Parse("postfix", Out(s, Name(name)))
Literals == {"false", "true", "Integer", "Float", "String"}
primary(s) ==
  LET a == advance(s)
      inner == Parse("expression", a)
      grouped == consume(inner, ")")
      seed == consume(Parse("expression", consume(a, "{")), "}")
      t == Parse("type", s)
  IN CASE check(s, {"match"}) -> match_expression(a)
       [] check(s, Literals) -> Parse("postfix", Out(a, [Lit(peek(s).lit) EXCEPT !.name = peek(s).text]))
       [] check(s, {"["}) -> Parse("postfix", Parse("vector", a))
       [] check(s, {"("}) -> Parse("postfix", Out(grouped, Node("Grouping", "", <<grouped.out>>)))
       [] check(s, {"if"}) -> Parse("branches", Parse("condition", a))
       [] check(s, {"{"}) -> Parse("block_expression", s)
       [] check(s, {"Identifier"}) -> NamePrimary(a, peek(s).text)
       [] check(s, {"Symbol"}) -> Parse("postfix", Out(a, Node("Symbol", peek(s).text, <<>>)))
       [] check(s, {"InfiniteLiteral"}) -> Parse("postfix", Out(seed, Node("InfiniteLiteral", "", <<seed.out>>)))
       [] check(s, {"infer"}) -> Parse("postfix", Out(inner, Node("Infer", "", <<inner.out>>)))
       [] check(s, {"TypeName"}) -> Parse("postfix", TypeName(t.out, t))
       [] OTHER -> Throw(s)
unary(s) ==
  LET e == Parse("unary", advance(s))
  IN CASE s.thrown -> s
       [] check(s, {"!", "-", "~"}) -> Out(e, Unary(peek(s).type, e.out))
       [] OTHER -> primary(s)

(***************************** attributes **********************************)
(* The argument of one attribute: a positive version, a module's path, a   *)
(* tier from 1 to 5.                                                       *)
RECURSIVE ModulePath(_, _)
ModulePath(s, path) ==
  LET name == consume(advance(s), "Identifier")
  IN IF check(s, {"."}) /\ ~s.thrown THEN ModulePath(name, path \o "." \o peek(advance(s)).text)
     ELSE Out(s, [Node("Attribute", "module", <<>>) EXCEPT !.mark = path])
AttributeValue(s, name) ==
  LET n == peek(s).lit.n
      number == consume(s, "Integer")
      good == n > 0 /\ (name = "tier" => n < 6)
      path == ModulePath(consume(s, "Identifier"), peek(s).text)
  IN CASE s.thrown -> s
       [] name = "module" -> path
       [] number.thrown -> number
       [] OTHER -> Out(IF good THEN number ELSE report_error(number), Attribute(name, IntV(n)))
RECURSIVE Attributes(_, _, _)
Attributes(s, names, seen) ==
  LET name == PeekAt(s, s.at + 1)
      a == consume(advance(advance(s)), "(")
      again == \E i \in DOMAIN seen : seen[i].name = name.text
      v == consume(AttributeValue(IF again THEN report_error(a) ELSE a, name.text), ")")
  IN IF ~s.thrown /\ check(s, {"@"}) /\ name.type = "Identifier" /\ name.text \in names
     THEN Attributes(v, names, Append(seen, v.out)) ELSE Out(s, seen)
parse_structural_attributes(s) == Attributes(s, {"schema", "module"}, <<>>)
parse_function_attributes(s) == Attributes(s, {"tier"}, <<>>)

(* What bounds a loop: the kind, a number, a guard. *)
Bound(mark, lit, guard) == [mark |-> mark, lit |-> lit, guard |-> guard]
NoBound == Bound("", IntV(0), <<>>)
BoundArgument(s) ==
  LET a == advance(s)
      g == Parse("condition", a)
  IN CASE s.thrown -> s
       [] check(s, {"infinite"}) -> Out(a, Bound("infinite", IntV(0), <<>>))
       [] check(s, {"loop"}) -> Out(g, Bound("guarded", IntV(0), <<g.out>>))
       [] check(s, {"Identifier"}) -> Out(report_error(a), NoBound)
       [] check(s, {"Integer"}) -> Out(a, Bound("bounded", peek(s).lit, <<>>))
       [] OTHER -> Out(report_error(s), NoBound)
parse_loop_annotation(s) ==
  LET name == peek(advance(s))
      a == consume(advance(s), "Identifier")
      named == IF a.thrown \/ name.text = "bounded" THEN a ELSE report_error(a)
  IN IF check(s, {"@"}) THEN consume(BoundArgument(consume(named, "(")), ")") ELSE Out(s, NoBound)

(***************************** statements **********************************)
(* The range of a loop is part of it when it is written with "..". *)
ForOver(x, range, body, bound) ==
  LET low_high == IF Is(range, "Binary") /\ range.name = ".." THEN range.args ELSE <<range>>
  IN [Node("For", x, Append(low_high, body)) EXCEPT !.mark = bound.mark, !.lit = bound.lit]
for_statement(s, bound) ==
  LET range == Parse("expression", consume(consume(s, "Identifier"), "in"))
      body == Parse("statement", range)
  IN IF body.thrown THEN body
     ELSE Out(Lose(body, IF bound.guard = <<>> THEN {} ELSE {"the guard of a range loop"}),
              ForOver(peek(s).text, range.out, body.out, bound))
loop_statement(s) ==
  LET b == Parse("bound", s)
      body == Parse("block", consume(consume(b, "loop"), "{"))
  IN CASE b.thrown -> b
       [] check(b, {"for"}) -> for_statement(advance(b), b.out)
       [] OTHER -> Out(body, [Loop(b.out.mark, b.out.guard \o body.out) EXCEPT !.lit = b.out.lit])
(* An if without braces, behind its condition. *)
if_statement(c) ==
  LET then == Parse("statement", c)
      else == Parse("statement", advance(then))
  IN IF ~then.thrown /\ check(then, {"else"}) THEN Out(else, If(c.out, <<then.out, else.out>>))
     ELSE Out(then, If(c.out, <<then.out>>))
return_statement(s) ==
  LET v == Parse("expression", s)
  IN IF check(s, {";"}) THEN Out(advance(s), Return(<<>>)) ELSE Out(consume(v, ";"), Return(<<v.out>>))
Tiers == [reflect |-> "Reflect", distributed |-> "Distributed", infinite |-> "Infinite"]
TierBlock(s, op) == LET b == Parse("block", consume(s, "{")) IN Out(b, Node(op, "", b.out))
statement(s) ==
  LET a == advance(s)
      c == Parse("condition", a)
      body == Parse("statement", c)
      model == Parse("block", consume(c, "{"))
      b == Parse("block", a)
      e == consume(Parse("expression", s), ";")
  IN CASE s.thrown -> s
       [] check(s, {"if"}) -> Parse("if", c)
       [] check(s, {"while"}) -> Out(body, While(c.out, body.out))
       [] check(s, {"for"}) -> for_statement(a, NoBound)
       [] check(s, DOMAIN Tiers) -> TierBlock(a, Tiers[peek(s).type])
       [] check(s, {"train"}) -> Out(model, Node("Train", "", <<c.out>> \o model.out))
       [] check(s, {"@", "loop"}) -> loop_statement(s)
       [] check(s, {"break"}) -> Out(consume(a, ";"), Break)
       [] check(s, {"continue"}) -> Out(consume(a, ";"), Continue)
       [] check(s, {"return"}) -> return_statement(a)
       [] check(s, {"{"}) -> Out(b, Block(b.out))
       [] OTHER -> Out(e, Do(e.out))

(* In a block an if with braces and a block are expressions, and the value *)
(* of the block when its brace follows.                                    *)
EndsBlock(e) ==
  CASE e.thrown -> e
    [] check(e, {"}"}) -> Out(e, Final(e.out))
    [] OTHER -> Out(e, Do(e.out))
StatementWords == {"while", "for", "reflect", "loop", "@", "break", "continue", "return"}
block_item(s) ==
  LET c == Parse("condition", advance(s))
      e == IF check(s, {"if"}) THEN Parse("branches", c) ELSE Parse("expression", s)
  IN CASE s.thrown -> s
       [] check(s, {"if"}) /\ ~c.thrown /\ ~check(c, {"{"}) -> Parse("if", c)
       [] check(s, {"{"}) -> EndsBlock(Parse("block_expression", s))
       [] check(s, StatementWords) -> Parse("statement", s)
       [] e.thrown -> e
       [] check(e, {";"}) -> Out(advance(e), Do(e.out))
       [] check(s, {"if"}) \/ check(e, {"}"}) -> EndsBlock(e)
       [] OTHER -> Out(report_error(e), Broken)

(**************************** declarations *********************************)
GenericParams(s) ==
  LET ps == Commas(advance(s), "generic")
      cut == Out(report_error(ps), SubSeq(ps.out, 1, 8))
  IN CASE s.thrown \/ ~check(s, {"["}) -> Out(s, <<>>)
       [] ~ps.thrown /\ Len(ps.out) > 8 -> Throw(cut)
       [] OTHER -> consume(ps, "]")
function(s, tier) ==
  LET gs == Parse("generics", consume(s, "Identifier"))
      ps == Parse("parameters", gs)
      t == IF check(ps, {"->"}) THEN Parse("type", advance(ps)) ELSE Out(ps, Basic("Void"))
      b == Parse("block", consume(t, "{"))
  IN IF b.thrown THEN b ELSE Out(b, Function(peek(s).text, tier \o gs.out \o ps.out, t.out, b.out))
recurse_declaration(s) ==
  LET ps == Parse("untypeds", consume(s, "Identifier"))
      b == Parse("block", consume(ps, "{"))
  IN IF b.thrown THEN b ELSE Out(b, Node("Recurse", peek(s).text, ps.out \o b.out))
type_declaration(s) ==
  LET gs == Parse("generics", consume(s, "Identifier"))
      t == Parse("type", consume(gs, "="))
  IN Out(consume(t, ";"), [Node("Type", peek(s).text, gs.out) EXCEPT !.type = t.out])

(* Fields and variants; what is no name is skipped up to a semicolon. *)
RECURSIVE Members(_, _, _)
Members(s, kind, list) ==
  LET name == advance(s)
      t == IF kind = "Member" THEN Parse("type", consume(name, ":"))
           ELSE IF check(name, {"("}) THEN consume(Parse("type", advance(name)), ")") ELSE Out(name, Unknown)
      member == consume(t, ";")
      skipped == SkipTo(advance(report_error(s)), {";", "}"})
  IN CASE s.thrown \/ check(s, {"}"}) \/ is_at_end(s) -> Out(s, list)
       [] ~check(s, {"Identifier"}) -> Members(Skip(skipped, ";"), kind, list)
       [] OTHER -> Members(member, kind, Append(list, [Node(kind, peek(s).text, <<>>) EXCEPT !.type = t.out]))
Structure(s, kind, attributes) ==
  LET ms == Members(consume(consume(s, "Identifier"), "{"), IF kind = "Record" THEN "Member" ELSE "Variant", <<>>)
  IN Out(consume(consume(ms, "}"), ";"), Node(kind, peek(s).text, attributes \o ms.out))

(* Var may do without an initialiser. *)
VarOrLet(s, isVar) ==
  LET name == consume(s, "Identifier")
      t == IF check(name, {":"}) THEN Parse("type", advance(name)) ELSE Out(name, Unknown)
      e == Parse("expression", consume(t, "="))
      end == IF isVar /\ ~check(t, {"="}) THEN Out(t, <<>>) ELSE Out(e, <<e.out>>)
  IN Out(consume(end, ";"), [Node(IF isVar THEN "Var" ELSE "Let", peek(s).text, end.out) EXCEPT !.type = t.out])

(* A declaration, at the top of a file or in a block, where a function's   *)
(* attributes are not passed on and there is no recurse.                   *)
declaration(s, top) ==
  LET sa == Parse("structural", s)
      fa == Parse("functional", sa)
      a == advance(fa)
      f == IF sa.out = <<>> THEN a ELSE report_error(a)
      g == IF sa.out \o fa.out = <<>> THEN fa ELSE report_error(fa)
      Drop(x, attributes, of) == Lose(x, IF attributes = <<>> THEN {} ELSE {of})
  IN CASE s.thrown \/ sa.thrown \/ fa.thrown -> fa
       [] check(fa, {"type"}) -> type_declaration(Drop(a, sa.out \o fa.out, "an attribute of a type"))
       [] check(fa, {"record"}) -> Structure(Drop(a, fa.out, "the tier of a structure"), "Record", sa.out)
       [] check(fa, {"enum"}) -> Structure(Drop(a, fa.out, "the tier of a structure"), "Enum", sa.out)
       [] check(fa, {"fn"}) /\ top -> function(f, fa.out)
       [] check(fa, {"fn"}) -> function(Drop(f, fa.out, "the tier of an inner function"), <<>>)
       [] check(fa, {"recurse"}) /\ top -> recurse_declaration(Drop(f, fa.out, "the tier of a recursion"))
       [] check(fa, {"var", "let"}) -> VarOrLet(advance(g), check(fa, {"var"}))
       [] top -> Parse("statement", g)
       [] OTHER -> block_item(g)

RECURSIVE DeclarationsFrom(_, _)
DeclarationsFrom(s, decls) ==
  LET d == Parse("outer", s)
  IN CASE is_at_end(s) -> Out(s, decls)
       [] d.thrown -> DeclarationsFrom(synchronize(d), decls)
       [] OTHER -> DeclarationsFrom(d, Append(decls, d.out))
Parse(rule, s) ==
  CASE rule = "expression" -> expression(s)
    [] rule = "unary" -> unary(s)
    [] rule = "postfix" -> Postfix(s)
    [] rule = "type" -> type(s)
    [] rule = "statement" -> statement(s)
    [] rule = "block" -> block(s)
    [] rule = "block_expression" -> block_expression(s)
    [] rule = "condition" -> Condition(s)
    [] rule = "branches" -> Branches(s)
    [] rule = "if" -> if_statement(s)
    [] rule = "generics" -> GenericParams(s)
    [] rule = "pattern" -> parse_match_pattern(s)
    [] rule = "inner_pattern" -> PatternInParens(s)
    [] rule = "arm" -> match_arm(s)
    [] rule = "structural" -> parse_structural_attributes(s)
    [] rule = "functional" -> parse_function_attributes(s)
    [] rule = "bound" -> parse_loop_annotation(s)
    [] rule = "vector" -> VectorLiteral(s)
    [] rule = "expressions" -> InParens(s, "expression")
    [] rule = "parameters" -> InParens(s, "parameter")
    [] rule = "untypeds" -> InParens(s, "untyped")
    [] rule = "declarations" -> DeclarationsFrom(s, <<>>)
    [] rule = "inner" -> declaration(s, FALSE)
    [] rule = "outer" -> declaration(s, TRUE)

parse(text) == Parse("declarations", State(text))
=============================================================================
