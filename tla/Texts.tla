-------------------------------- MODULE Texts --------------------------------
(***************************************************************************)
(* Texts of programs and what the parser makes of them.  A text begins as  *)
(* the writing of a tree, by the grammar in the comments of parser.cpp,    *)
(* and is then damaged.                                                    *)
(***************************************************************************)
EXTENDS Parser

CONSTANTS
  Sources,      \* the trees that are written
  Damaged,      \* those whose writing is damaged
  Segments,     \* the parts of names with dots
  Spare,        \* tokens that may get into a text
  MaxEdits      \* how many times a text is damaged (a bound of the model)

VARIABLES source, text, edits, parsed
vars == <<source, text, edits, parsed>>

(****************************** writing ************************************)
Words(types) == [i \in DOMAIN types |-> Word(types[i])]
Between(left, words, right) == <<Word(left)>> \o words \o <<Word(right)>>
RECURSIVE Join(_, _)
Join(texts, sep) ==
  IF Len(texts) < 2 THEN FlattenSeq(texts) ELSE Head(texts) \o <<Word(sep)>> \o Join(Tail(texts), sep)
Path(name) ==
  Join(IF name \in DOMAIN Segments THEN [i \in DOMAIN Segments[name] |-> <<Ident(Segments[name][i])>>]
       ELSE <<<<Ident(name)>>>>, ".")
Keywords == {"I32", "Bool", "Void", "Float", "Vector", "Fixed"}    \* of the types in use

RECURSIVE Write(_)
WriteAll(trees) == FlattenSeq([i \in DOMAIN trees |-> Write(trees[i])])
Listed(trees, sep) == Join([i \in DOMAIN trees |-> Write(trees[i])], sep)
Named(op, trees) == SelectSeq(trees, LAMBDA t : t.op = op)
Others(ops, trees) == SelectSeq(trees, LAMBDA t : t.op \notin ops)

Quoted == {"String", "k"}            \* names of types that are texts for the lexer
WriteSymbol(kind) == CASE kind \in Quoted -> <<Token("String", kind, IntV(0))>>
                       [] kind \in Keywords -> <<Token("TypeName", kind, IntV(0))>>
                       [] OTHER -> <<Ident(kind)>>
RECURSIVE WriteType(_)
WriteType(t) ==
  LET Param1(p) == IF "op" \in DOMAIN p THEN Write(p) ELSE WriteType(p)
  IN WriteSymbol(IF t.kind = "Custom" THEN t.name ELSE t.kind)
       \o IF t.params = <<>> THEN <<>>
          ELSE Between("[", Join([i \in DOMAIN t.params |-> Param1(t.params[i])], ","), "]")
Annotated(t) == IF t.type = Unknown THEN <<>> ELSE <<Word(":")>> \o WriteType(t.type)
Initial(t) == IF t.args = <<>> THEN <<>> ELSE <<Word("=")>> \o Write(t.args[1])
InBraces(trees) == Between("{", WriteAll(trees), "}")
InBrackets(trees) == IF trees = <<>> THEN <<>> ELSE Between("[", Listed(trees, ","), "]")

LiteralTypes == [Int |-> "Integer", Float |-> "Float", Text |-> "String", Symbol |-> "String"]
WriteLiteral(t) ==
  IF t.lit.tag = "Bool" THEN <<Token(IF t.lit.n = 1 THEN "true" ELSE "false", "", t.lit)>>
  ELSE <<Token(LiteralTypes[t.lit.tag], t.name, t.lit)>>
WriteArm(t, pattern, rest) ==
  LET guard == IF Len(rest) = 2 THEN <<Word("if")>> \o Write(rest[1]) ELSE <<>>
  IN <<Ident(t.name)>> \o pattern \o guard \o <<Word("=>")>> \o Write(Last(rest))
WriteExpression(t) ==
  LET w == [i \in DOMAIN t.args |-> Write(t.args[i])]
      sep == t.mark = "repeat"
  IN CASE Is(t, "Literal") -> WriteLiteral(t)
       [] Is(t, "Variable") -> <<Ident(t.name)>>
       [] Is(t, "Symbol") -> <<Token("Symbol", t.name, IntV(0))>>
       [] Is(t, "FieldAccess") -> w[1] \o <<Word("."), Ident(t.name)>>
       [] Is(t, "Binary") -> w[1] \o <<Word(t.name)>> \o w[2]
       [] Is(t, "Unary") -> <<Word(t.name)>> \o w[1]
       [] Is(t, "Grouping") -> Between("(", w[1], ")")
       [] Is(t, "Assign") -> Join(IF t.name = "" THEN w ELSE <<<<Ident(t.name)>>>> \o w, "=")
       [] Is(t, "Call") /\ t.name = "" -> w[1] \o Between("(", Listed(Tail(t.args), ","), ")")
       [] Is(t, "Call") -> Path(t.name) \o Between("(", Listed(t.args, ","), ")")
       [] Is(t, "TypeExpr") -> WriteType(t.type)
       [] Is(t, "Index") -> w[1] \o Between("[", w[2], "]")
       [] Is(t, "VectorLiteral") -> Between("[", Join(w, IF sep THEN ";" ELSE ","), "]")
       [] Is(t, "IfExpr") -> <<Word("if")>> \o Between("(", w[1], ")") \o Join(Tail(w), "else")
       [] Is(t, "BlockExpr") -> Between("{", FlattenSeq(w), "}")
       [] Is(t, "Match") -> <<Word("match")>> \o Between("(", w[1], ")") \o Between("{", Join(Tail(w), ","), "}")
       [] Is(t, "Arm") -> WriteArm(t, IF t.mark = "" THEN <<>> ELSE Between("(", <<Ident(t.mark)>>, ")"), t.args)
       [] Is(t, "PatternArm") -> WriteArm(t, Between("(", w[1], ")"), Tail(t.args))
       [] Is(t, "Binding") -> <<Ident(t.name)>> \o IF t.mark \in {"", t.name} THEN <<>> ELSE <<Word(":"), Ident(t.mark)>>
       [] Is(t, "Nested") -> <<Ident(t.name)>> \o Between("(", FlattenSeq(w), ")")
       [] Is(t, "Tuple") -> Join(w, ",")
       [] Is(t, "Fields") -> Between("{", Join(w, ","), "}")
       [] Is(t, "RecordLiteral") -> <<Ident(t.name)>> \o Between("{", Join(w, ","), "}")
       [] Is(t, "Field") -> <<Ident(t.name), Word(":")>> \o w[1]
       [] Is(t, "InfiniteLiteral") -> <<Word("InfiniteLiteral")>> \o Between("{", w[1], "}")
       [] Is(t, "Infer") -> <<Word("infer")>> \o w[1]
WriteBound(t) ==
  LET Bounded(words) == Words(<<"@">>) \o <<Ident("bounded")>> \o Between("(", words, ")")
  IN CASE t.mark = "infinite" -> Bounded(Words(<<"infinite">>))
       [] t.mark = "bounded" -> Bounded(<<Token("Integer", "", t.lit)>>)
       [] t.mark = "guarded" -> Bounded(<<Word("loop")>> \o Between("(", Write(t.args[1]), ")"))
       [] OTHER -> <<>>
WriteAttribute(t) ==
  <<Word("@"), Ident(t.name)>>
    \o Between("(", IF t.name = "module" THEN Path(t.mark) ELSE <<Token("Integer", "", t.lit)>>, ")")
WriteMember(t) ==
  <<Ident(t.name)>> \o (IF Is(t, "Variant") /\ t.type # Unknown THEN Between("(", WriteType(t.type), ")") ELSE Annotated(t))
    \o Words(<<";">>)
TierWords == [Reflect |-> "reflect", Distributed |-> "distributed", Infinite |-> "infinite"]
WriteStructure(t, word) ==
  WriteAll(Named("Attribute", t.args)) \o <<Word(word), Ident(t.name)>>
    \o InBraces(Others({"Attribute"}, t.args))
    \o Words(<<";">>)
WriteFunction(t) ==
  LET heads == {"Attribute", "Generic", "Param"}
  IN WriteAll(Named("Attribute", t.args)) \o <<Word("fn"), Ident(t.name)>> \o InBrackets(Named("Generic", t.args))
       \o Between("(", Listed(Named("Param", t.args), ","), ")")
       \o (IF t.type = Basic("Void") THEN <<>> ELSE <<Word("->")>> \o WriteType(t.type))
       \o InBraces(Others(heads, t.args))
WriteStatement(t) ==
  LET w == [i \in DOMAIN t.args |-> Write(t.args[i])]
      Ended(words) == words \o Words(<<";">>)
      last == Len(t.args)
  IN CASE Is(t, "Let") -> Ended(<<Word("let"), Ident(t.name)>> \o Annotated(t) \o Initial(t))
       [] Is(t, "Var") -> Ended(<<Word("var"), Ident(t.name)>> \o Annotated(t) \o Initial(t))
       [] Is(t, "Expression") -> IF Is(t.args[1], "BlockExpr") THEN w[1] ELSE Ended(w[1])
       [] Is(t, "Block") -> InBraces(t.args)
       [] Is(t, "If") -> <<Word("if")>> \o Between("(", w[1], ")") \o Join(Tail(w), "else")
       [] Is(t, "While") -> <<Word("while")>> \o Between("(", w[1], ")") \o w[2]
       [] Is(t, "For") -> WriteBound(t) \o <<Word("for"), Ident(t.name), Word("in")>> \o Join(Front(w), "..") \o w[last]
       [] Is(t, "Loop") -> WriteBound(t) \o <<Word("loop")>> \o InBraces(IF t.mark = "guarded" THEN Tail(t.args) ELSE t.args)
       [] t.op \in DOMAIN TierWords -> <<Word(TierWords[t.op])>> \o InBraces(t.args)
       [] Is(t, "Train") -> <<Word("train")>> \o Between("(", w[1], ")") \o InBraces(Tail(t.args))
       [] Is(t, "Break") -> Words(<<"break", ";">>)
       [] Is(t, "Continue") -> Words(<<"continue", ";">>)
       [] Is(t, "Return") -> Ended(<<Word("return")>> \o FlattenSeq(w))
       [] t.op \in {"Param", "Generic"} -> <<Ident(t.name)>> \o Annotated(t)
       [] Is(t, "Function") -> WriteFunction(t)
       [] Is(t, "Recurse") -> <<Word("recurse"), Ident(t.name)>> \o Between("(", Listed(Named("Param", t.args), ","), ")")
                                \o InBraces(Others({"Param"}, t.args))
       [] Is(t, "Type") -> Ended(<<Word("type"), Ident(t.name)>> \o InBrackets(t.args) \o <<Word("=")>> \o WriteType(t.type))
       [] Is(t, "Record") -> WriteStructure(t, "record")
       [] Is(t, "Enum") -> WriteStructure(t, "enum")
       [] t.op \in {"Member", "Variant"} -> WriteMember(t)
       [] Is(t, "Attribute") -> WriteAttribute(t)
Statements == {"Let", "Var", "Expression", "Block", "If", "While", "For", "Loop", "Train", "Break", "Continue", "Return",
               "Param", "Generic", "Function", "Recurse", "Type", "Record", "Enum", "Member", "Variant", "Attribute"} \cup DOMAIN TierWords
Write(t) == IF t.op \in Statements THEN WriteStatement(t) ELSE WriteExpression(t)

(* An expression needs no parentheses where its operator binds tighter     *)
(* than the one around it.                                                 *)
Tightness(t) ==
  CASE Is(t, "Assign") -> 0
    [] Is(t, "Binary") -> CHOOSE k \in DOMAIN Levels : t.name \in Levels[k]
    [] Is(t, "Unary") -> 14
    [] OTHER -> 15
BindsHere(t) ==
  LET k == Tightness(t)
      Tight(i, least) == Tightness(t.args[i]) >= least
  IN CASE Is(t, "Binary") -> /\ Tight(1, IF t.name \in {"..", "**"} THEN k + 1 ELSE k)
                             /\ Tight(2, IF t.name = "**" THEN k ELSE k + 1)
       [] Is(t, "Unary") -> Tight(1, 14)
       [] Is(t, "Index") \/ (t.op \in {"FieldAccess", "Call"} /\ t.args # <<>> /\ (t.name = "" \/ Is(t, "FieldAccess"))) -> Tight(1, 15)
       [] OTHER -> TRUE

(***************************** behaviour ***********************************)
Result_(s) == [tree |-> s.out, err |-> s.err, lost |-> s.lost]
Reading(words) == Result_(parse(words))
Init ==
  /\ source \in Sources
  /\ text = WriteAll(source)
  /\ edits = 0
  /\ parsed = Reading(text)
Without == {RemoveAt(text, i) : i \in DOMAIN text}
Swapped == {[text EXCEPT ![i] = text[i + 1], ![i + 1] = text[i]] : i \in 1 .. Len(text) - 1}
With == {InsertAt(text, i, token) : i \in 1 .. Len(text) + 1, token \in Spare}
Replaced == {[text EXCEPT ![i] = token] : i \in DOMAIN text, token \in Spare}
Damage ==
  /\ edits < MaxEdits /\ source \in Damaged
  /\ edits' = edits + 1
  /\ text' \in Without \cup Swapped \cup With \cup Replaced
  /\ parsed' = Reading(text')
  /\ UNCHANGED source
Next == Damage
Spec == Init /\ [][Next]_vars

(***************************** properties **********************************)
TypeOK ==
  /\ source \in Sources
  /\ edits \in 0..MaxEdits
  /\ parsed.err \in BOOLEAN

(* Two writings the grammar allows are read as something else: a bracket   *)
(* with a text or a capital letter in it is no index (1180-1203), and a    *)
(* name before a brace begins a record (1204).                             *)
Opens(t) == Is(t, "Variable")
ReadOtherwise(t) ==
  \/ Is(t, "Index") /\ Is(t.args[1], "Variable") /\ LooksLikeType(Write(t.args[2])[1])
  \/ Is(t, "For") /\ Opens(t.args[Len(t.args) - 1]) /\ Is(Last(t.args), "Block")

(* What is written down is read back, tree for tree. *)
RoundTrip ==
  edits = 0 => \/ \E t \in NodesOf(source) : ReadOtherwise(t)
               \/ ~parsed.err /\ parsed.tree = source

(* Every operator of what has been read has the operands that its place    *)
(* among the levels gives it.                                              *)
Binds == ~parsed.err => \A t \in NodesOf(parsed.tree) : BindsHere(t)

(* Nothing is passed over in silence: of a text without an error every     *)
(* token is in the tree, in its place, but for separators and empty        *)
(* parentheses, which may come or go; and for what the parser is known to  *)
(* lose.  A name with dots is one word.                                    *)
Bare(words) ==
  LET Said(w) == IF w.text = "" THEN w.type ELSE w.text
      Dotted(kept) == Len(kept) > 1 /\ Last(kept)[1] = "." /\ kept[Len(kept) - 1][1] = "Identifier"
      Object(kept) == kept[Len(kept) - 1][2]
      Next1(kept, w) == CASE w.type \in {",", ";"} -> kept
                          [] w.type = ")" /\ kept # <<>> /\ Last(kept)[1] = "(" -> Front(kept)
                          [] Dotted(kept) -> Append(Front(Front(kept)), <<"Identifier", Object(kept) \o "." \o Said(w)>>)
                          [] kept # <<>> /\ Last(kept)[1] = "." -> Append(kept, <<"Identifier", Said(w)>>)
                          [] OTHER -> Append(kept, <<w.type, w.text>>)
  IN FoldLeft(Next1, <<>>, words)
Accounted == ~parsed.err /\ parsed.lost = {} => Bare(WriteAll(parsed.tree)) = Bare(text)
=============================================================================
