------------------------------ MODULE Compiler -------------------------------
(***************************************************************************)
(* Whole programs: the analyser judges a program, the generator lowers it, *)
(* the emitter encodes it, and the machine runs it.  The properties hold   *)
(* the run against what the language says the program means, and name the  *)
(* constructs for which the two are known to part.                         *)
(***************************************************************************)
EXTENDS Codegen, Language, Tisc

CONSTANTS
  Programs,       \* the programs that are tried
  Analyze(_),     \* the analyser,
  Generate(_),    \* the generator,
  Mean(_)         \* and the meaning of a typed program

VARIABLES
  program,    \* the typed tree of the one that is running
  expected,   \* what is expected of it (below)
  frames      \* the return addresses of the calls that are open
vars == <<tiscVars, program, expected, frames>>

(********** where compiled programs are known to part from the language ****)
(* The register an expression hands out is a variable's own.               *)
RECURSIVE Shared(_)
Shared(t) == CASE t.op \in {"Variable", "Assign"} -> t.name
               [] Is(t, "BlockExpr") /\ t.mark = "final" -> Shared(Last(t.args))
               [] OTHER -> ""
In(op, ns) == {t \in ns : t.op = op}
Inexact(t) == t.kind \in {"Float", "Fraction"}
(* Names that the generator does not know: a variant without its enum, a   *)
(* recursion.                                                              *)
IsVariantName(x) == \E e \in DOMAIN Enums : x \in {v[1] : v \in Range(Enums[e].variants)}
UserCall(t) == /\ Is(t, "Call") /\ t.mark \notin {"library", "variant"}
               /\ t.name \notin DOMAIN Constructors \cup {"None"} /\ ~IsVariantName(t.name)

(* A name hides another: variables are found by bare name (ir_generator    *)
(* 4876-4892), so the inner one replaces the outer one for good.           *)
Hides(ns) == \E t \in ns : t.hides
(* A register stands for two values: an initialiser that is a variable is  *)
(* not copied (4883-4892), nor a range's upper bound (640-660), nor a left *)
(* operand while the right one is computed (956-957).                      *)
Shares(ns) ==
  LET changed == {t.name : t \in In("Assign", ns)}
      Changing(t) == \E u \in Nodes(t) : u.op \in {"Assign", "Call"}
  IN \E t \in ns :
       \/ /\ t.op \in {"Let", "Var"} /\ t.args # <<>>
          /\ Shared(t.args[1]) # "" /\ {Shared(t.args[1]), t.name} \cap changed # {}
       \/ Is(t, "For") /\ Shared(t.args[2]) \in changed
       \/ /\ t.op \in {"Binary", "Index", "Call", "For", "Match"}
          /\ \E i, j \in DOMAIN t.args : i < j /\ Shared(t.args[i]) \in changed /\ Changing(t.args[j])
       \/ Is(t, "Assign") /\ t.name = "" /\ Shared(t.args[2]) \in changed /\ Changing(t.args[1])
(* Continue in a range loop leads to the comparison and skips the          *)
(* increment, which is at the end of the body (665-676, 783-787).          *)
RECURSIVE Continues(_)
Continues(t) == \/ Is(t, "Continue")
                \/ t.op \notin {"While", "For", "Loop"} /\ \E u \in Range(t.args) : Continues(u)
SkipsIncrement(ns) == \E t \in In("For", ns) : Continues(t.args[3])
(* Truth is an integer when a comparison made it and a Boolean when it was *)
(* written out; the machine compares only like tags (vm.cpp 2005-2054).    *)
IsWritten(t) == Is(t, "Literal") \/ (Is(t, "Binary") /\ t.name \in {"&&", "||"})
IsCompared(t) == Is(t, "Unary") \/ (Is(t, "Binary") /\ ~IsWritten(t))
MixesTruth(ns) ==
  \E t \in ns : \/ Is(t, "Unary") /\ t.name = "!" /\ ~IsWritten(t.args[1])
                \/ /\ Is(t, "Binary") /\ t.name \in {"==", "!="} /\ t.args[1].type = Bool
                   /\ ~\E P \in {{u \in ns : IsWritten(u)}, {u \in ns : IsCompared(u)}} :
                         {t.args[1], t.args[2]} \subseteq P
(* An integer where a wider number is expected is converted only as the    *)
(* operand of an operator (4795-4823 has no other caller).                 *)
NeedsWidening(ns) ==
  LET Differ(type, value) == IsNumeric(type) /\ IsNumeric(value) /\ Inexact(type) /\ ~Inexact(value)
      Parameters(f) == {Params(t) : t \in {u \in In("Function", ns) : u.name = f}}
  IN \E t \in ns :
       \/ t.op \in {"Let", "Var", "Assign", "Return"} /\ t.args # <<>> /\ Differ(t.type, Last(t.args).type)
       \/ Is(t, "IfExpr") /\ \E i \in DOMAIN t.args \ {1} : Differ(t.type, t.args[i].type)
       \/ Is(t, "Match") /\ \E arm \in Range(Arms(t)) : Differ(t.type, Result(arm).type)
       \/ Is(t, "Call") /\ \E ps \in Parameters(t.name) :
            \E i \in DOMAIN t.args : Differ(ps[i].type, t.args[i].type)
       \/ Is(t, "Call") /\ \E i \in DOMAIN t.type.params :
            t.args # <<>> /\ t.name \in {"Some", "Ok", "Err"} /\ Differ(t.type.params[i], t.args[1].type)
(* Parameters, results and payloads are taken for integers (803-810,       *)
(* 3803-3810, 4252), so an operator converts what needs no conversion.     *)
LosesKind(ns) ==
  \E t \in ns : (t.op \in {"Param", "Arm"} \/ UserCall(t) \/ (Is(t, "Var") /\ t.args = <<>>)) /\ Inexact(t.type)
(* Minus negates the number in the register, a handle for these (1178).    *)
NegatesHandle(ns) == \E t \in In("Unary", ns) : t.name = "-" /\ Inexact(t.type)
(* The bounds of a range may have any type (semantic_analyzer 1683).       *)
OddBounds(ns) == \E t \in In("For", ns) : \E i \in 1..2 : ~IsInteger(t.args[i].type)
(* A path through a function ends without a value (818-824), or main has   *)
(* none to give (544-561): what is popped is not a result.                 *)
RECURSIVE Returns(_)
Returns(t) == CASE Is(t, "Return") -> TRUE
                [] Is(t, "Block") -> \E u \in Range(t.args) : Returns(u)
                [] Is(t, "If") -> Len(t.args) = 3 /\ Returns(t.args[2]) /\ Returns(t.args[3])
                [] OTHER -> FALSE
LacksResult(ns) ==
  \E f \in In("Function", ns) : IF f.type = Void THEN f.name = "main"
                                ELSE \A t \in Range(BodyOf(f)) : ~Returns(t)
(* A call without a result where a value is wanted: the generator gives up *)
(* (4846-4858).                                                            *)
WantsValue(ns) == \E t \in ns \ (In("Expression", ns) \cup In("Function", ns)) :
                    \E u \in Range(t.args) : Is(u, "Call") /\ u.type = Void
(* What leaves a loop or a function from inside an argument leaves the     *)
(* arguments before it on the stack (3767-3790).                           *)
Abandons(ns) == \E t \in ns : /\ UserCall(t)
                              /\ \E i \in DOMAIN t.args \ {1} :
                                   \E u \in Nodes(t.args[i]) : u.op \in {"Break", "Continue", "Return"}
(* Elements that are not written out are pushed as texts (4497-4533).      *)
BuildsVector(ns) == \E t \in In("VectorLiteral", ns) : t.type.params # <<Text>> /\ ~IsConstant(t)
(* Enums cannot be compared at all, vectors only by their handles.         *)
ComparesObjects(ns) ==
  \E t \in In("Binary", ns) : t.name \in {"==", "!="} /\ t.args[1].type.kind \in {"Custom", "Vector"}

(* A text that a library call made is no integer, as other texts are, and  *)
(* will not be compared with one (985-1010, 4803).                         *)
ComparesMade(ns) ==
  \E t \in In("Binary", ns) : /\ t.name \in {"==", "!="} /\ t.args[1].type = Text
                            /\ \E u \in Nodes(t) : Is(u, "Call") /\ u.mark = "library"

(* An element is set in the vector itself (4131-4143): every variable that *)
(* holds the vector sees it, and a written-out vector is the same one      *)
(* every time it is reached.                                               *)
Sets(ns) == {t \in In("Assign", ns) : t.name = ""}
SharesElements(ns) ==
  LET Hands(t) == \E i \in DOMAIN t.args : /\ Is(t.args[i], "Variable") /\ t.args[i].type.kind = "Vector"
                                           /\ ~(Is(t, "Index") /\ i = 1)
      Repeats(t) == t.op \in {"While", "For", "Loop"} \/ (Is(t, "Function") /\ t.name # "main")
  IN /\ Sets(ns) # {}
     /\ \E t \in ns : Hands(t) \/ (Repeats(t) /\ In("VectorLiteral", Nodes(t)) # {})
(* Only numbers can be set: the machine sets elements of tensors.          *)
SetsText(ns) == \E t \in Sets(ns) : t.type = Text
(* A field cannot be set (4144).                                           *)
SetsField(ns) == \E t \in Sets(ns) : Is(t.args[1], "FieldAccess")
(* A record is never made, and its fields are the record (4383-4401).      *)
MakesRecord(ns) == In("RecordLiteral", ns) # {} \/ \E t \in In("FieldAccess", ns) : t.mark = ""
(* A name without a register or a label of its own (1205-1220, 4110).      *)
Unresolved(ns) ==
  LET recursions == {t.name : t \in In("Recurse", ns)}
      Unknown1(t) == IsVariantName(t.name) \/ t.name \in recursions \/ \E e \in DOMAIN Enums : Enums[e].name = t.name
  IN \E t \in ns : t.mark # "variant" /\ \E u \in Range(t.args) : u.op \in {"Variable", "Call"} /\ u.mark = "" /\ Unknown1(u)
(* The body of a recursion runs where it is declared (691-694).            *)
RunsInline(ns) == In("Recurse", ns) # {}
(* Training is refused by the machine (vm.cpp 1132-1140).                  *)
Trains(ns) == In("Train", ns) # {}

WrongValue(ns) == SharesElements(ns) \/ MakesRecord(ns) \/ RunsInline(ns) \/ Hides(ns) \/ Shares(ns) \/ SkipsIncrement(ns) \/ NeedsWidening(ns) \/ LosesKind(ns)
                    \/ NegatesHandle(ns)
WrongKind(ns) == MixesTruth(ns) \/ NeedsWidening(ns) \/ LosesKind(ns) \/ NegatesHandle(ns) \/ OddBounds(ns)
Departs(ns) == WrongValue(ns) \/ WrongKind(ns) \/ LacksResult(ns) \/ Abandons(ns) \/ WantsValue(ns) \/ BuildsVector(ns)
                 \/ ComparesObjects(ns) \/ ComparesMade(ns) \/ SetsText(ns) \/ SetsField(ns) \/ Unresolved(ns) \/ Trains(ns)
Allow(applies, traps) == IF applies THEN traps ELSE {}
Foreseen(ns) ==
  {"Halt"}
    \cup Allow(\E t \in In("Binary", ns) : t.name \in {"/", "%"}, {"DivisionFault"})
    \cup Allow(In("Index", ns) # {}, {"BoundsFault"})
    \cup Allow(\E t \in In("Call", ns) : t.name = "std.core.assert", {"TrapInstruction"})
    \cup Allow(WrongKind(ns) \/ MakesRecord(ns) \/ SetsText(ns), {"TypeFault"})
    \cup Allow(LacksResult(ns) \/ Abandons(ns), {"StackFault"})
    \cup Allow(WantsValue(ns) \/ ComparesMade(ns) \/ SetsField(ns) \/ Unresolved(ns) \/ RunsInline(ns), {"Throw"})
    \cup Allow(BuildsVector(ns) \/ ComparesObjects(ns) \/ MakesRecord(ns), {"DecodeFault"})
    \cup Allow(Trains(ns), {"SecurityFault"})
(* What is expected of a program: the ways in which it may stop, what it   *)
(* means, and which properties its constructs exempt it from.              *)
Expected(typed, g) ==
  LET ns == NodesOf(typed)
  IN [traps |-> Foreseen(ns), meaning |-> Mean(typed), result |-> g.result,
      faithful |-> ~Departs(ns), exact |-> ~WrongValue(ns), balanced |-> ~LacksResult(ns) /\ ~Abandons(ns)]

(**************************** the machine **********************************)
Thrown(g) == \E i \in DOMAIN g.ir : g.ir[i].op = "THROW"
Loaded(g) ==
  /\ reg = [r \in 1..g.registers |-> IntV(0)]
  /\ pool = [h \in DOMAIN g.tensors |-> Tensor(<<Len(g.tensors[h])>>, g.tensors[h])]
  /\ code = IF Thrown(g) THEN <<>> ELSE Emit(g.ir)
  /\ trap = IF Thrown(g) THEN "Throw" ELSE "None"
  /\ pc = 1
  /\ stack = <<>>
Init ==
  /\ program \in {Analyze(p) : p \in Programs}
  /\ Accepted(program)
  /\ \E g \in {Generate(program)} : Loaded(g) /\ expected = Expected(program, g)
  /\ frames = <<>>

Next ==
  /\ Step \/ (Done /\ UNCHANGED tiscVars)
  /\ frames' = CASE At({"Call"}) -> Append(frames, pc + 1)
                 [] At({"Ret"}) /\ frames # <<>> -> Front(frames)
                 [] OTHER -> frames
  /\ UNCHANGED <<program, expected>>
Spec == Init /\ [][Next]_vars /\ WF_vars(Next)

(**************************** properties ***********************************)
(* The type checker's promise: an accepted program stops with a fault only *)
(* where a number, an index or an assertion can be wrong, or where it uses *)
(* a construct the compiler is known to get wrong.                         *)
FaultsForeseen == Done => trap \in expected.traps

(* Compiled code means what the program means: it ends in the same way,    *)
(* with the same fault or the same result.                                 *)
RECURSIVE Plain(_)
Plain(x) == [x EXCEPT !.tag = IF @ = "Bool" THEN "Int" ELSE @, !.inner = [i \in DOMAIN @ |-> Plain(@[i])]]
MeansTheSame ==
  (Done /\ expected.faithful) =>
    /\ trap = expected.meaning.trap
    /\ (trap = "Halt" /\ expected.result # 0) => Plain(reg[expected.result]) = Plain(expected.meaning.value)

(* A function returns to the instruction after its call.                   *)
ReturnsWhereCalled == [][(At({"Ret"}) /\ trap' = "None") => frames # <<>> /\ pc' = Last(frames)]_vars

(* A program that halts has taken everything off the stack that it put on, *)
(* except where a function lacks its result or abandons a call.            *)
StackBalanced == (trap = "Halt" /\ expected.balanced) => stack = <<>> /\ frames = <<>>

(* What the functions that a function calls, and those they call, do is    *)
(* within its declared tier, as long as they all declare one and hide      *)
(* neither a statement in braces within an expression nor a call behind    *)
(* explicit types.                                                         *)
TiersKept ==
  LET declared == {f \in In("Function", Range(program)) : TierOf(f) # 0}
      plain == {f \in declared : \A t \in Nodes(f) : t.op # "BlockExpr" /\ t.mark # "explicit"}
      Callees(f) == {g \in declared : \E t \in Nodes(f) : UserCall(t) /\ t.name = g.name}
      Reached[k \in 0..Cardinality(plain)] ==
        IF k = 0 THEN [f \in plain |-> {f}]
        ELSE [f \in plain |-> UNION {Callees(g) \cap plain : g \in Reached[k - 1][f]} \cup {f}]
  IN \A f \in plain : \A g \in Reached[Cardinality(plain)][f] : \A t \in Range(BodyOf(g)) :
       \A u \in Nodes(t) : minimum_tier_for_stmt(u) <= TierOf(f)

(* No arithmetic reads a handle as if it were a number.                    *)
NumbersOnly ==
  [][ (At({"Add", "Sub", "Mul", "Div", "Mod", "BitAnd", "BitOr", "BitXor", "BitShl", "Neg", "I2F", "I2Frac"}) /\ expected.exact)
      => B.tag \in {"Int", "Bool"} /\ (insn.op \in {"Neg", "I2F", "I2Frac"} \/ C.tag \in {"Int", "Bool"})]_vars

(* A program the language says comes to an end does so when compiled.      *)
Ending == expected.meaning.trap # "Fuel" /\ expected.exact
Terminates == Ending ~> Done
=============================================================================
