---------------------------- MODULE MCTraceOps ----------------------------
(***************************************************************************)
(* TraceOps on machines of four registers, integers of five bits and nine  *)
(* words of memory.                                                        *)
(***************************************************************************)
EXTENDS TraceOps

MCPooled == [Float |-> <<2, 1>>, Fraction |-> <<>>, Symbol |-> <<>>]
MCTokens == <<"Proof">>

With(i, tag) == [i EXCEPT !.tag = tag]
Refused(i) == [i EXCEPT !.verdict = "Deny"]
MCInsns ==
  {Insn(op, 1, 1, 2) : op \in Calculations \cup {"Div", "Mod"}}
  \cup {Insn(op, 3, 1, 2) : op \in Comparisons}
  \cup {Insn("Cmp", 1, 2, 0), Insn("SetF", 3, 0, 0), Insn("SetF", 0, 0, 0), Insn("Mov", 2, 1, 0), Insn("Mov", 4, 1, 0)}
  \cup {Insn("LoadImm", 1, -16, 0), Insn("LoadImm", 2, 5, 0), With(Insn("LoadImm", 1, 1, 0), "Symbol"),
        With(Insn("LoadImm", 1, 1, 0), "Float"), With(Insn("LoadImm", 2, 2, 0), "Float")}
  \cup {Insn("Load", 2, 8, 0), Insn("Load", 2, 0, 0), Insn("Load", 2, 9, 0), Insn("Store", 8, 1, 0), Insn("Store", 0, 1, 0),
        Insn("Push", 1, 0, 0), Insn("Pop", 2, 0, 0)}
  \cup {Insn(op, 1, 1, 0) : op \in Jumps} \cup {Insn("Jump", 3, 0, 0)}
  \cup {Insn("MakeOptionSome", 1, 2, 0), Insn("MakeOptionSome", 2, 2, 0), Insn("MakeOptionNone", 1, 0, 0),
        Insn("MakeResultOk", 1, 2, 0), Insn("MakeResultErr", 1, 2, 0), Insn("MakeEnumVariant", 1, 5, 0),
        Insn("MakeEnumVariant", 1, -1, 0), Insn("MakeEnumVariantPayload", 1, 2, 5), Insn("MakeComplex", 1, 1, 2)}
  \cup {Insn(op, 2, 1, 5) : op \in DOMAIN Opened} \cup {Insn("OptionUnwrap", 0, 1, 0)}
  \cup {Insn("TMatMul", 3, 3, 3), Insn("TRMSNorm", 1, 3, 1), Insn("TVecAdd", 1, 3, 3), Insn("TExp", 1, 3, 0), Insn("TTranspose", 2, 3, 0)}
  \cup {Insn("MemZero", 2, 1, 0), Insn("Copy", 2, 1, 1), Insn("TNorm", 2, 1, 0), Insn("Assert", 1, 0, 0),
        Insn("NSend", 0, 1, 0), Insn("AxCheck", 1, 2, 0), Insn("Print", 1, 0, 0), Insn("Trap", 0, 0, 0), Insn("AxRead", 1, 3, 0), Insn("AxSet", 1, 2, 0), Insn("AxVerify", 1, 0, 0),
        Refused(Insn("AxSet", 1, 2, 0)), Insn("MetaRead", 1, RegisterKind, 2), Insn("MetaRead", 1, HeapKind, 2),
        Insn("MetaWrite", 1, RegisterKind, 2), Insn("MetaWrite", 1, StackKind, 2), Insn("MetaReflect", 2, 0, 0),
        Insn("MetaRefine", 1, 1, 2)}

(* The heap holds a refinement: write -1 at address 8, or write code.      *)
Machine(x, y, z, op) ==
  [reg |-> [r \in 0..3 |-> CASE r = 0 -> Word(0, "Int") [] r = 1 -> x [] r = 2 -> y [] r = 3 -> z],
   mem |-> [a \in 0..(MemSize - 1) |->
              CASE a = 4 -> Word(op, "Int") [] a = 5 -> Word(8, "Int") [] a = 6 -> Word(-1, "Int") [] a = 7 -> Word(1, "Int")
                [] OTHER -> Word(0, "Int")],
   sp |-> StackBase, flag |-> 0, options |-> <<>>, results |-> <<>>, enums |-> <<>>, complexes |-> <<>>,
   tensors |-> <<<<2, 2>>>>, elements |-> 4, printed |-> <<>>, reflections |-> 0, pc |-> 0, trap |-> "None"]
MCStarts == {Machine(Word(4, "Int"), Word(1, "Int"), Word(1, "Tensor"), 3),
             Machine(Word(-7, "Int"), Word(-1, "Int"), Word(1, "Tensor"), 1),
             Machine(Word(1, "Weights"), Word(2, "Int"), Word(1, "Tensor"), 1)}
=============================================================================
