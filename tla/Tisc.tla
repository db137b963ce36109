-------------------------------- MODULE Tisc --------------------------------
(***************************************************************************)
(* The TISC instructions that compiled programs are made of, one action    *)
(* for each group of handlers of the step loop (core/vm/vm.cpp).           *)
(*                                                                         *)
(* String vectors and tensors live in a pool and registers hold handles,   *)
(* so that two registers may name the same object; texts, floats,          *)
(* fractions, options and results are immutable and held by content.  What *)
(* the collector, the policy and the tiers do is modelled in VmGc and      *)
(* VmCalls; condition flags are left out, no compiled program tests them.  *)
(***************************************************************************)
EXTENDS Values

CONSTANTS
  Reals,     \* what float products, quotients and functions may return, in halves
  Handles,   \* the numbers an unchecked instruction may find in a handle register
  StackSize  \* words of the stack segment

VARIABLES code, pc, reg, pool, stack, trap
tiscVars == <<code, pc, reg, pool, stack, trap>>

Texts(parts) == [shape |-> <<>>, data |-> parts]
Tensor(shape, data) == [shape |-> shape, data |-> data]

(* The program ends at Halt, at a trap, or past its last instruction. *)
Done == trap # "None"
insn == code[pc]
At(ops) == ~Done /\ pc \in DOMAIN code /\ insn.op \in ops
A == reg[insn.a]
B == reg[insn.b]
C == reg[insn.c]

(* Instructions that do not look at tags read a handle as a number. *)
Raw(x) == IF x.tag \in {"Int", "Bool"} THEN {x.n} ELSE Handles

Trap(t) == trap' = t /\ UNCHANGED <<code, pc, reg, pool, stack>>
Advance == pc' = pc + 1 /\ UNCHANGED <<code, trap>>
Write(x) == /\ reg' = [reg EXCEPT ![insn.a] = x]
            /\ Advance
            /\ UNCHANGED <<pool, stack>>
(* A handler either traps or writes its destination... *)
Finish(x) == IF x.tag \in Faults THEN Trap(x.tag) ELSE Write(x)
(* ... possibly with the handle of a new object, *)
Allocate(tag, object) == /\ pool' = Append(pool, object)
                         /\ reg' = [reg EXCEPT ![insn.a] = V(tag, Len(pool) + 1)]
                         /\ Advance
                         /\ UNCHANGED stack
(* or changes an object in place, for every register that names it. *)
Mutate(handle, data) == /\ pool' = [pool EXCEPT ![handle].data = data]
                        /\ Advance
                        /\ UNCHANGED <<reg, stack>>

Move == \/ At({"LoadImm"}) /\ Write(IF insn.lit.tag = "Symbol" THEN LoadedText(insn.lit.text)
                                    ELSE insn.lit)
        \/ At({"Mov"}) /\ Write(B)

Arithmetic ==
  /\ At({"Add", "Sub", "Mul", "Div", "Mod"})
  /\ \E x \in Raw(B), y \in Raw(C) :
       Finish(CASE insn.op = "Add" -> IntV(x + y)
                [] insn.op = "Sub" -> IntV(x - y)
                [] insn.op = "Mul" -> IntV(x * y)
                [] y = 0 -> Fault("DivisionFault")
                [] insn.op = "Div" -> IntV(TruncDiv(x, y))
                [] OTHER -> IntV(x - y * TruncDiv(x, y)))
Negate == At({"Neg"}) /\ \E x \in Raw(B) : Write(IntV(-x))

Bits ==
  /\ At({"BitAnd", "BitOr", "BitXor", "BitNot", "BitShl", "BitShr", "BitUShr"})
  /\ \E x \in Raw(B), y \in (IF insn.op = "BitNot" THEN {0} ELSE Raw(C)) : Write(IntV(OfBits(insn.op, x, y)))

Compare == At(Relations) /\ Finish(CompareResult(insn.op, B, C))

Convert == \/ At(ConvertOps) /\ Finish(ConvertResult(insn.op, B))
           \/ At({"I2F"}) /\ \E x \in Raw(B) : Write(FloatV(2 * x))
           \/ At({"I2Frac"}) /\ \E x \in Raw(B) : Write(FracV(2 * x))

(* Sums are exact; products, quotients and functions are some number. *)
Exact(op, x, y) == IF op \in {"FAdd", "FracAdd"} THEN x.n + y.n ELSE x.n - y.n
FloatArithmetic ==
  /\ At({"FAdd", "FSub", "FMul", "FDiv"})
  /\ CASE B.tag # "Float" \/ C.tag # "Float" -> Trap("TypeFault")
       [] insn.op \in {"FAdd", "FSub"} -> Write(FloatV(Exact(insn.op, B, C)))
       [] insn.op = "FDiv" /\ C.n = 0 -> Trap("DivisionFault")
       [] OTHER -> \E h \in Reals : Write(FloatV(h))
FloatFunctions == {"FSin", "FCos", "FTan", "FAsin", "FAcos", "FAtan", "FSinh", "FCosh", "FTanh",
                   "FSqrt", "FExp", "FLog"}
FloatFunction ==
  /\ At(FloatFunctions \cup {"FPow"})
  /\ IF B.tag # "Float" \/ (insn.op = "FPow" /\ C.tag # "Float") THEN Trap("TypeFault")
     ELSE \E h \in Reals : Write(FloatV(h))
FractionArithmetic ==
  /\ At({"FracAdd", "FracSub", "FracMul", "FracDiv"})
  /\ CASE B.tag # "Fraction" \/ C.tag # "Fraction" -> Trap("TypeFault")
       [] insn.op \in {"FracAdd", "FracSub"} -> Write(FracV(Exact(insn.op, B, C)))
       [] insn.op = "FracDiv" /\ C.n = 0 -> Trap("DivisionFault")
       [] OTHER -> \E h \in Reals : Write(FracV(h))

Jump == /\ At({"Jump", "JumpIfZero", "JumpIfNotZero"})
        /\ IF insn.op = "Jump" THEN pc' = insn.a
           ELSE \E x \in Raw(B) : pc' = IF (x = 0) = (insn.op = "JumpIfZero") THEN insn.a ELSE pc + 1
        /\ UNCHANGED <<code, reg, pool, stack, trap>>

PushPop ==
  \/ /\ At({"Push"})
     /\ IF Len(stack) = StackSize THEN Trap("StackFault")
        ELSE stack' = Append(stack, A) /\ Advance /\ UNCHANGED <<reg, pool>>
  \/ /\ At({"Pop"})
     /\ IF stack = <<>> THEN Trap("StackFault")
        ELSE /\ reg' = [reg EXCEPT ![insn.a] = Last(stack)]
             /\ stack' = Front(stack)
             /\ Advance
             /\ UNCHANGED pool
(* A call leaves the return address on the stack the arguments are on, and *)
(* saves no register.                                                      *)
CallReturn ==
  \/ /\ At({"Call"})
     /\ IF Len(stack) = StackSize THEN Trap("StackFault")
        ELSE /\ stack' = Append(stack, IntV(pc + 1))
             /\ pc' = B.n
             /\ UNCHANGED <<code, reg, pool, trap>>
  \/ /\ At({"Ret"})
     /\ CASE stack = <<>> -> Trap("StackFault")
          [] Last(stack).tag # "Int" -> Trap("TypeFault")
          [] Last(stack).n \notin DOMAIN code -> Trap("DecodeFault")
          [] OTHER -> /\ pc' = Last(stack).n
                      /\ stack' = Front(stack)
                      /\ UNCHANGED <<code, reg, pool, trap>>

Stop == \/ At({"Halt"}) /\ Trap("Halt")
        \/ At({"Trap"}) /\ Trap("TrapInstruction")
        \/ ~Done /\ pc \notin DOMAIN code /\ Trap("DecodeFault")
PrintValue == At({"Print"}) /\ Advance /\ UNCHANGED <<reg, pool, stack>>
Nop == At({"Nop"}) /\ Advance /\ UNCHANGED <<reg, pool, stack>>

Box == At(BoxOps) /\ Finish(BoxResult(insn.op, B))
(* The variant is an immediate operand. *)
Enum == \/ At({"MakeEnumVariant"}) /\ Write(EnumV(insn.b, <<>>))
        \/ At({"MakeEnumVariantPayload"}) /\ Write(EnumV(insn.c, <<B>>))
        \/ At({"EnumIsVariant"}) /\ Finish(EnumIsVariant(B, insn.c))
        \/ At({"EnumUnwrapPayload"}) /\ Finish(EnumUnwrapPayload(B))

(**************************** texts ****************************************)
TextOps1 == {"StrLen", "StrEmpty"}
TextOps2 == {"StrConcat", "StrStartsWith", "StrEndsWith", "StrContains", "StrIndexOf"}
TextOp ==
  /\ At(TextOps1 \cup TextOps2)
  /\ IF ~IsText(B) \/ (insn.op \in TextOps2 /\ ~IsText(C)) THEN Trap("DecodeFault")
     ELSE Write(CASE insn.op = "StrLen" -> IntV(Len(B.text))
                  [] insn.op = "StrEmpty" -> BoolV(B.text = <<>>)
                  [] insn.op = "StrConcat" -> TextV(B.text \o C.text)
                  [] insn.op = "StrStartsWith" -> BoolV(IsPrefix(C.text, B.text))
                  [] insn.op = "StrEndsWith" -> BoolV(IsSuffix(C.text, B.text))
                  [] insn.op = "StrContains" -> BoolV(IndexOf(B.text, C.text) >= 0)
                  [] OTHER -> IntV(IndexOf(B.text, C.text)))
(* The text is replaced in the destination register. *)
Replace ==
  /\ At({"StrReplace"})
  /\ IF ~IsText(A) \/ ~IsText(B) \/ ~IsText(C) THEN Trap("DecodeFault")
     ELSE Write(TextV(IF B.text = <<>> THEN A.text
                      ELSE JoinTexts(SplitText(A.text, B.text), C.text)))
Split ==
  /\ At({"StrSplit"})
  /\ CASE ~IsText(B) \/ ~IsText(C) -> Trap("DecodeFault")
       [] C.text = <<>> -> Trap("TypeFault")
       [] OTHER -> Allocate("StringVector", Texts(SplitText(B.text, C.text)))
JoinParts ==
  /\ At({"StrJoin"})
  /\ CASE ~IsVec(B) -> Trap("TypeFault")
       [] ~IsText(C) -> Trap("DecodeFault")
       [] OTHER -> Write(TextV(JoinTexts(pool[B.n].data, C.text)))

(**************************** vectors **************************************)
Data(x) == pool[x.n].data
(* A vector is a string vector or a tensor of one dimension. *)
IsLinear(x) == IsVec(x) \/ (x.tag = "Tensor" /\ Len(pool[x.n].shape) = 1)
VecOps == {"VecLen", "VecEmpty", "VecFirst", "VecLast"}
(* Elements of a tensor come out as integers. *)
Element(x, i) == IF IsVec(x) THEN TextV(Data(x)[i]) ELSE IntV(TruncDiv(Data(x)[i], 2))
VecRead ==
  /\ At(VecOps)
  /\ Finish(CASE ~IsLinear(B) -> Fault("TypeFault")
              [] insn.op = "VecLen" -> IntV(Len(Data(B)))
              [] insn.op = "VecEmpty" -> BoolV(Data(B) = <<>>)
              [] Data(B) = <<>> -> Fault("TypeFault")
              [] insn.op = "VecFirst" -> Element(B, 1)
              [] OTHER -> Element(B, Len(Data(B))))
(* Push and pop copy: the old vector stays as it was. *)
Resized(x, data) == [shape |-> IF IsVec(x) THEN <<>> ELSE <<Len(data)>>, data |-> data]
VecPush ==
  /\ At({"VecPush"})
  /\ IF ~IsLinear(B) \/ C.tag # (IF IsVec(B) THEN "Symbol" ELSE "Int") THEN Trap("TypeFault")
     ELSE Allocate(B.tag, Resized(B, Append(Data(B), IF IsVec(B) THEN C.text ELSE 2 * C.n)))
VecPop ==
  /\ At({"VecPop"})
  /\ IF ~IsLinear(B) \/ Data(B) = <<>> THEN Trap("TypeFault")
     ELSE Allocate(B.tag, Resized(B, Front(Data(B))))
StrVecNew == At({"StrVecNew", "MapNew", "SetNew"}) /\ Allocate("StringVector", Texts(<<>>))
StrVecPush ==
  /\ At({"StrVecPush"})
  /\ CASE ~IsVec(A) -> Trap("TypeFault")
       [] ~IsText(B) -> Trap("DecodeFault")
       [] OTHER -> Mutate(A.n, Append(Data(A), B.text))

(************************ maps and sets ************************************)
(* A map is a string vector of keys and values in turn; an odd last entry  *)
(* is out of its reach.                                                    *)
(* Mutant: values are searched as if they were keys. *)
EveryPlace(d) == 1..(Len(d) - 1)
KeyPlaces(d) == {i \in 1..(Len(d) - 1) : i % 2 = 1}
PlacesOf(d, key) == {i \in KeyPlaces(d) : d[i] = key}
MapPut ==
  /\ At({"MapPut"})
  /\ CASE ~IsVec(A) -> Trap("TypeFault")
       [] ~IsText(B) \/ ~IsText(C) -> Trap("DecodeFault")
       [] OTHER -> LET hits == PlacesOf(Data(A), B.text)
                   IN Mutate(A.n, IF hits = {} THEN Data(A) \o <<B.text, C.text>>
                                  ELSE [Data(A) EXCEPT ![Min(hits) + 1] = C.text])
MapGetHas ==
  /\ At({"MapGet", "MapHas"})
  /\ CASE ~IsVec(B) -> Trap("TypeFault")
       [] ~IsText(C) -> Trap("DecodeFault")
       [] OTHER -> LET hits == PlacesOf(Data(B), C.text)
                   IN Write(CASE insn.op = "MapHas" -> BoolV(hits # {})
                              [] hits = {} -> NoneV
                              [] OTHER -> SomeV(TextV(Data(B)[Min(hits) + 1])))
(* Removed from the map itself, whose handle is also the result. *)
MapRemove ==
  /\ At({"MapRemove"})
  /\ CASE ~IsVec(B) -> Trap("TypeFault")
       [] ~IsText(C) -> Trap("DecodeFault")
       [] OTHER -> LET hits == PlacesOf(Data(B), C.text)
                   IN /\ pool' = IF hits = {} THEN pool
                                 ELSE [pool EXCEPT ![B.n].data =
                                         RemoveAt(RemoveAt(@, Min(hits)), Min(hits))]
                      /\ reg' = [reg EXCEPT ![insn.a] = B]
                      /\ Advance
                      /\ UNCHANGED stack
MapKeys ==
  /\ At({"MapKeys"})
  /\ IF ~IsVec(B) THEN Trap("TypeFault")
     ELSE Allocate("StringVector", Texts([i \in 1..(Len(Data(B)) \div 2) |-> Data(B)[2 * i - 1]]))
Size == /\ At({"MapSize", "SetSize"})
        /\ Finish(IF ~IsVec(B) THEN Fault("TypeFault")
                  ELSE IntV(Len(Data(B)) \div (IF insn.op = "MapSize" THEN 2 ELSE 1)))
SetAddRemove ==
  /\ At({"SetAdd", "SetRemove"})
  /\ CASE ~IsVec(A) -> Trap("TypeFault")
       [] ~IsText(B) -> Trap("DecodeFault")
       [] OTHER -> LET present == Contains(Data(A), B.text)
                   IN Mutate(A.n, CASE insn.op = "SetAdd" /\ ~present -> Append(Data(A), B.text)
                                    [] insn.op = "SetRemove" /\ present -> RemoveFirst(Data(A), B.text)
                                    [] OTHER -> Data(A))
SetHas ==
  /\ At({"SetHas"})
  /\ CASE ~IsVec(B) -> Trap("TypeFault")
       [] ~IsText(C) -> Trap("DecodeFault")
       [] OTHER -> Write(BoolV(Contains(Data(B), C.text)))

(*************************** tensors ***************************************)
(* The element-wise and matrix products look no tags up: any number in the *)
(* register is taken for a handle.  A register that holds no tensor makes  *)
(* them trap or work on whatever tensor has that handle.                   *)
TensorHandles(x) == IF x.tag = "Tensor" THEN {x.n} ELSE Raw(x)
IsTensor(h) == h \in DOMAIN pool /\ pool[h].shape # <<>>
Volume(shape) == FoldSeq(LAMBDA x, y : x * y, 1, shape)
Filled(shape, h) == Tensor(shape, [i \in 1..Volume(shape) |-> h])
TensorProduct ==
  /\ At({"TVecAdd", "TMatMul"})
  /\ \E x \in TensorHandles(B), y \in TensorHandles(C), h \in Reals :
       IF ~IsTensor(x) \/ ~IsTensor(y) THEN Trap("DecodeFault")
       ELSE LET s == pool[x].shape
                t == pool[y].shape
            IN CASE insn.op = "TVecAdd" /\ Volume(s) = Volume(t) ->
                      Allocate("Tensor", Tensor(s, [i \in DOMAIN pool[x].data |->
                                                      pool[x].data[i] + pool[y].data[i]]))
                 [] insn.op = "TMatMul" /\ Len(s) = 2 /\ Len(t) = 2 /\ s[2] = t[1] ->
                      Allocate("Tensor", Filled(<<s[1], t[2]>>, h))
                 [] OTHER -> Trap("ShapeFault")
Dot ==
  /\ At({"TTenDot"})
  /\ CASE B.tag # "Tensor" \/ C.tag # "Tensor" -> Trap("TypeFault")
       [] Len(pool[B.n].shape) # 1 \/ pool[B.n].shape # pool[C.n].shape -> Trap("ShapeFault")
       [] OTHER -> \E h \in Reals : Allocate("Tensor", Tensor(<<1>>, <<h>>))
TGet ==
  /\ At({"TGet"})
  /\ \E x \in TensorHandles(B) :
       Finish(CASE ~IsTensor(x) -> Fault("DecodeFault")
                [] C.tag # "Int" -> Fault("TypeFault")
                [] C.n + 1 \notin DOMAIN pool[x].data -> Fault("BoundsFault")
                [] OTHER -> FloatV(pool[x].data[C.n + 1]))
(* The vector's element changes for every register that holds it. *)
TSet ==
  /\ At({"TSet"})
  /\ CASE A.tag # "Tensor" \/ B.tag # "Int" \/ C.tag \notin {"Float", "Int"} -> Trap("TypeFault")
       [] B.n + 1 \notin DOMAIN Data(A) -> Trap("BoundsFault")
       [] OTHER -> Mutate(A.n, [Data(A) EXCEPT ![B.n + 1] = IF C.tag = "Int" THEN 2 * C.n ELSE C.n])
(* Training is not implemented; the machine refuses it. *)
Train == At({"TNeuralBwd"}) /\ Trap("SecurityFault")

(********************* graphs of tier two **********************************)
(* A symbolic graph is opaque here; loading takes any register. *)
Symbolic ==
  \/ At({"SymLoad"}) /\ Write(V("Graph", 1))
  \/ /\ At({"SymRewrite", "SymCanon"})
     /\ IF A.tag # "Graph" \/ (insn.op = "SymRewrite" /\ {B.tag, C.tag} # {"Symbol"})
        THEN Trap("TypeFault") ELSE Advance /\ UNCHANGED <<reg, pool, stack>>
  \/ /\ At({"SymConfluence"})
     /\ IF B.tag # "Graph" THEN Trap("TypeFault") ELSE \E p \in BOOLEAN : Write(BoolV(p))

(********************* the program itself **********************************)
MakeComplex ==
  At({"MakeComplex"}) /\ Finish(IF B.tag # "Int" \/ C.tag # "Int" THEN Fault("TypeFault")
                                ELSE ComplexV(B.n, C.n))
(* The second operand is taken for a segment, of which the third, register *)
(* zero, gives the address: the first opcode of the program, or nothing.   *)
MetaRead == At({"MetaRead"}) /\ (Trap("BoundsFault") \/ \E n \in Handles : Write(IntV(n)))
MetaReflect == At({"MetaReflect"}) /\ Write(V("Reflection", 1))
(* The number of commands is register zero's; the first operand is set. *)
MetaRefine == At({"MetaRefine"}) /\ Write(IntV(1))

Step ==
  \/ MakeComplex \/ MetaRead \/ MetaReflect \/ MetaRefine
  \/ Move \/ Arithmetic \/ Negate \/ Compare \/ Convert \/ FloatArithmetic \/ FloatFunction
  \/ FractionArithmetic \/ Jump \/ PushPop \/ CallReturn \/ Stop \/ PrintValue \/ Nop \/ Box \/ Enum
  \/ TextOp \/ Replace \/ Split \/ JoinParts \/ VecRead \/ VecPush \/ VecPop \/ StrVecNew
  \/ StrVecPush \/ MapPut \/ MapGetHas \/ MapRemove \/ MapKeys \/ Size \/ SetAddRemove \/ SetHas
  \/ TensorProduct \/ Dot \/ TGet \/ Symbolic \/ Bits \/ TSet \/ Train
=============================================================================
