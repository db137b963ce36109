------------------------------ MODULE TraceOps -------------------------------
(***************************************************************************)
(* What a compiled trace does for every instruction that the recorder      *)
(* keeps (ThreadedJitTrace::execute, runtime/jit/jit_compiler.cpp), beside *)
(* the interpreter's handlers (Handlers).  Two machines execute the same   *)
(* instructions: vm interprets them, and tr runs them as a trace, going    *)
(* back to the interpreter where the trace gives up.                       *)
(*                                                                         *)
(* A trace writes out its own handlers.  They differ from the              *)
(* interpreter's in known ways, the departures below; what is checked is   *)
(* that nothing else tells the two machines apart.                         *)
(***************************************************************************)
EXTENDS Handlers

CONSTANTS
  Registers, \* 0..242
  Insns,     \* the instructions that may come
  Starts,    \* the machines they start from
  Length     \* bound of the model: instructions executed

VARIABLES
  vm,        \* the machine that interprets
  tr,        \* the machine that runs traces
  steps,     \* instructions executed
  departed   \* history: how the last step has parted them

vars == <<vm, tr, steps, departed>>

(*************************** a trace's own handlers ************************)
(* The instruction's effect, or nothing when the trace gives up.           *)
GivesUp == <<>>
Done(m) == <<m>>
Write(m, r, n, tag) == Done(Put(m, r, Word(n, tag)))

TraceMoves == {"Mov", "LoadImm", "Load", "Pop", "SetF"}
TraceMove(m, i) ==
  IF i.op = "Mov" THEN Done(Put(m, i.a, m.reg[i.b]))
  ELSE IF i.op = "LoadImm" THEN Done(Put(m, i.a, Literal(i)))
  ELSE IF i.op = "Load" THEN IF i.b \in 0..(MemSize - 1) THEN Done(Put(m, i.a, m.mem[i.b])) ELSE GivesUp
  ELSE IF i.op = "Pop" THEN IF m.sp >= StackBase THEN GivesUp ELSE Done([Put(m, i.a, m.mem[m.sp]) EXCEPT !.sp = @ + 1])
  ELSE Write(m, i.a, m.flag, "Int")
TraceDivide(m, i) ==
  LET x == m.reg[i.b].n
      y == m.reg[i.c].n
  IN IF y = 0 THEN GivesUp
     ELSE IF x = MinInt /\ y = -1 THEN Done(Trapped(m, "Killed"))
     ELSE Write(m, i.a, IF i.op = "Div" THEN Quotient(x, y) ELSE x - y * Quotient(x, y), "Int")

TraceLogic(op, x, y) ==
  LET t == clamp_trit(x)
      u == clamp_trit(y)
  IN IF op = "TNot" THEN -t
     ELSE IF op = "TAnd" THEN IF t < u THEN t ELSE u
     ELSE IF op = "TOr" THEN IF t > u THEN t ELSE u
     ELSE Trit(t - u)
TraceBits(op, x, y) ==
  LET u == Unsigned(x)
      v == Unsigned(y)
  IN IF op = "BitAnd" THEN Wrap(Bitwise(u, v, And))
     ELSE IF op = "BitOr" THEN Wrap(Bitwise(u, v, Or))
     ELSE IF op = "BitXor" THEN Wrap(Bitwise(u, v, Xor))
     ELSE IF op = "BitNot" THEN -x - 1
     ELSE IF op = "BitShl" THEN Wrap(x * TwoTo[Shift(x, y)])
     ELSE IF op = "BitShr" THEN x \div TwoTo[Shift(x, y)]
     ELSE Wrap(u \div TwoTo[Shift(x, y)])
TraceArithmetic(op, x, y) ==
  IF op = "Add" THEN Wrap(x + y)
  ELSE IF op = "Sub" THEN Wrap(x - y)
  ELSE IF op = "Mul" THEN Wrap(x * y)
  ELSE Wrap(-x)
TraceCalculate(m, i) ==
  LET x == m.reg[i.b].n
      y == m.reg[i.c].n
  IN IF i.op = "Inc" THEN Write(m, i.a, Wrap(m.reg[i.a].n + 1), "Int")
     ELSE IF i.op = "Dec" THEN Write(m, i.a, Wrap(m.reg[i.a].n - 1), "Int")
     ELSE IF i.op \in {"TNot", "TAnd", "TOr", "TXor"} THEN Write(m, i.a, TraceLogic(i.op, x, y), "Int")
     ELSE IF i.op \in {"Add", "Sub", "Mul", "Neg"} THEN Write(m, i.a, TraceArithmetic(i.op, x, y), "Int")
     ELSE Write(m, i.a, TraceBits(i.op, x, y), "Int")
(* Words are compared by number, whatever their tags; Cmp gives up on tags. *)
TraceCompare(m, i) == Write(m, i.a, Truth(Holds(i.op, SignOf(m.reg[i.b].n - m.reg[i.c].n))), "Int")
TraceCmp(m, i) ==
  IF m.reg[i.a].tag = "Int" /\ m.reg[i.b].tag = "Int"
  THEN Done(update_flags(m, SignOf(m.reg[i.a].n - m.reg[i.b].n)))
  ELSE GivesUp

TraceStore(m, i) ==
  IF i.a \in 0..(MemSize - 1) THEN Done([m EXCEPT !.mem[i.a] = m.reg[i.b]]) ELSE GivesUp
TracePush(m, i) ==
  IF m.sp <= StackLimit THEN GivesUp ELSE Done([m EXCEPT !.sp = @ - 1, !.mem[m.sp - 1] = m.reg[i.a]])

(* Entries are appended to the pools, without looking for an equal one.    *)
TraceMake(m, i) ==
  LET w == m.reg[i.b]
      v == m.reg[i.c]
      Option(x) == Put([m EXCEPT !.options = Append(@, x)], i.a, Word(Len(m.options) + 1, "Option"))
      Result(x) == Put([m EXCEPT !.results = Append(@, x)], i.a, Word(Len(m.results) + 1, "Result"))
      Enum(x) == Put([m EXCEPT !.enums = Append(@, x)], i.a, Word(Len(m.enums) + 1, "Enum"))
      Complex == Put([m EXCEPT !.complexes = Append(@, <<w.n, v.n>>)], i.a, Word(Len(m.complexes) + 1, "Complex"))
  IN IF i.op = "MakeOptionSome" THEN Done(Option(Box(TRUE, w)))
     ELSE IF i.op = "MakeOptionNone" THEN Done(Option(Box(FALSE, Nothing)))
     ELSE IF i.op = "MakeResultOk" THEN Done(Result(Box(TRUE, w)))
     ELSE IF i.op = "MakeResultErr" THEN Done(Result(Box(FALSE, w)))
     ELSE IF i.op = "MakeEnumVariant" THEN Done(Enum(Variant(i.b, -1, FALSE, Nothing)))
     ELSE IF i.op = "MakeEnumVariantPayload" THEN IF i.c < 0 THEN GivesUp ELSE Done(Enum(Variant(i.c, -1, TRUE, w)))
     ELSE IF w.tag = "Int" /\ v.tag = "Int" THEN Done(Complex) ELSE GivesUp
TraceOpen(m, i) ==
  LET w == m.reg[i.b]
      x == Entry(m, w)
      Is == IF i.op = "EnumIsVariant" THEN x.id = i.c ELSE x.is
  IN IF w.tag # Opened[i.op] \/ ~Known(m, w) THEN GivesUp
     ELSE IF i.op \in {"OptionIsSome", "ResultIsOk", "EnumIsVariant"} THEN Write(m, i.a, Truth(Is), "Int")
     ELSE IF x.is = (i.op = "ResultUnwrapErr") THEN GivesUp
     ELSE Done(Put(m, i.a, x.of))

(* Tensors take a slot without asking the policy, and are not accounted.   *)
TraceTensor(m, i) ==
  LET v == m.reg[i.b]
      w == m.reg[i.c]
      s == m.tensors[v.n]
      t == m.tensors[w.n]
  IN IF v.tag # "Tensor" \/ w.tag # "Tensor" \/ ~({v.n, w.n} \subseteq DOMAIN m.tensors) THEN GivesUp
     ELSE IF ~Fits(i.op, s, t) THEN GivesUp
     ELSE Done([m EXCEPT !.tensors = Append(@, ShapeOf(i.op, s, t)),
                         !.reg[i.a] = Word(Len(m.tensors) + 1, "Tensor")])

(* A branch that is taken leaves the trace, wherever it goes.              *)
TraceJump(m, i) == Done(IF Taken(m, i) THEN [m EXCEPT !.pc = i.a] ELSE m)

TraceExecute(m, i) ==
  IF i.op \in TraceMoves THEN TraceMove(m, i)
  ELSE IF i.op \in Calculations THEN TraceCalculate(m, i)
  ELSE IF i.op \in {"Div", "Mod"} THEN TraceDivide(m, i)
  ELSE IF i.op \in Comparisons THEN TraceCompare(m, i)
  ELSE IF i.op = "Cmp" THEN TraceCmp(m, i)
  ELSE IF i.op = "Store" THEN TraceStore(m, i)
  ELSE IF i.op = "Push" THEN TracePush(m, i)
  ELSE IF i.op \in Makes THEN TraceMake(m, i)
  ELSE IF i.op \in DOMAIN Opened THEN TraceOpen(m, i)
  ELSE IF i.op \in {"TMatMul", "TRMSNorm"} THEN TraceTensor(m, i)
  ELSE TraceJump(m, i)
(* After most instructions the flags are set from the register the first   *)
(* operand names, also when the trace gives up.                            *)
LeavesFlagsShort == Jumps \cup {"Store", "Push", "TMatMul", "TRMSNorm"}
LeavesFlags == Jumps \cup {"Store", "Push", "Cmp", "TMatMul", "TRMSNorm"}
Flagged(m, i) == IF i.op \in LeavesFlags THEN m ELSE update_flags(m, m.reg[i.a].n)

Recorded == TraceMoves \cup Calculations \cup {"Div", "Mod", "Cmp", "Store", "Push", "TMatMul", "TRMSNorm"}
            \cup Comparisons \cup Makes \cup DOMAIN Opened \cup Jumps

(* The machine after the trace's part, and whether it gave up.             *)
Traced(m, i) ==
  LET done == TraceExecute(m, i)
  IN [m |-> Flagged(IF done = GivesUp THEN m ELSE done[1], i), deopt |-> done = GivesUp]

(******************************* departures ********************************)
(* The ways in which a trace is known to part from the interpreter.        *)
AllocatesTensor == TensorOps \cup UnaryTensorOps
ReadsNumbers == Calculations \cup AllocatesTensor \cup
                {"Div", "Mod", "MemZero", "Copy", "MetaRead", "MetaWrite", "MetaRefine", "TNorm"}
NamesIndex == {"MetaRead", "MetaWrite"}
Operands(m, i) ==
  {m.reg[r] : r \in (IF i.op \in NamesIndex THEN {i.c} ELSE IF i.op \in {"Inc", "Dec"} THEN {i.a}
                     ELSE IF i.op \in {"MemZero", "Copy"} THEN {i.a, i.b, i.c} ELSE {i.b, i.c}) \cap DOMAIN m.reg}
(* A refinement also reads the words of its commands, and may make of a    *)
(* number a handle of any kind; so may a literal, of a tensor.             *)
CommandsOf(m, i) == Commands(m, m.reg[i.b].n, m.reg[i.c].n)
CommandsRead(m, i) ==
  /\ i.op = "MetaRefine" /\ m.reg[i.c].n \in 0..MaxRefinements
  /\ Readable(m.reg[i.b].n, m.reg[i.c].n)
CommandWords(m, i) ==
  IF CommandsRead(m, i) THEN {m.mem[m.reg[i.b].n + k] : k \in 0..(4 * m.reg[i.c].n - 1)} ELSE {}
Forged(m, i) ==
  IF i.op = "LoadImm" THEN {Literal(i)}
  ELSE IF CommandsRead(m, i) THEN {CommandsOf(m, i)[k].word : k \in DOMAIN CommandsOf(m, i)} ELSE {}
Way(d, taken) == IF taken THEN {d} ELSE {}
Forges(m, i) ==
  Way("ForgesHandle", \E w \in Forged(m, i) : w.tag \in Handles \/ (w.tag = "Tensor" /\ w.n \notin DOMAIN m.tensors))
(* Tags of words that are not compared by their numbers.                   *)
NotNumbers == Handles \cup DOMAIN Pooled \cup TokenTags \cup {"Unnamed"}
Departures(m, i) ==
  Way("WritesFixed", i.op \in {"Mov", "LoadImm", "SetF"} \cup DOMAIN Opened /\ i.a \in Fixed)
  \cup Way("ComparesByNumber", i.op \in Comparisons /\ (m.reg[i.b].tag # m.reg[i.c].tag \/ m.reg[i.b].tag \in NotNumbers))
  \cup Way("BeyondSegments", (i.op = "Load" /\ ~mem_ok(i.b)) \/ (i.op = "Store" /\ ~mem_ok(i.a)))
  \cup Way("StackPolicy", i.op = "Push" /\ StackBase - (m.sp - 1) > MaxStack)
  \cup Way("Unaccounted", i.op \in AllocatesTensor /\ Interp(m, i).trap = "SecurityFault")
  \cup Way("BranchesAnywhere", i.op \in Jumps /\ i.a \notin 0..CodeSize)
  \cup Way("NegativeVariant", i.op = "MakeEnumVariant" /\ i.b < 0)
  \cup Way("ReadsHandle", i.op \in ReadsNumbers /\ \E w \in Operands(m, i) \cup CommandWords(m, i) : w.tag \in Handles)
  \cup Forges(m, i)

(***************************** the two machines ****************************)
(* What a machine is made of.                                              *)
Tags == {TagAt[k] : k \in DOMAIN TagAt} \cup {"Unnamed"}
Words == [n : Int, tag : Tags]
Boxes == [is : BOOLEAN, of : Words]
Variants == [id : Int, enum : Int, is : BOOLEAN, of : Words]
HasFields(m) ==
  m = [reg |-> m.reg, mem |-> m.mem, sp |-> m.sp, flag |-> m.flag, options |-> m.options, results |-> m.results,
       enums |-> m.enums, complexes |-> m.complexes, tensors |-> m.tensors, elements |-> m.elements,
       printed |-> m.printed, reflections |-> m.reflections, pc |-> m.pc, trap |-> m.trap]
IsMachine(m) ==
  /\ HasFields(m)
  /\ m.reg \in [Registers -> Words] /\ m.mem \in [0..(MemSize - 1) -> Words]
  /\ m.sp \in StackLimit..StackBase /\ m.flag \in -1..1
  /\ m.options \in Seq(Boxes) /\ m.results \in Seq(Boxes) /\ m.enums \in Seq(Variants)
  /\ m.complexes \in Seq(Int \X Int)
  /\ m.tensors \in Seq(Seq(Nat)) /\ m.elements \in Int /\ m.reflections \in Nat

(* A handle is live if there is an entry for it (of enums, 0 is a handle   *)
(* of none), in registers and memory and inside other entries.             *)
Live(m, w) ==
  /\ w.tag \in Handles => Known(m, w) \/ (w.tag = "Enum" /\ w.n = 0)
  /\ w.tag = "Tensor" => w.n \in DOMAIN m.tensors
AllLive(m) ==
  /\ \A r \in DOMAIN m.reg : Live(m, m.reg[r])
  /\ \A a \in DOMAIN m.mem : Live(m, m.mem[a])
  /\ \A pool \in {m.options, m.results, m.enums} : \A h \in DOMAIN pool : Live(m, pool[h].of)

Opcodes == Recorded \cup AllocatesTensor \cup Unimplemented \cup Blocked \cup
           {"MemZero", "Copy", "TNorm", "Assert", "AxRead", "AxSet", "AxReport", "AxCheck", "Trap", "Print", "AxVerify",
            "MetaRead", "MetaWrite", "MetaReflect", "MetaRefine"}
ASSUME InsnAssumption == \A i \in Insns : i.op \in Opcodes /\ {i.a, i.b, i.c} \subseteq Int /\ i.tag \in LiteralTags
ASSUME StartAssumption == \A m \in Starts : IsMachine(m) /\ AllLive(m) /\ m.trap = "None"

Init ==
  /\ vm \in Starts
  /\ tr = vm
  /\ steps = 0
  /\ departed = {}

(* An instruction is interpreted by vm; tr runs it as a trace if it is     *)
(* recorded, and interprets it if it is not or if the trace gives up.  An  *)
(* instruction that names no register ends the run, so it is in no trace.  *)
Execute(i) ==
  /\ steps < Length
  /\ vm.trap = "None" /\ tr.trap = "None"
  /\ departed = {}
  /\ steps' = steps + 1
  /\ vm' = Interp(vm, i)
  /\ LET traced == Traced(tr, i)
     IN tr' = IF i.op \notin Recorded \/ ~reg_ok(tr, i) THEN Interp(tr, i)
              ELSE IF traced.deopt THEN Interp(traced.m, i) ELSE traced.m
  /\ departed' = IF reg_ok(vm, i) THEN Departures(vm, i) \cup Forges(tr, i) ELSE {}

Next == \E i \in Insns : Execute(i)
Spec == Init /\ [][Next]_vars

(******************************* properties ********************************)
(* What a word stands for: what is seen of it, and of what it holds.       *)
Meaning(m, w) == Faces(m, w, MaxNesting)
Meanings(m, f) == [x \in DOMAIN f |-> Meaning(m, f[x])]

(* Traces and the interpreter agree: whatever instructions come, the       *)
(* machine that runs them as traces ends with registers, memory, stack,    *)
(* flags, tensors, branches, output and traps that stand for the same as   *)
(* those of the one that interprets them, until one of the departures.     *)
(* (When an instruction traps, giving up may have set the flags.)          *)
Agree == /\ Meanings(vm, vm.reg) = Meanings(tr, tr.reg)
         /\ Meanings(vm, vm.mem) = Meanings(tr, tr.mem)
         /\ <<vm.sp, vm.tensors, vm.reflections, vm.pc, vm.trap, vm.printed>>
              = <<tr.sp, tr.tensors, tr.reflections, tr.pc, tr.trap, tr.printed>>
         /\ vm.trap = "None" => vm.flag = tr.flag
TracesAgree == departed = {} => Agree

(* No handle dangles: a word with the tag of a pool names an entry of it,  *)
(* in both machines -- unless a refinement or a literal has made a handle  *)
(* of a number.                                                            *)
HandlesLive == "ForgesHandle" \notin departed => AllLive(vm) /\ AllLive(tr)

(* An instruction that traps has done nothing: a refinement, a copy or a   *)
(* push is made whole or not at all.  There are two exceptions: words that *)
(* were zeroed before the first one that may not be (MemZero), and weights *)
(* that were decoded into a tensor before the second operand was looked at.*)
FailsWhole ==
  [][vm'.trap # "None" =>
       LET zeroed == {a \in DOMAIN vm.mem : vm'.mem[a] # vm.mem[a]}
       IN \/ vm' = [vm EXCEPT !.trap = vm'.trap]
          \/ /\ vm'.trap = "BoundsFault"
             /\ vm' = [vm EXCEPT !.mem = [a \in DOMAIN @ |-> IF a \in zeroed THEN Word(0, "Int") ELSE @[a]],
                                 !.trap = vm'.trap]
          \/ /\ vm.reg # vm'.reg /\ vm.mem = vm'.mem
             /\ \A r \in DOMAIN vm.reg : vm'.reg[r] # vm.reg[r] => vm.reg[r].tag = "Weights"]_vars
=============================================================================
