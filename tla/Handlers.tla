------------------------------ MODULE Handlers -------------------------------
(***************************************************************************)
(* The handlers of the interpreter's step (core/vm/vm.cpp) down to words:  *)
(* an integer of Width bits or a handle, with the tag that tells which,    *)
(* the condition flags, the memory segments, and the pools of options,     *)
(* results, enums and complex numbers, where equal entries are found again *)
(* (interned).  A handler maps a machine to a machine.                     *)
(*                                                                         *)
(* The end of a step (collector, tiers) and calls are those of VmGc and    *)
(* VmCalls.                                                                *)
(***************************************************************************)
EXTENDS Integers, SequencesExt

CONSTANTS
  Width,       \* bits of an integer
  Fixed,       \* registers that keep their value: 0 and 75 to 80
  CodeSize,    \* addresses 0..CodeSize-1 are the code segment
  StackSize,   \* the stack segment follows it
  HeapSize,    \* and then the other segments
  Pooled,      \* what the handles of constant pools (floats, symbols) stand for
  Tokens,      \* the symbols that name a token of the runtime, with its tag
  MaxStack,    \* the policy: stack words,
  MaxTensors,  \* tensors,
  MaxElements, \* and elements of all tensors
  PrintDepth,  \* 8: how deep what is printed may be nested
  MaxNesting,  \* bound of the model: how deep what is compared may be nested
  MaxReflections, MaxRefinements  \* kMaxReflectionsPerEpoch (81), kMaxMetaWritesPerEpoch (243)
ASSUME LayoutAssumption ==
  /\ Width \in Nat \ {0} /\ CodeSize \in Nat \ {0} /\ StackSize \in Nat /\ HeapSize \in Nat
  /\ PrintDepth \in Nat /\ MaxNesting \in Nat /\ MaxElements \in Nat

(* Tags, in the order of their codes.  A literal has one of the first      *)
(* eight; the pools of handles are filled by instructions.                 *)
TagAt == <<"Int", "Bool", "Float", "Fraction", "Symbol", "Weights", "Tensor", "Shape", "Option", "Result", "Enum",
           "Complex", "Reflection", "Proof", "IoStream", "IoNet", "AsyncThread", "AsyncPromise", "StringVector",
           "Graph", "Frame", "Infinite">>
LiteralTags == {"Int", "Bool", "Float", "Fraction", "Symbol", "Tensor", "Shape"}
TokenTags == {"Proof", "IoStream", "IoNet", "AsyncThread", "AsyncPromise"}
Handles == {"Option", "Result", "Enum", "Complex"}
ASSUME PoolAssumption ==
  DOMAIN Pooled = {"Float", "Fraction", "Symbol"} /\ \A s \in DOMAIN Tokens : Tokens[s] \in TokenTags

StackLimit == CodeSize
StackBase == CodeSize + StackSize
MemSize == StackBase + HeapSize
Segments == StackLimit..(MemSize - 1)

(* Two's complement, and C's division. *)
TwoTo[k \in 0..Width] == IF k = 0 THEN 1 ELSE 2 * TwoTo[k - 1]
Unsigned(x) == x % TwoTo[Width]
Wrap(x) == LET u == Unsigned(x) IN IF u >= TwoTo[Width - 1] THEN u - TwoTo[Width] ELSE u
MinInt == -TwoTo[Width - 1]
Magnitude(x) == IF x < 0 THEN -x ELSE x
SignOf(x) == IF x < 0 THEN -1 ELSE IF x > 0 THEN 1 ELSE 0
Quotient(x, y) == SignOf(x) * SignOf(y) * (Magnitude(x) \div Magnitude(y))
Remainder(x, y) == x - y * Quotient(x, y)
Shift(x, y) == Unsigned(y) % Width

(********************************* words ***********************************)
Word(n, tag) == [n |-> n, tag |-> tag]
Insn(op, a, b, c) == [op |-> op, a |-> a, b |-> b, c |-> c, tag |-> "Int", verdict |-> "Allow"]
Put(m, r, w) == [m EXCEPT !.reg[r] = w]
set_reg(m, r, w) == IF r \in Fixed THEN m ELSE Put(m, r, w)
update_flags(m, n) == [m EXCEPT !.flag = SignOf(n)]
PutInt(m, r, n) == update_flags(Put(m, r, Word(n, "Int")), n)
SetAndFlag(m, r, w) == LET s == set_reg(m, r, w) IN update_flags(s, s.reg[r].n)
Trapped(m, trap) == [m EXCEPT !.trap = trap]

(***************************** arithmetic **********************************)
clamp_trit(x) == SignOf(x)
Trit(x) == IF x > 1 THEN -1 ELSE IF x < -1 THEN 1 ELSE x
Trits == {"TNot", "TAnd", "TOr", "TXor"}
OfTrits(op, x, y) ==
  LET t == clamp_trit(x)
      u == clamp_trit(y)
  IN IF op = "TNot" THEN -t
     ELSE IF op = "TAnd" THEN IF t < u THEN t ELSE u
     ELSE IF op = "TOr" THEN IF t > u THEN t ELSE u
     ELSE Trit(t - u)
BitOps == {"BitAnd", "BitOr", "BitXor", "BitNot", "BitShl", "BitShr", "BitUShr"}
Bit(u, k) == (u \div TwoTo[k]) % 2
Number(bits) == LET sum[k \in 0..Width] == IF k = 0 THEN 0 ELSE sum[k - 1] + bits[k - 1] * TwoTo[k - 1] IN sum[Width]
Bitwise(u, v, Of(_, _)) == Number([k \in 0..(Width - 1) |-> Of(Bit(u, k), Bit(v, k))])
And(p, q) == p * q
Or(p, q) == p + q - p * q
Xor(p, q) == (p + q) % 2
OfBits(op, x, y) ==
  IF op = "BitAnd" THEN Wrap(Bitwise(Unsigned(x), Unsigned(y), And))
  ELSE IF op = "BitOr" THEN Wrap(Bitwise(Unsigned(x), Unsigned(y), Or))
  ELSE IF op = "BitXor" THEN Wrap(Bitwise(Unsigned(x), Unsigned(y), Xor))
  ELSE IF op = "BitNot" THEN -x - 1
  ELSE IF op = "BitShl" THEN Wrap(x * TwoTo[Shift(x, y)])
  ELSE IF op = "BitShr" THEN x \div TwoTo[Shift(x, y)]
  ELSE Wrap(Unsigned(x) \div TwoTo[Shift(x, y)])
Sums == {"Add", "Sub", "Mul", "Neg"}
OfIntegers(op, x, y) ==
  IF op = "Add" THEN Wrap(x + y)
  ELSE IF op = "Sub" THEN Wrap(x - y)
  ELSE IF op = "Mul" THEN Wrap(x * y)
  ELSE Wrap(-x)
Calculations == Trits \cup BitOps \cup Sums \cup {"Inc", "Dec"}
Calculated(op, x, y) ==
  IF op \in Trits THEN OfTrits(op, x, y)
  ELSE IF op \in BitOps THEN OfBits(op, x, y)
  ELSE OfIntegers(op, x, y)
Calculate(m, i) ==
  IF i.op = "Inc" THEN PutInt(m, i.a, Wrap(m.reg[i.a].n + 1))
  ELSE IF i.op = "Dec" THEN PutInt(m, i.a, Wrap(m.reg[i.a].n - 1))
  ELSE PutInt(m, i.a, Calculated(i.op, m.reg[i.b].n, m.reg[i.c].n))
(* Dividing the least integer by -1 stops the process. *)
Divide(m, i) ==
  LET x == m.reg[i.b].n
      y == m.reg[i.c].n
  IN IF y = 0 THEN Trapped(m, "DivisionFault")
     ELSE IF x = MinInt /\ y = -1 THEN Trapped(m, "Killed")
     ELSE PutInt(m, i.a, IF i.op = "Div" THEN Quotient(x, y) ELSE Remainder(x, y))

(************************ what is seen of a word ***************************)
(* A handle stands for its entry; nothing is seen of one without an entry. *)
PoolOf(m, tag) ==
  IF tag = "Option" THEN m.options
  ELSE IF tag = "Result" THEN m.results
  ELSE IF tag = "Enum" THEN m.enums
  ELSE m.complexes
Known(m, w) == w.tag \in Handles /\ w.n \in DOMAIN PoolOf(m, w.tag)
Entry(m, w) == PoolOf(m, w.tag)[w.n]
Face(tag, known, is, n) == [tag |-> tag, known |-> known, is |-> is, n |-> n]
Seen(m, w) ==
  IF ~Known(m, w) THEN Face(w.tag, FALSE, FALSE, w.n)
  ELSE IF w.tag = "Complex" THEN Face(w.tag, TRUE, FALSE, Entry(m, w))
  ELSE Face(w.tag, TRUE, Entry(m, w).is, IF w.tag = "Enum" THEN Entry(m, w).id ELSE 0)
(* Options, results and enums hold a word, which is seen by opening them:  *)
(* a word, what it holds, what that holds, and so on.                      *)
Inside(m, w) == IF Known(m, w) /\ w.tag # "Complex" THEN Entry(m, w).of ELSE w
Layers(m, w, depth) ==
  LET layer[n \in 0..depth] == IF n = 0 THEN w ELSE Inside(m, layer[n - 1]) IN layer
Faces(m, w, depth) == [n \in 0..depth |-> Seen(m, Layers(m, w, depth)[n])]

(***************************** comparison **********************************)
(* Options and results are compared by what they hold, pool constants by   *)
(* what they stand for, tokens by their kind; 2 stands for no answer.      *)
Unordered == 2
Deeper == 3
Compared(p, q) ==
  IF p.tag # q.tag \/ p.tag \in {"Enum", "Unnamed"} THEN Unordered
  ELSE IF p.tag \in TokenTags THEN 0
  ELSE IF p.tag \in DOMAIN Pooled
       THEN IF {p.n, q.n} \subseteq DOMAIN Pooled[p.tag] THEN SignOf(Pooled[p.tag][p.n] - Pooled[p.tag][q.n])
            ELSE Unordered
  ELSE IF p.tag \notin Handles THEN SignOf(p.n - q.n)
  ELSE IF ~p.known \/ ~q.known THEN Unordered
  ELSE IF p.tag = "Complex" THEN SignOf(IF p.n[1] = q.n[1] THEN p.n[2] - q.n[2] ELSE p.n[1] - q.n[1])
  ELSE IF p.is # q.is THEN IF p.is THEN 1 ELSE -1
  ELSE IF p.tag = "Option" /\ ~p.is THEN 0 ELSE Deeper
(* The outermost layer that decides. *)
Decided(f, g) == {n \in DOMAIN f : Compared(f[n], g[n]) # Deeper /\ \A k \in 0..(n - 1) : Compared(f[k], g[k]) = Deeper}
Verdict(f, g) == IF Decided(f, g) = {} THEN Unordered ELSE LET n == CHOOSE n \in Decided(f, g) : TRUE IN Compared(f[n], g[n])
compare_value(m, v, w) == Verdict(Faces(m, v, MaxNesting), Faces(m, w, MaxNesting))

Comparisons == {"Less", "LessEqual", "Greater", "GreaterEqual", "Equal", "NotEqual"}
Holds(op, sign) ==
  CASE op = "Less" -> sign < 0
    [] op = "LessEqual" -> sign <= 0
    [] op = "Greater" -> sign > 0
    [] op = "GreaterEqual" -> sign >= 0
    [] op = "Equal" -> sign = 0
    [] op = "NotEqual" -> sign # 0
Truth(p) == IF p THEN 1 ELSE 0
Ordered(m, v, w, Then(_)) ==
  IF v.tag # w.tag THEN Trapped(m, "TypeFault")
  ELSE IF compare_value(m, v, w) = Unordered THEN Trapped(m, "DecodeFault")
  ELSE Then(compare_value(m, v, w))
Compare(m, i) ==
  IF i.op = "Cmp" THEN Ordered(m, m.reg[i.a], m.reg[i.b], LAMBDA sign : update_flags(m, sign))
  ELSE Ordered(m, m.reg[i.b], m.reg[i.c], LAMBDA sign : PutInt(m, i.a, Truth(Holds(i.op, sign))))
SetFlag(m, i) == LET n == IF m.flag = -1 THEN -1 ELSE IF m.flag # 0 THEN 1 ELSE 0
                 IN update_flags(set_reg(m, i.a, Word(n, "Int")), n)

(************************ registers and memory *****************************)
Literal(i) == IF i.tag = "Symbol" /\ i.b \in DOMAIN Tokens THEN Word(1, Tokens[i.b]) ELSE Word(i.b, i.tag)
LoadImm(m, i) == SetAndFlag(m, i.a, Literal(i))
Mov(m, i) == SetAndFlag(m, i.a, m.reg[i.b])
mem_ok(address) == address \in Segments
Load(m, i) == IF mem_ok(i.b) THEN update_flags(Put(m, i.a, m.mem[i.b]), m.mem[i.b].n)
              ELSE Trapped(m, "BoundsFault")
Store(m, i) == IF mem_ok(i.a) THEN [m EXCEPT !.mem[i.a] = m.reg[i.b]] ELSE Trapped(m, "BoundsFault")
Push(m, i) ==
  IF m.sp <= StackLimit \/ StackBase - (m.sp - 1) > MaxStack THEN Trapped(m, "StackFault")
  ELSE [m EXCEPT !.sp = @ - 1, !.mem[m.sp - 1] = m.reg[i.a]]
Pop(m, i) ==
  IF m.sp >= StackBase THEN Trapped(m, "StackFault")
  ELSE update_flags([Put(m, i.a, m.mem[m.sp]) EXCEPT !.sp = @ + 1], m.mem[m.sp].n)

Jumps == {"Jump", "JumpIfZero", "JumpIfNotZero", "JumpIfNegative", "JumpIfPositive"}
Taken(m, i) ==
  IF i.op = "Jump" THEN TRUE
  ELSE IF i.op = "JumpIfZero" THEN m.reg[i.b].n = 0
  ELSE IF i.op = "JumpIfNotZero" THEN m.reg[i.b].n # 0
  ELSE IF i.op = "JumpIfNegative" THEN m.flag = -1
  ELSE m.flag = 1
(* The address after the last instruction counts as code. *)
Jump(m, i) ==
  IF ~Taken(m, i) THEN m
  ELSE IF i.a \in 0..CodeSize THEN [m EXCEPT !.pc = i.a]
  ELSE Trapped(m, "DecodeFault")

(* Blocks of words; zeroing stops at the first word it may not touch. *)
AddressesFrom(m, r, size) == m.reg[r].n..(m.reg[r].n + size - 1)
MemZero(m, i) ==
  LET size == m.reg[i.b].n
      wanted == AddressesFrom(m, i.a, size)
      reached == {w \in wanted : \A v \in wanted : v <= w => mem_ok(v)}
      zeroed == [m EXCEPT !.mem = [w \in DOMAIN @ |-> IF w \in reached THEN Word(0, "Int") ELSE @[w]]]
  IN IF reached = wanted THEN zeroed ELSE Trapped(zeroed, "BoundsFault")
(* Words are copied one after the other: a block that overlaps the one it  *)
(* is copied from, further up, repeats the words before the overlap.       *)
CopyWords(mem, to, from, size) ==
  [w \in DOMAIN mem |->
     IF w \notin to..(to + size - 1) THEN mem[w]
     ELSE mem[from + (IF to > from THEN (w - to) % (to - from) ELSE w - to)]]
CopyEarly(m, i) ==
  LET size == m.reg[i.c].n
      CopyAt(n) == {m.reg[i.a].n + n, m.reg[i.b].n + n}
      reached == CHOOSE n \in 0..size : /\ n = size \/ ~(CopyAt(n) \subseteq Segments)
                                       /\ \A k \in 0..(n - 1) : CopyAt(k) \subseteq Segments
      copied == [m EXCEPT !.mem = CopyWords(@, m.reg[i.a].n, m.reg[i.b].n, reached)]
  IN IF size <= 0 THEN m ELSE IF reached = size THEN copied ELSE Trapped(copied, "BoundsFault")
Copy(m, i) ==
  LET size == m.reg[i.c].n
  IN IF AddressesFrom(m, i.a, size) \cup AddressesFrom(m, i.b, size) \subseteq Segments
     THEN [m EXCEPT !.mem = CopyWords(@, m.reg[i.a].n, m.reg[i.b].n, size)]
     ELSE Trapped(m, "BoundsFault")

(*********************** options, results, enums ***************************)
Box(is, of) == [is |-> is, of |-> of]
Nothing == Word(0, "Int")
Variant(id, enum, is, of) == [id |-> id, enum |-> enum, is |-> is, of |-> of]
EnumOf(id) == id \div 4            \* the upper half of a variant's number
(* The handle of an entry, which is appended when it is not there yet. *)
Interned(pool, x) == IF Contains(pool, x) THEN pool ELSE Append(pool, x)
HandleOfZero(pool, x) == Cardinality({h \in DOMAIN pool : \A k \in 1..h : pool[k] # x})
HandleOf(pool, x) == CHOOSE h \in DOMAIN pool : pool[h] = x /\ \A k \in 1..(h - 1) : pool[k] # x
PutHandle(m, i, h, tag) == update_flags(Put(m, i.a, Word(h, tag)), h)
InternOption(m, i, x) == LET pool == Interned(m.options, x)
                         IN PutHandle([m EXCEPT !.options = pool], i, HandleOf(pool, x), "Option")
InternResult(m, i, x) == LET pool == Interned(m.results, x)
                         IN PutHandle([m EXCEPT !.results = pool], i, HandleOf(pool, x), "Result")
InternEnum(m, i, x) ==
  IF x.id < 0 THEN PutHandle(m, i, 0, "Enum")
  ELSE LET pool == Interned(m.enums, x)
       IN PutHandle([m EXCEPT !.enums = pool], i, HandleOf(pool, x), "Enum")
InternComplex(m, i, x) == LET pool == Interned(m.complexes, x)
                          IN PutHandle([m EXCEPT !.complexes = pool], i, HandleOf(pool, x), "Complex")
Makes == {"MakeOptionSome", "MakeOptionNone", "MakeResultOk", "MakeResultErr", "MakeEnumVariant",
          "MakeEnumVariantPayload", "MakeComplex"}
Make(m, i) ==
  LET w == m.reg[i.b]
      v == m.reg[i.c]
  IN IF i.op = "MakeOptionSome" THEN InternOption(m, i, Box(TRUE, w))
     ELSE IF i.op = "MakeOptionNone" THEN InternOption(m, i, Box(FALSE, Nothing))
     ELSE IF i.op = "MakeResultOk" THEN InternResult(m, i, Box(TRUE, w))
     ELSE IF i.op = "MakeResultErr" THEN InternResult(m, i, Box(FALSE, w))
     ELSE IF i.op = "MakeEnumVariant" THEN InternEnum(m, i, Variant(i.b, EnumOf(i.b), FALSE, Nothing))
     ELSE IF i.op = "MakeEnumVariantPayload"
          THEN IF i.c < 0 THEN Trapped(m, "DecodeFault") ELSE InternEnum(m, i, Variant(i.c, EnumOf(i.c), TRUE, w))
     ELSE IF w.tag # "Int" \/ v.tag # "Int" THEN Trapped(m, "TypeFault") ELSE InternComplex(m, i, <<w.n, v.n>>)
Opened == [OptionIsSome |-> "Option", OptionUnwrap |-> "Option", ResultIsOk |-> "Result",
           ResultUnwrapOk |-> "Result", ResultUnwrapErr |-> "Result", EnumIsVariant |-> "Enum",
           EnumUnwrapPayload |-> "Enum"]
(* What an entry yields: nothing when it is not of the kind asked for. *)
Yields(i, x) ==
  IF i.op \in {"OptionIsSome", "ResultIsOk"} THEN <<Word(Truth(x.is), "Int")>>
  ELSE IF i.op = "EnumIsVariant" THEN <<Word(Truth(x.id = i.c), "Int")>>
  ELSE IF i.op = "ResultUnwrapErr" THEN IF x.is THEN <<>> ELSE <<x.of>>
  ELSE IF x.is THEN <<x.of>> ELSE <<>>
Open(m, i) ==
  LET w == m.reg[i.b]
  IN IF w.tag # Opened[i.op] THEN Trapped(m, "TypeFault")
     ELSE IF ~Known(m, w) \/ Yields(i, Entry(m, w)) = <<>> THEN Trapped(m, "DecodeFault")
     ELSE SetAndFlag(m, i.a, Yields(i, Entry(m, w))[1])

(******************************* tensors ***********************************)
Elements(shape) == LET product[k \in 0..Len(shape)] == IF k = 0 THEN 1 ELSE product[k - 1] * shape[k] IN product[Len(shape)]
Fits(op, s, t) ==
  IF op = "TMatMul" THEN Len(s) = 2 /\ Len(t) = 2 /\ s[2] = t[1]
  ELSE IF op = "TRMSNorm" THEN s # <<>> /\ Len(t) = 1 /\ t[1] = Last(s)
  ELSE Elements(s) = Elements(t)
ShapeOf(op, s, t) == IF op = "TMatMul" THEN <<s[1], t[2]>> ELSE s
AllocTensor(m, r, shape) ==
  IF Len(m.tensors) >= MaxTensors \/ m.elements + Elements(shape) > MaxElements
  THEN Trapped(m, "SecurityFault")
  ELSE [m EXCEPT !.tensors = Append(@, shape), !.elements = @ + Elements(shape),
                 !.reg[r] = Word(Len(m.tensors) + 1, "Tensor")]
(* A tensor of the model's weights is decoded into a new one first. *)
promote_to_tensor(m, r) == IF m.reg[r].tag = "Weights" THEN AllocTensor(m, r, <<2>>) ELSE m
TensorOps == {"TMatMul", "TRMSNorm", "TVecAdd", "TVecMul"}
TensorOp(m, i) ==
  LET first == promote_to_tensor(m, i.b)
      both == IF first.trap = "None" THEN promote_to_tensor(first, i.c) ELSE first
      x == both.reg[i.b].n
      y == both.reg[i.c].n
  IN IF both.trap # "None" THEN both
     ELSE IF ~({x, y} \subseteq DOMAIN both.tensors) THEN Trapped(both, IF i.op = "TRMSNorm" THEN "ShapeFault" ELSE "DecodeFault")
     ELSE IF ~Fits(i.op, both.tensors[x], both.tensors[y]) THEN Trapped(both, "ShapeFault")
     ELSE AllocTensor(both, i.a, ShapeOf(i.op, both.tensors[x], both.tensors[y]))
UnaryTensorOps == {"TExp", "TSqrt", "TSiLU", "TSoftmax", "TID", "TRoPE", "TTranspose"}
UnaryTensorOp(m, i) ==
  LET first == promote_to_tensor(m, i.b)
      x == first.reg[i.b].n
      none == IF i.op \in {"TRoPE", "TTranspose"} THEN "ShapeFault" ELSE "DecodeFault"
  IN IF first.trap # "None" THEN first
     ELSE IF x \notin DOMAIN first.tensors THEN Trapped(first, none)
     ELSE IF (i.op = "TTranspose" /\ Len(first.tensors[x]) # 2) \/ (i.op = "TRoPE" /\ Len(first.tensors[x]) < 2)
          THEN Trapped(first, "ShapeFault")
     ELSE AllocTensor(first, i.a, IF i.op = "TTranspose" THEN Reverse(first.tensors[x]) ELSE first.tensors[x])

(************************ the policy's instructions ************************)
(* The answer of the policy to these calls is part of the instruction.     *)
Denied(i) == i.verdict = "Deny"
AxRead(m, i) == IF Denied(i) THEN Trapped(m, "SecurityFault") ELSE PutInt(m, i.a, i.b)
AxSet(m, i) == IF Denied(i) THEN Trapped(m, "SecurityFault") ELSE m
AxVerify(m, i) == IF Denied(i) THEN Trapped(m, "SecurityFault") ELSE PutInt(m, i.a, Truth(i.verdict = "Defer"))
TNorm(m, i) == LET t == clamp_trit(m.reg[i.b].n) IN update_flags(set_reg(m, i.a, Word(t, "Int")), t)
AssertHolds(m, i) == IF m.reg[i.a].n = 0 THEN Trapped(m, "AssertionFailed") ELSE m
AxCheck(m, i) == IF m.reg[i.a].n = 0 \/ Denied(i) THEN Trapped(m, "SecurityFault") ELSE m
Unimplemented == {"NSend", "NRecv", "VWait", "VYield"}
Blocked == {"AxSign", "AxLineage", "AxCanon", "TNeuralFwd", "TNeuralBwd"}

(* A text is printed for a value: what options, results and enums hold is  *)
(* printed inside them, to a depth.                                        *)
NoText == <<>>
Opens(p) == p.known /\ (p.is \/ p.tag = "Result")
Prints(p) ==       \* vectors of strings are made by no instruction here
  IF p.tag \in DOMAIN Pooled THEN p.n \in DOMAIN Pooled[p.tag]
  ELSE p.known \/ p.tag \notin Handles \cup {"StringVector", "Unnamed"}
Shown(p) ==
  IF p.tag \in DOMAIN Pooled THEN <<p.tag, Pooled[p.tag][p.n]>>
  ELSE IF p.tag \in TokenTags THEN <<p.tag>>
  ELSE IF p.tag = "Bool" THEN <<p.tag, p.n # 0>>
  ELSE <<p.tag, p.is, p.n>>
Innermost(f) == {n \in DOMAIN f : ~Opens(f[n]) /\ \A k \in 0..(n - 1) : Opens(f[k])}
Text(f) ==
  IF Innermost(f) = {} THEN NoText
  ELSE LET last == CHOOSE n \in Innermost(f) : TRUE
       IN IF Prints(f[last]) THEN [n \in 1..(last + 1) |-> Shown(f[n - 1])] ELSE NoText
format_value(m, w) == Text(Faces(m, w, PrintDepth))
PrintOut(m, i) ==
  LET text == format_value(m, m.reg[i.a])
  IN IF text = NoText THEN Trapped(m, "TypeFault") ELSE [m EXCEPT !.printed = Append(@, text)]

(* Reading and writing by segment; code is read as opcodes (one here).     *)
CodeKind == 1
StackKind == 2
HeapKind == 3
RegisterKind == 100
Segment(kind) == IF kind = StackKind THEN StackLimit..(StackBase - 1) ELSE StackBase..(MemSize - 1)
MetaRead(m, i) ==
  LET address == m.reg[i.c].n
      Loaded(w) == update_flags(Put(m, i.a, w), w.n)
  IN IF Denied(i) THEN Trapped(m, "SecurityFault")
     ELSE IF i.b = RegisterKind /\ address \in DOMAIN m.reg THEN Loaded(m.reg[address])
     ELSE IF i.b = CodeKind /\ address \in 0..(CodeSize - 1) THEN Loaded(Word(1, "Int"))
     ELSE IF i.b \in {StackKind, HeapKind} /\ address \in Segment(i.b) THEN Loaded(m.mem[address])
     ELSE Trapped(m, "BoundsFault")
MetaWrite(m, i) ==
  LET address == m.reg[i.c].n
  IN IF Denied(i) THEN Trapped(m, "SecurityFault")
     ELSE IF i.b = RegisterKind /\ address \in DOMAIN m.reg THEN Put(m, address, m.reg[i.a])
     ELSE IF i.b = CodeKind /\ address \in 0..(CodeSize - 1) THEN Trapped(m, "SecurityFault")
     ELSE IF i.b \in {StackKind, HeapKind} /\ address \in Segment(i.b) THEN [m EXCEPT !.mem[address] = m.reg[i.a]]
     ELSE Trapped(m, "BoundsFault")
MetaReflect(m, i) ==
  IF m.reflections >= MaxReflections \/ Denied(i) THEN Trapped(m, "SecurityFault")
  ELSE LET taken == m.reflections + 1
       IN update_flags(set_reg([m EXCEPT !.reflections = taken], i.a, Word(taken, "Reflection")), taken)

(* A refinement is read (four words a command), checked, and then applied: *)
(* all of it or nothing.  The last command on a register or word decides.  *)
TagCalled(code) == LET c == code % 256 IN IF c + 1 \in DOMAIN TagAt THEN TagAt[c + 1] ELSE "Unnamed"
CommandAt(m, base) == [op |-> m.mem[base].n, target |-> m.mem[base + 1].n,
                       word |-> Word(m.mem[base + 2].n, TagCalled(m.mem[base + 3].n))]
Commands(m, from, count) == [k \in 1..count |-> CommandAt(m, from + 4 * (k - 1))]
Readable(from, count) == \A k \in 1..count : mem_ok(from + 4 * (k - 1)) /\ mem_ok(from + 4 * (k - 1) + 3)
SetsRegister == 2
SetsMemory == 3
Refusal(m, cmd) ==
  IF cmd.op = 1 THEN "SecurityFault"
  ELSE IF (cmd.op = SetsRegister /\ cmd.target \notin DOMAIN m.reg) \/ (cmd.op = SetsMemory /\ ~mem_ok(cmd.target))
       THEN "BoundsFault"
  ELSE "None"
RefusedCommands(m, commands) == {k \in DOMAIN commands : Refusal(m, commands[k]) # "None"}
Least(S) == CHOOSE k \in S : \A j \in S : k <= j
On(commands, op, target) == {k \in DOMAIN commands : commands[k].op = op /\ commands[k].target = target}
Applied(words, commands, op) ==
  [x \in DOMAIN words |->
     IF On(commands, op, x) = {} THEN words[x]
     ELSE commands[CHOOSE k \in On(commands, op, x) : \A j \in On(commands, op, x) : j <= k].word]
MetaRefine(m, i) ==
  LET count == m.reg[i.c].n
      commands == Commands(m, m.reg[i.b].n, count)
      refused == RefusedCommands(m, commands)
      applied == [m EXCEPT !.reg = Applied(@, commands, SetsRegister), !.mem = Applied(@, commands, SetsMemory)]
  IN IF Denied(i) THEN Trapped(m, "SecurityFault")
     ELSE IF count \notin 0..MaxRefinements \/ ~Readable(m.reg[i.b].n, count) THEN Trapped(m, "BoundsFault")
     ELSE IF refused # {} THEN Trapped(m, Refusal(m, commands[Least(refused)]))
     ELSE update_flags(set_reg(applied, i.a, Word(1, "Int")), 1)

(****************************** one step ***********************************)
(* The operands that name registers; each handler looks at them first.     *)
NamesNone == {"JumpIfNegative", "JumpIfPositive", "Jump", "AxSign", "AxLineage", "AxCanon", "Trap"}
NamesB == {"Store", "JumpIfZero", "JumpIfNotZero", "NSend", "VYield"}
NamesA == {"LoadImm", "Inc", "Dec", "Load", "SetF", "Push", "Pop", "AxRead", "AxVerify", "Print", "MakeOptionNone",
           "MakeEnumVariant", "MetaReflect", "Assert", "NRecv", "AxReport", "TNeuralBwd"}
NamesAC == {"MetaRead", "MetaWrite"}
NamesABC == {"Add", "Sub", "Mul", "Div", "Mod", "TAnd", "TOr", "TXor", "BitAnd", "BitOr", "BitXor", "BitShl", "BitShr",
             "BitUShr", "MakeComplex", "TRoPE", "Copy", "MetaRefine"} \cup Comparisons \cup TensorOps
RegistersOf(i) ==
  IF i.op \in NamesNone THEN {}
  ELSE IF i.op \in NamesB THEN {i.b}
  ELSE IF i.op \in NamesA THEN {i.a}
  ELSE IF i.op \in NamesAC THEN {i.a, i.c}
  ELSE IF i.op \in NamesABC THEN {i.a, i.b, i.c}
  ELSE {i.a, i.b}
reg_ok(m, i) == RegistersOf(i) \subseteq DOMAIN m.reg
Handler(m, i) ==
  IF i.op \in Calculations THEN Calculate(m, i)
  ELSE IF i.op \in {"Div", "Mod"} THEN Divide(m, i)
  ELSE IF i.op \in Comparisons \cup {"Cmp"} THEN Compare(m, i)
  ELSE IF i.op \in Jumps THEN Jump(m, i)
  ELSE IF i.op \in Makes THEN Make(m, i)
  ELSE IF i.op \in DOMAIN Opened THEN Open(m, i)
  ELSE IF i.op \in TensorOps THEN TensorOp(m, i)
  ELSE IF i.op \in UnaryTensorOps THEN UnaryTensorOp(m, i)
  ELSE IF i.op \in Unimplemented \cup Blocked THEN Trapped(m, "SecurityFault")
  ELSE IF i.op = "SetF" THEN SetFlag(m, i)
  ELSE IF i.op = "LoadImm" THEN LoadImm(m, i)
  ELSE IF i.op = "Mov" THEN Mov(m, i)
  ELSE IF i.op = "Load" THEN Load(m, i)
  ELSE IF i.op = "Store" THEN Store(m, i)
  ELSE IF i.op = "Push" THEN Push(m, i)
  ELSE IF i.op = "Pop" THEN Pop(m, i)
  ELSE IF i.op = "MemZero" THEN MemZero(m, i)
  ELSE IF i.op = "Copy" THEN Copy(m, i)
  ELSE IF i.op = "TNorm" THEN TNorm(m, i)
  ELSE IF i.op = "Assert" THEN AssertHolds(m, i)
  ELSE IF i.op = "AxRead" THEN AxRead(m, i)
  ELSE IF i.op \in {"AxSet", "AxReport"} THEN AxSet(m, i)
  ELSE IF i.op = "AxCheck" THEN AxCheck(m, i)
  ELSE IF i.op = "Trap" THEN Trapped(m, "TrapInstruction")
  ELSE IF i.op = "Print" THEN PrintOut(m, i)
  ELSE IF i.op = "AxVerify" THEN AxVerify(m, i)
  ELSE IF i.op = "MetaRead" THEN MetaRead(m, i)
  ELSE IF i.op = "MetaWrite" THEN MetaWrite(m, i)
  ELSE IF i.op = "MetaReflect" THEN MetaReflect(m, i)
  ELSE MetaRefine(m, i)
Interp(m, i) == IF reg_ok(m, i) THEN Handler(m, i) ELSE Trapped(m, "DecodeFault")
=============================================================================
