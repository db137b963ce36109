--------------------------- MODULE TraceOpsProofs ----------------------------
(***************************************************************************)
(* Proofs about the handlers and their counterparts in traces (TraceOps):  *)
(* for machines of any size and any pools, tensors and instructions.       *)
(***************************************************************************)
EXTENDS TraceOps, Induction, SequenceTheorems

(****************************** numbers ************************************)
(* Powers of two, and the numbers that bits make.                          *)
LEMMA TwoToIs == \A k \in 0..Width : TwoTo[k] \in Nat \ {0}
<1> DEFINE Positive == Nat \ {0}
           step == [q \in (1..Width) \X Positive |-> 2 * q[2]]
           Body(g) == [k \in 0..Width |-> IF k = 0 THEN 1 ELSE 2 * g[k - 1]]
           powers == CHOOSE g : g = Body(g)
<1>0. Width \in Nat
  BY LayoutAssumption
<1>1. StepsIn(step, Width, Positive) /\ 1 \in Positive
  BY DEF StepsIn
<1> HIDE DEF step, Body, powers
<1>2. PICK g : IsRun(g, 1, step, Width, Positive)
  BY <1>0, <1>1, Iterates
<1>3. ASSUME NEW k \in 1..Width
      PROVE  g[k] = 2 * g[k - 1]
  <2>1. k - 1 \in 0..Width /\ g[k - 1] \in Positive
    BY <1>0, <1>2 DEF IsRun
  <2> QED
    BY <1>2, <2>1 DEF step, IsRun
<1>4. g = Body(g)
  BY <1>2, <1>3 DEF Body, IsRun
<1>5. powers = Body(powers)
  BY <1>4 DEF powers
<1>6. TwoTo = powers
  BY DEF TwoTo, powers, Body
<1> DEFINE T == {k \in 0..Width : TwoTo[k] \in Positive}
<1>7. 0 \in T
  BY <1>0, <1>5, <1>6 DEF Body
<1>8. ASSUME NEW k \in 0..(Width - 1), k \in T
      PROVE  k + 1 \in T
  <2>1. TwoTo[k + 1] = 2 * TwoTo[k] /\ k + 1 \in 0..Width
    BY <1>0, <1>5, <1>6 DEF Body
  <2> QED
    BY <1>8, <2>1
<1> HIDE DEF T
<1>9. 0..Width \subseteq T
  BY <1>0, <1>7, <1>8, UpTo
<1> QED
  BY <1>9 DEF T

LEMMA NumberIs ==
  ASSUME NEW bits \in [0..(Width - 1) -> Int]
  PROVE  Number(bits) \in Int
<1> DEFINE step == [q \in (1..Width) \X Int |-> q[2] + bits[q[1] - 1] * TwoTo[q[1] - 1]]
           Body(g) == [k \in 0..Width |-> IF k = 0 THEN 0 ELSE g[k - 1] + bits[k - 1] * TwoTo[k - 1]]
           sums == CHOOSE g : g = Body(g)
<1>0. Width \in Nat
  BY LayoutAssumption
<1>1. StepsIn(step, Width, Int) /\ 0 \in Int
  <2>1. \A k \in 1..Width : bits[k - 1] \in Int /\ TwoTo[k - 1] \in Int
    BY <1>0, TwoToIs
  <2>2. \A k \in 1..Width : bits[k - 1] * TwoTo[k - 1] \in Int
    BY <2>1
  <2> QED
    BY <2>2 DEF StepsIn
<1> HIDE DEF step, Body, sums
<1>2. PICK g : IsRun(g, 0, step, Width, Int)
  BY <1>0, <1>1, Iterates
<1>3. ASSUME NEW k \in 1..Width
      PROVE  g[k] = g[k - 1] + bits[k - 1] * TwoTo[k - 1]
  <2>1. k - 1 \in 0..Width /\ g[k - 1] \in Int
    BY <1>0, <1>2 DEF IsRun
  <2> QED
    BY <1>2, <2>1 DEF step, IsRun
<1>4. g = Body(g)
  BY <1>2, <1>3 DEF Body, IsRun
<1>5. sums = Body(sums)
  BY <1>4 DEF sums
<1>6. Number(bits) = sums[Width]
  BY DEF Number, sums, Body
<1> DEFINE T == {k \in 0..Width : sums[k] \in Int}
<1>7. 0 \in T
  BY <1>0, <1>5 DEF Body
<1>8. ASSUME NEW k \in 0..(Width - 1), k \in T
      PROVE  k + 1 \in T
  <2>1. k + 1 \in 0..Width /\ k + 1 # 0 /\ (k + 1) - 1 = k
    BY <1>0
  <2>2. sums[k + 1] = sums[k] + bits[k] * TwoTo[k]
    BY <1>5, <2>1 DEF Body
  <2>3. bits[k] \in Int /\ TwoTo[k] \in Int
    BY <1>0, TwoToIs
  <2>4. bits[k] * TwoTo[k] \in Int
    BY <2>3
  <2> QED
    BY <1>8, <2>1, <2>2, <2>4
<1> HIDE DEF T
<1>9. 0..Width \subseteq T
  BY <1>0, <1>7, <1>8, UpTo
<1> QED
  BY <1>0, <1>6, <1>9 DEF T

LEMMA WrapIs == ASSUME NEW x \in Int PROVE Unsigned(x) \in Nat /\ Wrap(x) \in Int
<1>1. TwoTo[Width] \in Nat \ {0} /\ TwoTo[Width - 1] \in Int
  BY TwoToIs, LayoutAssumption
<1> QED
  BY <1>1 DEF Wrap, Unsigned

LEMMA SignIs == \A x : SignOf(x) \in {-1, 0, 1}
BY DEF SignOf

(* What is calculated of integers is an integer.                           *)
LEMMA CalculatedIs ==
  ASSUME NEW op \in Calculations \ {"Inc", "Dec"}, NEW x \in Int, NEW y,
         op \notin {"TNot", "BitNot", "Neg"} => y \in Int
  PROVE  Calculated(op, x, y) \in Int
<1>1. CASE op \in Trits
  BY <1>1, SignIs DEF Calculated, OfTrits, Trit, clamp_trit, Trits
<1>2. CASE op \in BitOps
  <2>1. op \notin Trits
    BY <1>2 DEF BitOps, Trits
  <2>2. CASE op \in {"BitAnd", "BitOr", "BitXor"}
    <3>0. y \in Int /\ Width \in Nat
      BY <2>2, LayoutAssumption
    <3>1. \A k \in 0..(Width - 1) : Bit(Unsigned(x), k) \in Int /\ Bit(Unsigned(y), k) \in Int
      BY <3>0, TwoToIs, WrapIs DEF Bit
    <3> DEFINE f(Of(_, _)) == [k \in 0..(Width - 1) |-> Of(Bit(Unsigned(x), k), Bit(Unsigned(y), k))]
    <3>2. f(And) \in [0..(Width - 1) -> Int] /\ f(Or) \in [0..(Width - 1) -> Int] /\ f(Xor) \in [0..(Width - 1) -> Int]
      BY <3>1 DEF And, Or, Xor
    <3>3. Number(f(And)) \in Int /\ Number(f(Or)) \in Int /\ Number(f(Xor)) \in Int
      BY <3>2, NumberIs
    <3>4. /\ Wrap(Bitwise(Unsigned(x), Unsigned(y), And)) \in Int
          /\ Wrap(Bitwise(Unsigned(x), Unsigned(y), Or)) \in Int
          /\ Wrap(Bitwise(Unsigned(x), Unsigned(y), Xor)) \in Int
      BY <3>3, WrapIs DEF Bitwise
    <3> QED
      BY <2>1, <2>2, <3>4, <1>2 DEF Calculated, OfBits
  <2>3. CASE op = "BitNot"
    BY <2>1, <2>3, <1>2 DEF Calculated, OfBits
  <2>4. CASE op \in {"BitShl", "BitShr", "BitUShr"}
    <3>0. y \in Int /\ Width \in Nat \ {0}
      BY <2>4, LayoutAssumption
    <3>1. Shift(x, y) \in 0..Width
      BY <3>0, WrapIs DEF Shift
    <3> HIDE DEF Shift
    <3>2. TwoTo[Shift(x, y)] \in Nat \ {0}
      BY <3>1, TwoToIs
    <3>3. x * TwoTo[Shift(x, y)] \in Int /\ x \div TwoTo[Shift(x, y)] \in Int /\ Unsigned(x) \div TwoTo[Shift(x, y)] \in Int
      BY <3>2, WrapIs
    <3> QED
      BY <2>1, <2>4, <3>3, WrapIs, <1>2 DEF Calculated, OfBits
  <2> QED
    BY <1>2, <2>2, <2>3, <2>4 DEF BitOps
<1>3. CASE op \in Sums
  <2>1. op \notin Trits /\ op \notin BitOps
    BY <1>3 DEF BitOps, Trits, Sums
  <2> QED
    BY <1>3, <2>1, WrapIs DEF Calculated, OfIntegers, Sums
<1> QED
  BY <1>1, <1>2, <1>3 DEF Calculations

(****************************** machines ***********************************)
Sound(m) == IsMachine(m) /\ AllLive(m)
LiveWords(m) == {w \in Words : Live(m, w)}
Addresses == 0..(MemSize - 1)

(* n is m but for some fields.                                             *)
Differs(m, n, fields) ==
  /\ HasFields(n)
  /\ "reg" \in fields \/ n.reg = m.reg
  /\ "mem" \in fields \/ n.mem = m.mem
  /\ "sp" \in fields \/ n.sp = m.sp
  /\ "flag" \in fields \/ n.flag = m.flag
  /\ "options" \in fields \/ n.options = m.options
  /\ "results" \in fields \/ n.results = m.results
  /\ "enums" \in fields \/ n.enums = m.enums
  /\ "complexes" \in fields \/ n.complexes = m.complexes
  /\ "tensors" \in fields \/ n.tensors = m.tensors
  /\ "elements" \in fields \/ n.elements = m.elements
  /\ "printed" \in fields \/ n.printed = m.printed
  /\ "reflections" \in fields \/ n.reflections = m.reflections
  /\ "pc" \in fields \/ n.pc = m.pc
  /\ "trap" \in fields \/ n.trap = m.trap

(* The fields that hold no pool, and no words.                             *)
Plain == {"sp", "flag", "elements", "printed", "reflections", "pc", "trap"}

LEMMA PutIs ==
  ASSUME NEW m, HasFields(m), NEW r, NEW w
  PROVE  Differs(m, Put(m, r, w), {"reg"}) /\ Put(m, r, w).reg = [m.reg EXCEPT ![r] = w]
BY DEF HasFields, Put, Differs
LEMMA FlagsAre ==
  ASSUME NEW m, HasFields(m), NEW x
  PROVE  Differs(m, update_flags(m, x), {"flag"}) /\ update_flags(m, x).flag = SignOf(x)
BY DEF HasFields, update_flags, Differs
LEMMA TrapIs ==
  ASSUME NEW m, HasFields(m), NEW x
  PROVE  Differs(m, Trapped(m, x), {"trap"}) /\ Trapped(m, x).trap = x
BY DEF HasFields, Trapped, Differs
LEMMA FieldsAre ==
  ASSUME NEW m, HasFields(m), NEW x
  PROVE  /\ Differs(m, [m EXCEPT !.mem = x], {"mem"}) /\ [m EXCEPT !.mem = x].mem = x
         /\ Differs(m, [m EXCEPT !.sp = x], {"sp"}) /\ [m EXCEPT !.sp = x].sp = x
         /\ Differs(m, [m EXCEPT !.pc = x], {"pc"}) /\ [m EXCEPT !.pc = x].pc = x
         /\ Differs(m, [m EXCEPT !.printed = x], {"printed"}) /\ [m EXCEPT !.printed = x].printed = x
         /\ Differs(m, [m EXCEPT !.reflections = x], {"reflections"}) /\ [m EXCEPT !.reflections = x].reflections = x
         /\ Differs(m, [m EXCEPT !.options = x], {"options"}) /\ [m EXCEPT !.options = x].options = x
         /\ Differs(m, [m EXCEPT !.results = x], {"results"}) /\ [m EXCEPT !.results = x].results = x
         /\ Differs(m, [m EXCEPT !.enums = x], {"enums"}) /\ [m EXCEPT !.enums = x].enums = x
         /\ Differs(m, [m EXCEPT !.complexes = x], {"complexes"}) /\ [m EXCEPT !.complexes = x].complexes = x
BY DEF HasFields, Differs
LEMMA MemIs ==
  ASSUME NEW m, HasFields(m), NEW x
  PROVE  Differs(m, [m EXCEPT !.mem = x], {"mem"}) /\ [m EXCEPT !.mem = x].mem = x
BY DEF HasFields, Differs

(* Live words stay live when the pools stay the same.                      *)
LEMMA LiveBy ==
  ASSUME NEW m, NEW n, Differs(m, n, Plain \cup {"reg", "mem"})
  PROVE  /\ LiveWords(n) = LiveWords(m)
         /\ \A w : Live(n, w) <=> Live(m, w)
         /\ \A w : Seen(n, w) = Seen(m, w) /\ Inside(n, w) = Inside(m, w) /\ (Known(n, w) <=> Known(m, w))
<1>1. \A tag : PoolOf(n, tag) = PoolOf(m, tag)
  BY DEF PoolOf, Differs, Plain
<1>2. n.tensors = m.tensors
  BY DEF Differs, Plain
<1>3. \A w : (Known(n, w) <=> Known(m, w)) /\ Entry(n, w) = Entry(m, w)
  BY <1>1 DEF Known, Entry
<1>4. \A w : Live(n, w) <=> Live(m, w)
  BY <1>2, <1>3 DEF Live
<1>5. \A w : Seen(n, w) = Seen(m, w) /\ Inside(n, w) = Inside(m, w)
  BY <1>3 DEF Seen, Inside
<1> QED
  BY <1>3, <1>4, <1>5 DEF LiveWords

LEMMA LayoutIs ==
  /\ MemSize \in Nat /\ StackLimit \in Nat /\ StackBase \in Nat /\ StackLimit > 0
  /\ StackLimit <= StackBase /\ StackBase <= MemSize
  /\ Segments \subseteq Addresses
BY LayoutAssumption DEF MemSize, StackLimit, StackBase, Segments, Addresses

LEMMA SoundFacts ==
  ASSUME NEW m, Sound(m)
  PROVE  /\ HasFields(m)
         /\ m.reg \in [Registers -> LiveWords(m)] /\ m.mem \in [Addresses -> LiveWords(m)]
         /\ m.sp \in StackLimit..StackBase /\ m.sp \in Nat /\ m.flag \in -1..1 /\ m.elements \in Int /\ m.reflections \in Nat
<1>1. DOMAIN m.reg = Registers /\ DOMAIN m.mem = Addresses
  BY DEF Sound, IsMachine, Addresses
<1>2. m.sp \in StackLimit..StackBase /\ m.sp \in Nat
  BY LayoutIs DEF Sound, IsMachine
<1> QED
  BY <1>1, <1>2 DEF Sound, IsMachine, AllLive, LiveWords, Addresses

(* Nothing dangles in a machine whose words are live, the pools being the  *)
(* same.                                                                   *)
LEMMA SoundBy ==
  ASSUME NEW m, Sound(m), NEW n, Differs(m, n, Plain \cup {"reg", "mem"}),
         n.reg \in [Registers -> LiveWords(m)], n.mem \in [Addresses -> LiveWords(m)],
         n.sp \in StackLimit..StackBase, n.flag \in -1..1, n.elements \in Int, n.reflections \in Nat
  PROVE  Sound(n)
<1>1. /\ n.options = m.options /\ n.results = m.results /\ n.enums = m.enums /\ n.complexes = m.complexes
      /\ n.tensors = m.tensors /\ HasFields(n)
  BY DEF Differs, Plain
<1>2. \A w : Live(n, w) <=> Live(m, w)
  BY LiveBy
<1>3. n.reg \in [Registers -> Words] /\ n.mem \in [Addresses -> Words]
  BY DEF LiveWords
<1>4. IsMachine(n)
  BY <1>1, <1>3 DEF Sound, IsMachine, Addresses
<1>5. AllLive(n)
  <2>1. \A r \in Registers : Live(n, n.reg[r])
    BY <1>2 DEF LiveWords
  <2>2. \A a \in Addresses : Live(n, n.mem[a])
    BY <1>2 DEF LiveWords
  <2> QED
    BY <1>1, <1>2, <2>1, <2>2 DEF Sound, AllLive
<1> QED
  BY <1>4, <1>5 DEF Sound

LEMMA SoundPut ==
  ASSUME NEW m, Sound(m), NEW r \in Registers, NEW w \in LiveWords(m)
  PROVE  Sound(Put(m, r, w)) /\ LiveWords(Put(m, r, w)) = LiveWords(m)
<1> DEFINE n == Put(m, r, w)
<1>1. Differs(m, n, {"reg"}) /\ n.reg = [m.reg EXCEPT ![r] = w]
  BY PutIs, SoundFacts
<1> HIDE DEF n
<1>2. Differs(m, n, Plain \cup {"reg", "mem"})
  BY <1>1 DEF Differs, Plain
<1>3. n.reg \in [Registers -> LiveWords(m)]
  BY <1>1, SoundFacts
<1>4. n.mem = m.mem /\ n.sp = m.sp /\ n.flag = m.flag /\ n.elements = m.elements /\ n.reflections = m.reflections
  BY <1>1 DEF Differs
<1>5. Sound(n) /\ LiveWords(n) = LiveWords(m)
  BY <1>2, <1>3, <1>4, SoundFacts, SoundBy, LiveBy
<1> QED
  BY <1>5 DEF n

LEMMA SoundMem ==
  ASSUME NEW m, Sound(m), NEW f \in [Addresses -> LiveWords(m)]
  PROVE  Sound([m EXCEPT !.mem = f]) /\ LiveWords([m EXCEPT !.mem = f]) = LiveWords(m)
<1> DEFINE n == [m EXCEPT !.mem = f]
<1>0. HasFields(m)
  BY SoundFacts
<1>1. Differs(m, n, {"mem"}) /\ n.mem = f
  BY <1>0, MemIs
<1> HIDE DEF n
<1>2. Differs(m, n, Plain \cup {"reg", "mem"})
  BY <1>1 DEF Differs, Plain
<1>3. n.reg = m.reg /\ n.sp = m.sp /\ n.flag = m.flag /\ n.elements = m.elements /\ n.reflections = m.reflections
  BY <1>1 DEF Differs
<1>4. Sound(n) /\ LiveWords(n) = LiveWords(m)
  BY <1>1, <1>2, <1>3, SoundFacts, SoundBy, LiveBy
<1> QED
  BY <1>4 DEF n

(* The other fields have no say in it.                                     *)
LEMMA SoundPlain ==
  ASSUME NEW m, Sound(m), NEW n, Differs(m, n, Plain),
         n.sp \in StackLimit..StackBase, n.flag \in -1..1, n.elements \in Int, n.reflections \in Nat
  PROVE  Sound(n) /\ LiveWords(n) = LiveWords(m)
<1>1. Differs(m, n, Plain \cup {"reg", "mem"}) /\ n.reg = m.reg /\ n.mem = m.mem
  BY DEF Differs, Plain
<1> QED
  BY <1>1, SoundFacts, SoundBy, LiveBy

LEMMA SoundFlags ==
  ASSUME NEW m, Sound(m), NEW x
  PROVE  Sound(update_flags(m, x)) /\ LiveWords(update_flags(m, x)) = LiveWords(m)
<1> DEFINE n == update_flags(m, x)
<1>1. Differs(m, n, {"flag"}) /\ n.flag \in -1..1
  BY FlagsAre, SignIs, SoundFacts
<1> HIDE DEF n
<1>2. Differs(m, n, Plain) /\ n.sp = m.sp /\ n.elements = m.elements /\ n.reflections = m.reflections
  BY <1>1 DEF Differs, Plain
<1>3. Sound(n) /\ LiveWords(n) = LiveWords(m)
  BY <1>1, <1>2, SoundFacts, SoundPlain
<1> QED
  BY <1>3 DEF n

LEMMA SoundTrap ==
  ASSUME NEW m, Sound(m), NEW x
  PROVE  Sound(Trapped(m, x)) /\ LiveWords(Trapped(m, x)) = LiveWords(m)
<1> DEFINE n == Trapped(m, x)
<1>1. Differs(m, n, {"trap"})
  BY TrapIs, SoundFacts
<1> HIDE DEF n
<1>2. Differs(m, n, Plain) /\ n.sp = m.sp /\ n.flag = m.flag /\ n.elements = m.elements /\ n.reflections = m.reflections
  BY <1>1 DEF Differs, Plain
<1>3. Sound(n) /\ LiveWords(n) = LiveWords(m)
  BY <1>1, <1>2, SoundFacts, SoundPlain
<1> QED
  BY <1>3 DEF n

LEMMA SoundFields ==
  ASSUME NEW m, Sound(m), NEW x
  PROVE  /\ x \in StackLimit..StackBase => Sound([m EXCEPT !.sp = x]) /\ LiveWords([m EXCEPT !.sp = x]) = LiveWords(m)
         /\ Sound([m EXCEPT !.pc = x])
         /\ Sound([m EXCEPT !.printed = x])
         /\ x \in Nat => Sound([m EXCEPT !.reflections = x]) /\ LiveWords([m EXCEPT !.reflections = x]) = LiveWords(m)
<1>0. ASSUME NEW n,
             \/ Differs(m, n, {"sp"}) /\ n.sp \in StackLimit..StackBase
             \/ Differs(m, n, {"pc"})
             \/ Differs(m, n, {"printed"})
             \/ Differs(m, n, {"reflections"}) /\ n.reflections \in Nat
      PROVE  Sound(n) /\ LiveWords(n) = LiveWords(m)
  <2>1. Differs(m, n, Plain)
    BY <1>0 DEF Differs, Plain
  <2>2. /\ n.sp = m.sp \/ n.sp \in StackLimit..StackBase
        /\ n.reflections = m.reflections \/ n.reflections \in Nat
        /\ n.flag = m.flag /\ n.elements = m.elements
    BY <1>0 DEF Differs
  <2> QED
    BY <2>1, <2>2, SoundFacts, SoundPlain
<1> HIDE DEF Sound, LiveWords
<1> DEFINE a == [m EXCEPT !.sp = x]
           b == [m EXCEPT !.pc = x]
           c == [m EXCEPT !.printed = x]
           d == [m EXCEPT !.reflections = x]
<1>1. Differs(m, a, {"sp"}) /\ a.sp = x /\ Differs(m, b, {"pc"}) /\ Differs(m, c, {"printed"})
      /\ Differs(m, d, {"reflections"}) /\ d.reflections = x
  <2>1. HasFields(m)
    BY SoundFacts
  <2> QED
    BY ONLY <2>1, FieldsAre
<1> HIDE DEF a, b, c, d
<1>2. /\ x \in StackLimit..StackBase => Sound(a) /\ LiveWords(a) = LiveWords(m)
      /\ Sound(b) /\ Sound(c)
      /\ x \in Nat => Sound(d) /\ LiveWords(d) = LiveWords(m)
  BY <1>0, <1>1
<1> QED
  BY <1>2 DEF a, b, c, d

(******************************* pools *************************************)
(* q is p with x, which h names, added at the end if need be.              *)
Extends(S, p, q, h, x) ==
  /\ q \in Seq(S)
  /\ \A k \in DOMAIN p : k \in DOMAIN q /\ q[k] = p[k]
  /\ \A k \in DOMAIN q : k \in DOMAIN p \/ q[k] = x
  /\ h \in DOMAIN q /\ q[h] = x /\ h \in Nat \ {0}

LEMMA AppendIs ==
  ASSUME NEW S, NEW p \in Seq(S), NEW x \in S
  PROVE  Extends(S, p, Append(p, x), Len(p) + 1, x)
BY DEF Extends

LEMMA InternedIs ==
  ASSUME NEW S, NEW p \in Seq(S), NEW x \in S
  PROVE  Extends(S, p, Interned(p, x), HandleOf(Interned(p, x), x), x)
<1> DEFINE q == Interned(p, x)
           T == {k \in DOMAIN q : q[k] = x}
<1>1. /\ q \in Seq(S)
      /\ \A k \in DOMAIN p : k \in DOMAIN q /\ q[k] = p[k]
      /\ \A k \in DOMAIN q : k \in DOMAIN p \/ q[k] = x
  BY DEF Interned
<1>2. T # {}
  <2>1. CASE Contains(p, x)
    BY <2>1 DEF Interned, Contains
  <2>2. CASE ~Contains(p, x)
    <3>1. q = Append(p, x)
      BY <2>2 DEF Interned
    <3>2. Len(p) + 1 \in DOMAIN q /\ q[Len(p) + 1] = x
      BY <3>1
    <3> QED
      BY <3>2
  <2> QED
    BY <2>1, <2>2
<1>3. T \in SUBSET Nat
  BY <1>1
<1> HIDE DEF T
<1>4. PICK h \in T : \A k \in T : h <= k
  BY <1>2, <1>3, LeastOf
<1> HIDE DEF q
<1>5. h \in DOMAIN q /\ q[h] = x /\ \A k \in 1..(h - 1) : q[k] # x
  <2>1. h \in DOMAIN q /\ q[h] = x /\ h \in Nat /\ DOMAIN q = 1..Len(q) /\ Len(q) \in Nat
    BY <1>1, <1>3 DEF T
  <2>2. ASSUME NEW k \in 1..(h - 1), q[k] = x
        PROVE  FALSE
    <3>1. k \in T
      BY <2>1, <2>2 DEF T
    <3> QED
      BY <1>4, <2>1, <3>1
  <2> QED
    BY <2>1, <2>2
<1>6. HandleOf(q, x) \in DOMAIN q /\ q[HandleOf(q, x)] = x
  BY <1>5 DEF HandleOf
<1>7. HandleOf(q, x) \in Nat \ {0}
  BY <1>1, <1>6
<1> QED
  BY <1>1, <1>6, <1>7 DEF Extends, q

(* In n every pool has grown.                                              *)
Grows(m, n) ==
  /\ \A tag \in Handles : /\ 0 \notin DOMAIN PoolOf(n, tag)
                          /\ \A h \in DOMAIN PoolOf(m, tag) :
                               h \in DOMAIN PoolOf(n, tag) /\ PoolOf(n, tag)[h] = PoolOf(m, tag)[h]
  /\ DOMAIN m.tensors \subseteq DOMAIN n.tensors

(* What is live stays live and is seen as before.                          *)
LEMMA LiveGrows ==
  ASSUME NEW m, NEW n, Grows(m, n), NEW w, Live(m, w)
  PROVE  /\ Live(n, w) /\ Seen(n, w) = Seen(m, w) /\ Inside(n, w) = Inside(m, w) /\ (Known(n, w) <=> Known(m, w))
         /\ w \in Words => w \in LiveWords(n)
<1>1. Known(n, w) <=> Known(m, w)
  BY DEF Known, Live, Grows
<1>2. Known(m, w) => Entry(n, w) = Entry(m, w)
  BY DEF Known, Entry, Grows
<1>3. Live(n, w)
  BY <1>1 DEF Live, Grows
<1> QED
  BY <1>1, <1>2, <1>3 DEF Seen, Inside, LiveWords

LEMMA SoundGrown ==
  ASSUME NEW m, Sound(m), NEW n, Differs(m, n, {"options", "results", "enums", "complexes", "tensors", "elements"}),
         Grows(m, n), n.options \in Seq(Boxes), n.results \in Seq(Boxes), n.enums \in Seq(Variants),
         n.complexes \in Seq(Int \X Int), n.tensors \in Seq(Seq(Nat)), n.elements \in Int,
         \A pool \in {n.options, n.results, n.enums} : \A h \in DOMAIN pool : pool[h].of \in LiveWords(m)
  PROVE  Sound(n) /\ LiveWords(m) \subseteq LiveWords(n)
<1>1. /\ HasFields(n) /\ n.reg = m.reg /\ n.mem = m.mem /\ n.sp = m.sp /\ n.flag = m.flag
      /\ n.reflections = m.reflections
  BY DEF Differs
<1>2. LiveWords(m) \subseteq LiveWords(n)
  BY LiveGrows DEF LiveWords
<1>3. IsMachine(n)
  BY <1>1 DEF Sound, IsMachine
<1>4. AllLive(n)
  BY <1>1, <1>2, SoundFacts DEF AllLive, LiveWords
<1> QED
  BY <1>2, <1>3, <1>4 DEF Sound

LEMMA TagsAre == {"Int", "Bool", "Tensor", "Option", "Result", "Enum", "Complex", "Reflection", "Unnamed"}
                   \cup LiteralTags \cup TokenTags \subseteq Tags
<1>1. DOMAIN TagAt = 1..22
  BY DEF TagAt
<1>2. /\ TagAt[1] = "Int" /\ TagAt[2] = "Bool" /\ TagAt[3] = "Float" /\ TagAt[4] = "Fraction" /\ TagAt[5] = "Symbol"
      /\ TagAt[7] = "Tensor" /\ TagAt[8] = "Shape" /\ TagAt[9] = "Option" /\ TagAt[10] = "Result"
      /\ TagAt[11] = "Enum" /\ TagAt[12] = "Complex" /\ TagAt[13] = "Reflection" /\ TagAt[14] = "Proof"
      /\ TagAt[15] = "IoStream" /\ TagAt[16] = "IoNet" /\ TagAt[17] = "AsyncThread" /\ TagAt[18] = "AsyncPromise"
  BY DEF TagAt
<1> QED
  BY <1>1, <1>2 DEF Tags, LiteralTags, TokenTags

LEMMA WordIs ==
  ASSUME NEW m, NEW x \in Int, NEW tag \in Tags, tag \notin Handles, tag # "Tensor"
  PROVE  Word(x, tag) \in LiveWords(m)
BY DEF Word, Words, Live, LiveWords

LEMMA IntIs == ASSUME NEW m, NEW x \in Int PROVE Word(x, "Int") \in LiveWords(m)
BY WordIs, TagsAre DEF Handles

LEMMA SoundPools ==
  ASSUME NEW m, Sound(m)
  PROVE  /\ m.options \in Seq(Boxes) /\ m.results \in Seq(Boxes) /\ m.enums \in Seq(Variants)
         /\ m.complexes \in Seq(Int \X Int) /\ m.tensors \in Seq(Seq(Nat))
         /\ \A pool \in {m.options, m.results, m.enums} : \A h \in DOMAIN pool : pool[h].of \in LiveWords(m)
         /\ \A tag \in Handles : DOMAIN PoolOf(m, tag) \subseteq Nat \ {0}
<1>1. /\ m.options \in Seq(Boxes) /\ m.results \in Seq(Boxes) /\ m.enums \in Seq(Variants)
      /\ m.complexes \in Seq(Int \X Int) /\ m.tensors \in Seq(Seq(Nat))
  BY DEF Sound, IsMachine
<1>2. /\ \A h \in DOMAIN m.options : m.options[h].of \in Words
      /\ \A h \in DOMAIN m.results : m.results[h].of \in Words
      /\ \A h \in DOMAIN m.enums : m.enums[h].of \in Words
  <2>1. \A S : \A p \in Seq(S) : \A h \in DOMAIN p : p[h] \in S
    OBVIOUS
  <2>2. /\ \A h \in DOMAIN m.options : m.options[h] \in Boxes
        /\ \A h \in DOMAIN m.results : m.results[h] \in Boxes
        /\ \A h \in DOMAIN m.enums : m.enums[h] \in Variants
    BY <1>1, <2>1
  <2> QED
    BY <2>2 DEF Boxes, Variants
<1>3. \A pool \in {m.options, m.results, m.enums} : \A h \in DOMAIN pool : pool[h].of \in LiveWords(m)
  BY <1>2 DEF Sound, AllLive, LiveWords
<1>4. \A S : \A p \in Seq(S) : DOMAIN p \subseteq Nat \ {0}
  OBVIOUS
<1>5. \A tag \in Handles : DOMAIN PoolOf(m, tag) \subseteq Nat \ {0}
  BY <1>1, <1>4 DEF PoolOf
<1> QED
  BY <1>1, <1>3, <1>5

(* A machine with one more entry in one of its pools.                      *)
LEMMA SoundOption ==
  ASSUME NEW m, Sound(m), NEW is \in BOOLEAN, NEW of \in LiveWords(m), NEW q, NEW h,
         Extends(Boxes, m.options, q, h, Box(is, of))
  PROVE  LET n == [m EXCEPT !.options = q]
         IN Sound(n) /\ LiveWords(m) \subseteq LiveWords(n) /\ Word(h, "Option") \in LiveWords(n) /\ Grows(m, n)
<1> DEFINE n == [m EXCEPT !.options = q]
<1>1. Differs(m, n, {"options"}) /\ n.options = q
  BY FieldsAre, SoundFacts
<1> HIDE DEF n
<1>2. n.results = m.results /\ n.enums = m.enums /\ n.complexes = m.complexes /\ n.tensors = m.tensors /\ n.elements = m.elements
  BY <1>1 DEF Differs
<1>3. Differs(m, n, {"options", "results", "enums", "complexes", "tensors", "elements"})
  BY <1>1 DEF Differs
<1>4. /\ PoolOf(n, "Option") = q /\ PoolOf(m, "Option") = m.options
      /\ \A tag \in Handles \ {"Option"} : PoolOf(n, tag) = PoolOf(m, tag)
  BY <1>1, <1>2 DEF PoolOf
<1>5. q \in Seq(Boxes) /\ \A k \in DOMAIN q : k # 0
  BY DEF Extends
<1>6. Grows(m, n)
  BY <1>2, <1>4, <1>5, SoundPools DEF Extends, Grows
<1>7. \A k \in DOMAIN q : q[k].of \in LiveWords(m)
  BY SoundPools DEF Extends, Box
<1>8. Sound(n) /\ LiveWords(m) \subseteq LiveWords(n)
  BY <1>1, <1>2, <1>3, <1>5, <1>6, <1>7, SoundPools, SoundGrown, SoundFacts
<1>9. Word(h, "Option") \in LiveWords(n)
  BY <1>4, TagsAre DEF Extends, Word, Words, Live, LiveWords, Known, Handles
<1> QED
  BY <1>6, <1>8, <1>9 DEF n

LEMMA SoundResult ==
  ASSUME NEW m, Sound(m), NEW is \in BOOLEAN, NEW of \in LiveWords(m), NEW q, NEW h,
         Extends(Boxes, m.results, q, h, Box(is, of))
  PROVE  LET n == [m EXCEPT !.results = q]
         IN Sound(n) /\ LiveWords(m) \subseteq LiveWords(n) /\ Word(h, "Result") \in LiveWords(n) /\ Grows(m, n)
<1> DEFINE n == [m EXCEPT !.results = q]
<1>1. Differs(m, n, {"results"}) /\ n.results = q
  BY FieldsAre, SoundFacts
<1> HIDE DEF n
<1>2. n.options = m.options /\ n.enums = m.enums /\ n.complexes = m.complexes /\ n.tensors = m.tensors /\ n.elements = m.elements
  BY <1>1 DEF Differs
<1>3. Differs(m, n, {"options", "results", "enums", "complexes", "tensors", "elements"})
  BY <1>1 DEF Differs
<1>4. /\ PoolOf(n, "Result") = q /\ PoolOf(m, "Result") = m.results
      /\ \A tag \in Handles \ {"Result"} : PoolOf(n, tag) = PoolOf(m, tag)
  BY <1>1, <1>2 DEF PoolOf, Handles
<1>5. q \in Seq(Boxes) /\ \A k \in DOMAIN q : k # 0
  BY DEF Extends
<1>6. Grows(m, n)
  BY <1>2, <1>4, <1>5, SoundPools DEF Extends, Grows
<1>7. \A k \in DOMAIN q : q[k].of \in LiveWords(m)
  BY SoundPools DEF Extends, Box
<1>8. Sound(n) /\ LiveWords(m) \subseteq LiveWords(n)
  BY <1>1, <1>2, <1>3, <1>5, <1>6, <1>7, SoundPools, SoundGrown, SoundFacts
<1>9. Word(h, "Result") \in LiveWords(n)
  BY <1>4, TagsAre DEF Extends, Word, Words, Live, LiveWords, Known, Handles
<1> QED
  BY <1>6, <1>8, <1>9 DEF n

LEMMA SoundEnum ==
  ASSUME NEW m, Sound(m), NEW x \in Variants, x.of \in LiveWords(m), NEW q, NEW h,
         Extends(Variants, m.enums, q, h, x)
  PROVE  LET n == [m EXCEPT !.enums = q]
         IN Sound(n) /\ LiveWords(m) \subseteq LiveWords(n) /\ Word(h, "Enum") \in LiveWords(n) /\ Grows(m, n)
<1> DEFINE n == [m EXCEPT !.enums = q]
<1>1. Differs(m, n, {"enums"}) /\ n.enums = q
  BY FieldsAre, SoundFacts
<1> HIDE DEF n
<1>2. n.options = m.options /\ n.results = m.results /\ n.complexes = m.complexes /\ n.tensors = m.tensors /\ n.elements = m.elements
  BY <1>1 DEF Differs
<1>3. Differs(m, n, {"options", "results", "enums", "complexes", "tensors", "elements"})
  BY <1>1 DEF Differs
<1>4. /\ PoolOf(n, "Enum") = q /\ PoolOf(m, "Enum") = m.enums
      /\ \A tag \in Handles \ {"Enum"} : PoolOf(n, tag) = PoolOf(m, tag)
  BY <1>1, <1>2 DEF PoolOf, Handles
<1>5. q \in Seq(Variants) /\ \A k \in DOMAIN q : k # 0
  BY DEF Extends
<1>6. Grows(m, n)
  BY <1>2, <1>4, <1>5, SoundPools DEF Extends, Grows
<1>7. \A k \in DOMAIN q : q[k].of \in LiveWords(m)
  BY SoundPools DEF Extends
<1>8. Sound(n) /\ LiveWords(m) \subseteq LiveWords(n)
  BY <1>1, <1>2, <1>3, <1>5, <1>6, <1>7, SoundPools, SoundGrown, SoundFacts
<1>9. Word(h, "Enum") \in LiveWords(n)
  BY <1>4, TagsAre DEF Extends, Word, Words, Live, LiveWords, Known, Handles
<1> QED
  BY <1>6, <1>8, <1>9 DEF n

LEMMA SoundComplex ==
  ASSUME NEW m, Sound(m), NEW x \in Int \X Int, NEW q, NEW h, Extends(Int \X Int, m.complexes, q, h, x)
  PROVE  LET n == [m EXCEPT !.complexes = q]
         IN Sound(n) /\ LiveWords(m) \subseteq LiveWords(n) /\ Word(h, "Complex") \in LiveWords(n) /\ Grows(m, n)
<1> DEFINE n == [m EXCEPT !.complexes = q]
<1>1. Differs(m, n, {"complexes"}) /\ n.complexes = q
  BY FieldsAre, SoundFacts
<1> HIDE DEF n
<1>2. n.options = m.options /\ n.results = m.results /\ n.enums = m.enums /\ n.tensors = m.tensors /\ n.elements = m.elements
  BY <1>1 DEF Differs
<1>3. Differs(m, n, {"options", "results", "enums", "complexes", "tensors", "elements"})
  BY <1>1 DEF Differs
<1>4. /\ PoolOf(n, "Complex") = q /\ PoolOf(m, "Complex") = m.complexes
      /\ \A tag \in Handles \ {"Complex"} : PoolOf(n, tag) = PoolOf(m, tag)
  BY <1>1, <1>2 DEF PoolOf, Handles
<1>5. q \in Seq(Int \X Int) /\ \A k \in DOMAIN q : k # 0
  BY DEF Extends
<1>6. Grows(m, n)
  BY <1>2, <1>4, <1>5, SoundPools DEF Extends, Grows
<1>8. Sound(n) /\ LiveWords(m) \subseteq LiveWords(n)
  BY <1>1, <1>2, <1>3, <1>5, <1>6, SoundPools, SoundGrown, SoundFacts
<1>9. Word(h, "Complex") \in LiveWords(n)
  BY <1>4, TagsAre DEF Extends, Word, Words, Live, LiveWords, Known, Handles
<1> QED
  BY <1>6, <1>8, <1>9 DEF n

(****************************** tensors ************************************)
LEMMA ElementsAre ==
  ASSUME NEW shape \in Seq(Nat)
  PROVE  Elements(shape) \in Nat
<1> DEFINE N == Len(shape)
           step == [q \in (1..N) \X Nat |-> q[2] * shape[q[1]]]
           Body(g) == [k \in 0..N |-> IF k = 0 THEN 1 ELSE g[k - 1] * shape[k]]
           products == CHOOSE g : g = Body(g)
<1>0. N \in Nat /\ \A k \in 1..N : shape[k] \in Nat
  OBVIOUS
<1>1. Elements(shape) = products[N]
  BY DEF Elements
<1>2. StepsIn(step, N, Nat) /\ 1 \in Nat
  BY <1>0 DEF StepsIn
<1> HIDE DEF step, Body, products, N
<1>3. PICK g : IsRun(g, 1, step, N, Nat)
  BY <1>0, <1>2, Iterates
<1>4. ASSUME NEW k \in 1..N
      PROVE  g[k] = g[k - 1] * shape[k]
  <2>1. k - 1 \in 0..N /\ g[k - 1] \in Nat
    BY <1>0, <1>3 DEF IsRun
  <2> QED
    BY <1>3, <2>1 DEF step, IsRun
<1>5. g = Body(g)
  BY <1>3, <1>4 DEF Body, IsRun
<1>6. products = Body(products)
  BY <1>5 DEF products
<1> DEFINE T == {k \in 0..N : products[k] \in Nat}
<1>7. 0 \in T
  BY <1>0, <1>6 DEF Body
<1>8. ASSUME NEW k \in 0..(N - 1), k \in T
      PROVE  k + 1 \in T
  <2>1. k + 1 \in 1..N /\ k + 1 # 0 /\ (k + 1) - 1 = k
    BY <1>0
  <2>2. products[k + 1] = products[k] * shape[k + 1]
    <3>1. k + 1 \in 0..N /\ products = [x \in 0..N |-> IF x = 0 THEN 1 ELSE products[x - 1] * shape[x]]
      BY <1>0, <1>6, <2>1 DEF Body
    <3> QED
      BY <2>1, <3>1
  <2>3. products[k] \in Nat /\ shape[k + 1] \in Nat
    BY <1>0, <1>8, <2>1
  <2>4. products[k] * shape[k + 1] \in Nat
    BY <2>3
  <2> QED
    BY <2>1, <2>2, <2>4
<1> HIDE DEF T
<1>9. 0..N \subseteq T
  BY <1>0, <1>7, <1>8, UpTo
<1> QED
  BY <1>0, <1>1, <1>9 DEF T

(* A machine with one more tensor.                                         *)
LEMMA SoundTensor ==
  ASSUME NEW m, Sound(m), NEW shape \in Seq(Nat), NEW n, Differs(m, n, {"tensors", "elements"}),
         n.tensors = Append(m.tensors, shape), n.elements \in Int
  PROVE  /\ Sound(n) /\ LiveWords(m) \subseteq LiveWords(n) /\ Grows(m, n)
         /\ Word(Len(m.tensors) + 1, "Tensor") \in LiveWords(n)
<1>1. n.options = m.options /\ n.results = m.results /\ n.enums = m.enums /\ n.complexes = m.complexes
  BY DEF Differs
<1>2. Differs(m, n, {"options", "results", "enums", "complexes", "tensors", "elements"})
  BY DEF Differs
<1>3. \A tag \in Handles : PoolOf(n, tag) = PoolOf(m, tag)
  BY <1>1 DEF PoolOf
<1>4. m.tensors \in Seq(Seq(Nat)) /\ n.tensors \in Seq(Seq(Nat)) /\ DOMAIN m.tensors \subseteq DOMAIN n.tensors
      /\ Len(m.tensors) + 1 \in DOMAIN n.tensors /\ Len(m.tensors) + 1 \in Int
  BY SoundPools
<1>5. Grows(m, n)
  BY <1>3, <1>4, SoundPools DEF Grows
<1>6. Sound(n) /\ LiveWords(m) \subseteq LiveWords(n)
  BY <1>1, <1>2, <1>4, <1>5, SoundPools, SoundGrown
<1>7. Word(Len(m.tensors) + 1, "Tensor") \in LiveWords(n)
  BY <1>4, TagsAre DEF Word, Words, LiveWords, Live, Handles
<1> QED
  BY <1>5, <1>6, <1>7

(* What is allocated, when there is room.                                  *)
Room(m, shape) == Len(m.tensors) < MaxTensors /\ m.elements + Elements(shape) <= MaxElements
WithTensor(m, shape, elements) == [[m EXCEPT !.tensors = Append(@, shape)] EXCEPT !.elements = elements]

LEMMA WithTensorIs ==
  ASSUME NEW m, HasFields(m), NEW shape, NEW e
  PROVE  LET n == WithTensor(m, shape, e)
         IN Differs(m, n, {"tensors", "elements"}) /\ n.tensors = Append(m.tensors, shape) /\ n.elements = e
<1>1. ASSUME NEW p, HasFields(p), NEW x
      PROVE  /\ Differs(p, [p EXCEPT !.tensors = x], {"tensors"}) /\ [p EXCEPT !.tensors = x].tensors = x
             /\ Differs(p, [p EXCEPT !.elements = x], {"elements"}) /\ [p EXCEPT !.elements = x].elements = x
  BY <1>1 DEF HasFields, Differs
<1> DEFINE longer == Append(m.tensors, shape)
           g == [m EXCEPT !.tensors = longer]
           n == [g EXCEPT !.elements = e]
<1> HIDE DEF longer
<1>2. Differs(m, g, {"tensors"}) /\ g.tensors = longer /\ HasFields(g)
  <2>1. Differs(m, g, {"tensors"}) /\ g.tensors = longer
    BY <1>1
  <2> QED
    BY <2>1 DEF Differs
<1> HIDE DEF g
<1>3. Differs(g, n, {"elements"}) /\ n.elements = e
  BY <1>1, <1>2
<1> HIDE DEF n
<1>4. Differs(m, n, {"tensors", "elements"}) /\ n.tensors = longer /\ n.elements = e
  BY <1>2, <1>3 DEF Differs
<1> QED
  BY <1>4 DEF WithTensor, n, g, longer

LEMMA AllocIs ==
  ASSUME NEW m, HasFields(m), NEW r, NEW shape
  PROVE  /\ [m EXCEPT !.tensors = Append(@, shape), !.elements = @ + Elements(shape),
                      !.reg[r] = Word(Len(m.tensors) + 1, "Tensor")]
             = Put(WithTensor(m, shape, m.elements + Elements(shape)), r, Word(Len(m.tensors) + 1, "Tensor"))
         /\ [m EXCEPT !.tensors = Append(@, shape), !.reg[r] = Word(Len(m.tensors) + 1, "Tensor")]
             = Put(WithTensor(m, shape, m.elements), r, Word(Len(m.tensors) + 1, "Tensor"))
BY DEF HasFields, WithTensor, Put
LEMMA BareAllocIs ==
  ASSUME NEW m, HasFields(m), NEW r, NEW shape
  PROVE  [m EXCEPT !.tensors = Append(@, shape), !.reg[r] = Word(Len(m.tensors) + 1, "Tensor")]
           = Put(WithTensor(m, shape, m.elements), r, Word(Len(m.tensors) + 1, "Tensor"))
BY DEF HasFields, WithTensor, Put

LEMMA TensorShapes ==
  ASSUME NEW m, Sound(m), NEW h \in DOMAIN m.tensors
  PROVE  m.tensors[h] \in Seq(Nat)
<1>1. m.tensors \in Seq(Seq(Nat))
  BY SoundPools
<1> QED
  BY <1>1

LEMMA SoundWithTensor ==
  ASSUME NEW m, Sound(m), NEW r \in Registers, NEW shape \in Seq(Nat), NEW e \in Int
  PROVE  LET n == Put(WithTensor(m, shape, e), r, Word(Len(m.tensors) + 1, "Tensor"))
         IN Sound(n) /\ LiveWords(m) \subseteq LiveWords(n) /\ n.tensors = Append(m.tensors, shape)
<1> DEFINE g == WithTensor(m, shape, e)
           w == Word(Len(m.tensors) + 1, "Tensor")
<1>1. Differs(m, g, {"tensors", "elements"}) /\ g.tensors = Append(m.tensors, shape) /\ g.elements = e
  BY WithTensorIs, SoundFacts
<1> HIDE DEF g
<1>2. Sound(g) /\ LiveWords(m) \subseteq LiveWords(g) /\ w \in LiveWords(g)
  BY <1>1, SoundTensor
<1> HIDE DEF w
<1>3. Sound(Put(g, r, w)) /\ LiveWords(Put(g, r, w)) = LiveWords(g)
  BY <1>2, SoundPut
<1>4. Put(g, r, w).tensors = g.tensors
  <2>1. Differs(g, Put(g, r, w), {"reg"})
    BY <1>2, PutIs, SoundFacts
  <2> QED
    BY <2>1 DEF Differs
<1> QED
  BY <1>1, <1>2, <1>3, <1>4 DEF g, w

LEMMA SoundAlloc ==
  ASSUME NEW m, Sound(m), NEW r \in Registers, NEW shape \in Seq(Nat)
  PROVE  Sound(AllocTensor(m, r, shape)) /\ LiveWords(m) \subseteq LiveWords(AllocTensor(m, r, shape))
<1>1. CASE Len(m.tensors) >= MaxTensors \/ m.elements + Elements(shape) > MaxElements
  BY <1>1, SoundTrap DEF AllocTensor
<1>2. CASE ~(Len(m.tensors) >= MaxTensors \/ m.elements + Elements(shape) > MaxElements)
  <2>1. m.elements + Elements(shape) \in Int
    BY ElementsAre, SoundFacts
  <2>2. AllocTensor(m, r, shape)
          = Put(WithTensor(m, shape, m.elements + Elements(shape)), r, Word(Len(m.tensors) + 1, "Tensor"))
    BY <1>2, AllocIs, SoundFacts DEF AllocTensor
  <2> QED
    BY <2>1, <2>2, SoundWithTensor
<1> QED
  BY <1>1, <1>2

LEMMA ShapesAre ==
  ASSUME NEW s \in Seq(Nat), NEW t \in Seq(Nat), NEW op
  PROVE  /\ Fits(op, s, t) => ShapeOf(op, s, t) \in Seq(Nat)
         /\ Reverse(s) \in Seq(Nat)
<1>1. Fits(op, s, t) => ShapeOf(op, s, t) \in Seq(Nat)
  BY DEF Fits, ShapeOf
<1>2. Reverse(s) \in Seq(Nat)
  BY DEF Reverse
<1> QED
  BY <1>1, <1>2

LEMMA SoundPromote ==
  ASSUME NEW m, Sound(m), NEW r \in Registers
  PROVE  Sound(promote_to_tensor(m, r))
<1>1. <<2>> \in Seq(Nat)
  OBVIOUS
<1> QED
  BY <1>1, SoundAlloc DEF promote_to_tensor

LEMMA SoundTensorOp ==
  ASSUME NEW m, Sound(m), NEW i, {i.a, i.b, i.c} \subseteq Registers
  PROVE  Sound(TensorOp(m, i))
<1> DEFINE first == promote_to_tensor(m, i.b)
           both == IF first.trap = "None" THEN promote_to_tensor(first, i.c) ELSE first
           s == both.tensors[both.reg[i.b].n]
           t == both.tensors[both.reg[i.c].n]
<1>1. Sound(both)
  BY SoundPromote
<1>2. \/ TensorOp(m, i) = both
      \/ \E x : TensorOp(m, i) = Trapped(both, x)
      \/ /\ {both.reg[i.b].n, both.reg[i.c].n} \subseteq DOMAIN both.tensors /\ Fits(i.op, s, t)
         /\ TensorOp(m, i) = AllocTensor(both, i.a, ShapeOf(i.op, s, t))
  BY DEF TensorOp
<1> HIDE DEF first, both
<1>3. \A k \in DOMAIN both.tensors : both.tensors[k] \in Seq(Nat)
  BY <1>1, SoundPools
<1> QED
  BY <1>1, <1>2, <1>3, ShapesAre, SoundAlloc, SoundTrap

LEMMA SoundUnaryTensorOp ==
  ASSUME NEW m, Sound(m), NEW i, {i.a, i.b} \subseteq Registers
  PROVE  Sound(UnaryTensorOp(m, i))
<1> DEFINE first == promote_to_tensor(m, i.b)
           s == first.tensors[first.reg[i.b].n]
<1>1. Sound(first)
  BY SoundPromote
<1>2. \/ UnaryTensorOp(m, i) = first
      \/ \E x : UnaryTensorOp(m, i) = Trapped(first, x)
      \/ /\ first.reg[i.b].n \in DOMAIN first.tensors
         /\ UnaryTensorOp(m, i) = AllocTensor(first, i.a, s) \/ UnaryTensorOp(m, i) = AllocTensor(first, i.a, Reverse(s))
  BY DEF UnaryTensorOp
<1> HIDE DEF first
<1>3. \A k \in DOMAIN first.tensors : first.tensors[k] \in Seq(Nat)
  BY <1>1, SoundPools
<1> QED
  BY <1>1, <1>2, <1>3, ShapesAre, SoundAlloc, SoundTrap

(*************************** the handlers **********************************)
LEMMA NamedAre ==
  ASSUME NEW m, Sound(m), NEW i, reg_ok(m, i)
  PROVE  /\ i.op \in {"Inc", "Dec", "SetF", "LoadImm", "Load", "Push", "Pop", "Assert", "AxRead", "AxVerify", "Print",
                      "MetaReflect", "MakeOptionNone", "MakeEnumVariant"} => i.a \in Registers
         /\ i.op \in {"Store", "JumpIfZero", "JumpIfNotZero"} => i.b \in Registers
         /\ i.op \in {"MetaRead", "MetaWrite"} => {i.a, i.c} \subseteq Registers
         /\ i.op \in {"Cmp", "Mov", "TNorm", "MemZero", "AxCheck", "MakeOptionSome", "MakeResultOk", "MakeResultErr",
                      "MakeEnumVariantPayload", "TNot", "BitNot", "Neg"} \cup UnaryTensorOps \cup DOMAIN Opened
              => {i.a, i.b} \subseteq Registers
         /\ i.op \in {"Div", "Mod", "Copy", "MetaRefine", "MakeComplex"} \cup Comparisons \cup TensorOps
                     \cup (Calculations \ {"Inc", "Dec", "TNot", "BitNot", "Neg"}) => {i.a, i.b, i.c} \subseteq Registers
<1>1. RegistersOf(i) \subseteq Registers
  BY SoundFacts DEF reg_ok
<1> USE DEF RegistersOf, NamesNone, NamesA, NamesB, NamesAC, NamesABC, Comparisons, TensorOps
<1>2. i.op \in {"Inc", "Dec", "SetF", "LoadImm", "Load", "Push", "Pop", "Assert", "AxRead", "AxVerify", "Print",
                "MetaReflect", "MakeOptionNone", "MakeEnumVariant"} => RegistersOf(i) = {i.a}
  OBVIOUS
<1>3. i.op \in {"Store", "JumpIfZero", "JumpIfNotZero"} => RegistersOf(i) = {i.b}
  OBVIOUS
<1>4. i.op \in {"MetaRead", "MetaWrite"} => RegistersOf(i) = {i.a, i.c}
  OBVIOUS
<1>5. i.op \in {"Cmp", "Mov", "TNorm", "MemZero", "AxCheck", "MakeOptionSome", "MakeResultOk", "MakeResultErr",
                "MakeEnumVariantPayload", "TNot", "BitNot", "Neg"} \cup UnaryTensorOps \cup DOMAIN Opened
        => {i.a, i.b} \subseteq RegistersOf(i)
  BY DEF UnaryTensorOps, Opened
<1>6. i.op \in {"Div", "Mod", "Copy", "MetaRefine", "MakeComplex"} \cup Comparisons \cup TensorOps
               \cup (Calculations \ {"Inc", "Dec", "TNot", "BitNot", "Neg"}) => RegistersOf(i) = {i.a, i.b, i.c}
  BY DEF Calculations, Trits, BitOps, Sums
<1> QED
  BY <1>1, <1>2, <1>3, <1>4, <1>5, <1>6

LEMMA SoundRead ==
  ASSUME NEW m, Sound(m), NEW r \in Registers
  PROVE  m.reg[r] \in LiveWords(m) /\ m.reg[r] \in Words /\ m.reg[r].n \in Int /\ Live(m, m.reg[r])
BY SoundFacts DEF LiveWords, Words

LEMMA SoundPutInt ==
  ASSUME NEW m, Sound(m), NEW r \in Registers, NEW x \in Int
  PROVE  Sound(PutInt(m, r, x))
BY SoundPut, SoundFlags, IntIs DEF PutInt

LEMMA SoundSetReg ==
  ASSUME NEW m, Sound(m), NEW r \in Registers, NEW w \in LiveWords(m), NEW x
  PROVE  Sound(set_reg(m, r, w)) /\ Sound(update_flags(set_reg(m, r, w), x)) /\ Sound(SetAndFlag(m, r, w))
<1>1. Sound(set_reg(m, r, w))
  BY SoundPut DEF set_reg
<1> QED
  BY <1>1, SoundFlags DEF SetAndFlag

LEMMA SoundCalculate ==
  ASSUME NEW m, Sound(m), NEW i, reg_ok(m, i), i.op \in Calculations
  PROVE  Sound(Calculate(m, i))
<1>1. CASE i.op \in {"Inc", "Dec"}
  <2>1. i.a \in Registers /\ m.reg[i.a].n \in Int
    BY <1>1, NamedAre, SoundRead
  <2>2. Wrap(m.reg[i.a].n + 1) \in Int /\ Wrap(m.reg[i.a].n - 1) \in Int
    BY <2>1, WrapIs
  <2> QED
    BY <1>1, <2>1, <2>2, SoundPutInt DEF Calculate
<1>2. CASE i.op \notin {"Inc", "Dec"}
  <2>1. {i.a, i.b} \subseteq Registers /\ m.reg[i.b].n \in Int
        /\ (i.op \notin {"TNot", "BitNot", "Neg"} => m.reg[i.c].n \in Int)
    BY <1>2, NamedAre, SoundRead
  <2>2. Calculated(i.op, m.reg[i.b].n, m.reg[i.c].n) \in Int
    BY <1>2, <2>1, CalculatedIs
  <2> QED
    BY <1>2, <2>1, <2>2, SoundPutInt DEF Calculate
<1> QED
  BY <1>1, <1>2

LEMMA QuotientIs ==
  ASSUME NEW x \in Int, NEW y \in Int, y # 0
  PROVE  Quotient(x, y) \in Int /\ Remainder(x, y) \in Int
<1>1. SignOf(x) \in Int /\ SignOf(y) \in Int
  BY SignIs
<1>2. Magnitude(x) \div Magnitude(y) \in Int
  BY DEF Magnitude
<1>3. SignOf(x) * SignOf(y) \in Int
  BY <1>1
<1>4. Quotient(x, y) \in Int
  BY <1>2, <1>3 DEF Quotient
<1>5. y * Quotient(x, y) \in Int
  BY <1>4
<1> QED
  BY <1>4, <1>5 DEF Remainder

LEMMA SoundDivide ==
  ASSUME NEW m, Sound(m), NEW i, {i.a, i.b, i.c} \subseteq Registers
  PROVE  Sound(Divide(m, i))
<1>1. m.reg[i.b].n \in Int /\ m.reg[i.c].n \in Int
  BY SoundRead
<1>2. m.reg[i.c].n # 0 => Quotient(m.reg[i.b].n, m.reg[i.c].n) \in Int /\ Remainder(m.reg[i.b].n, m.reg[i.c].n) \in Int
  BY <1>1, QuotientIs
<1> QED
  BY <1>2, SoundTrap, SoundPutInt DEF Divide

LEMMA TruthIs == \A p : Truth(p) \in {0, 1}
BY DEF Truth

LEMMA SoundCompare ==
  ASSUME NEW m, Sound(m), NEW i, reg_ok(m, i), i.op \in Comparisons \cup {"Cmp"}
  PROVE  Sound(Compare(m, i))
<1>1. CASE i.op = "Cmp"
  BY <1>1, SoundTrap, SoundFlags DEF Compare, Ordered
<1>2. CASE i.op # "Cmp"
  <2>1. i.a \in Registers
    BY <1>2, NamedAre
  <2>2. \A p : Truth(p) \in Int
    BY TruthIs
  <2> QED
    BY <1>2, <2>1, <2>2, SoundTrap, SoundPutInt DEF Compare, Ordered
<1> QED
  BY <1>1, <1>2

LEMMA SoundMoves ==
  ASSUME NEW m, Sound(m), NEW i, i.a \in Registers
  PROVE  /\ Sound(SetFlag(m, i))
         /\ Literal(i) \in LiveWords(m) => Sound(LoadImm(m, i))
         /\ i.b \in Registers => Sound(Mov(m, i))
         /\ Sound(Load(m, i))
<1>1. Sound(SetFlag(m, i))
  <2> DEFINE x == IF m.flag = -1 THEN -1 ELSE IF m.flag # 0 THEN 1 ELSE 0
  <2>1. Word(x, "Int") \in LiveWords(m)
    BY IntIs
  <2> QED
    BY <2>1, SoundSetReg DEF SetFlag
<1>2. Literal(i) \in LiveWords(m) => Sound(LoadImm(m, i))
  BY SoundSetReg DEF LoadImm
<1>3. i.b \in Registers => Sound(Mov(m, i))
  BY SoundSetReg, SoundRead DEF Mov
<1>4. Sound(Load(m, i))
  <2>1. mem_ok(i.b) => m.mem[i.b] \in LiveWords(m)
    BY SoundFacts, LayoutIs DEF mem_ok
  <2> QED
    BY <2>1, SoundPut, SoundFlags, SoundTrap DEF Load
<1> QED
  BY <1>1, <1>2, <1>3, <1>4

(* Single words of memory.                                                 *)
LEMMA StoreIs ==
  ASSUME NEW m, NEW a, NEW w
  PROVE  [m EXCEPT !.mem[a] = w] = [m EXCEPT !.mem = [m.mem EXCEPT ![a] = w]]
OBVIOUS

LEMMA SoundStoreAt ==
  ASSUME NEW m, Sound(m), NEW a \in Addresses, NEW w \in LiveWords(m)
  PROVE  Sound([m EXCEPT !.mem[a] = w])
<1>1. [m.mem EXCEPT ![a] = w] \in [Addresses -> LiveWords(m)]
  BY SoundFacts
<1> QED
  BY <1>1, SoundMem, StoreIs

LEMMA SoundStore ==
  ASSUME NEW m, Sound(m), NEW i, i.b \in Registers
  PROVE  Sound(Store(m, i))
<1>1. mem_ok(i.a) => i.a \in Addresses
  BY LayoutIs DEF mem_ok
<1> QED
  BY <1>1, SoundStoreAt, SoundRead, SoundTrap DEF Store

(* The stack moves by a word.                                              *)
Pushed(m, r) == [m EXCEPT !.sp = @ - 1, !.mem[m.sp - 1] = m.reg[r]]
Popped(m, r) == [Put(m, r, m.mem[m.sp]) EXCEPT !.sp = @ + 1]

LEMMA PushedIs ==
  ASSUME NEW m, HasFields(m), NEW r
  PROVE  Pushed(m, r) = [[m EXCEPT !.sp = m.sp - 1] EXCEPT !.mem[m.sp - 1] = m.reg[r]]
BY DEF HasFields, Pushed

LEMMA SoundPush ==
  ASSUME NEW m, Sound(m), NEW r \in Registers, m.sp > StackLimit
  PROVE  Sound(Pushed(m, r))
<1>1. m.sp - 1 \in StackLimit..StackBase /\ m.sp - 1 \in Addresses
  BY SoundFacts, LayoutIs DEF Addresses
<1> DEFINE n == [m EXCEPT !.sp = m.sp - 1]
<1>2. Sound(n) /\ LiveWords(n) = LiveWords(m)
  BY <1>1, SoundFields
<1>3. m.reg[r] \in LiveWords(n)
  BY <1>2, SoundRead
<1> HIDE DEF n
<1>4. Sound([n EXCEPT !.mem[m.sp - 1] = m.reg[r]])
  BY <1>1, <1>2, <1>3, SoundStoreAt
<1> QED
  BY <1>4, PushedIs, SoundFacts DEF n

LEMMA SoundPop ==
  ASSUME NEW m, Sound(m), NEW r \in Registers, m.sp < StackBase
  PROVE  Sound(Popped(m, r))
<1>1. m.sp + 1 \in StackLimit..StackBase /\ m.sp \in Addresses
  BY SoundFacts, LayoutIs DEF Addresses
<1>2. m.mem[m.sp] \in LiveWords(m)
  BY <1>1, SoundFacts
<1> DEFINE n == Put(m, r, m.mem[m.sp])
<1>3. Sound(n)
  BY <1>2, SoundPut
<1>4. n.sp = m.sp
  <2>1. Differs(m, n, {"reg"})
    BY PutIs, SoundFacts
  <2> QED
    BY <2>1 DEF Differs
<1> HIDE DEF n
<1>5. Sound([n EXCEPT !.sp = n.sp + 1])
  BY <1>1, <1>3, <1>4, SoundFields
<1> QED
  BY <1>5 DEF Popped, n

LEMMA SoundStack ==
  ASSUME NEW m, Sound(m), NEW i, i.a \in Registers
  PROVE  Sound(Push(m, i)) /\ Sound(Pop(m, i))
<1>0. m.sp \in Int /\ StackLimit \in Int /\ StackBase \in Int
  BY SoundFacts, LayoutIs
<1>1. Push(m, i) = Trapped(m, "StackFault") \/ (m.sp > StackLimit /\ Push(m, i) = Pushed(m, i.a))
  BY <1>0 DEF Push, Pushed
<1>2. Pop(m, i) = Trapped(m, "StackFault") \/ (m.sp < StackBase /\ Pop(m, i) = update_flags(Popped(m, i.a), m.mem[m.sp].n))
  BY <1>0 DEF Pop, Popped
<1> QED
  BY <1>1, <1>2, SoundPush, SoundPop, SoundTrap, SoundFlags

LEMMA SoundJump ==
  ASSUME NEW m, Sound(m), NEW i
  PROVE  Sound(Jump(m, i))
BY SoundTrap, SoundFields DEF Jump

LEMMA SoundMemZero ==
  ASSUME NEW m, Sound(m), NEW i
  PROVE  Sound(MemZero(m, i))
<1> DEFINE wanted == AddressesFrom(m, i.a, m.reg[i.b].n)
           reached == {w \in wanted : \A v \in wanted : v <= w => mem_ok(v)}
           f == [w \in DOMAIN m.mem |-> IF w \in reached THEN Word(0, "Int") ELSE m.mem[w]]
<1>1. f \in [Addresses -> LiveWords(m)]
  <2> HIDE DEF reached
  <2> QED
    BY IntIs, SoundFacts
<1>2. MemZero(m, i) = [m EXCEPT !.mem = f] \/ MemZero(m, i) = Trapped([m EXCEPT !.mem = f], "BoundsFault")
  BY DEF MemZero
<1> HIDE DEF f
<1> QED
  BY <1>1, <1>2, SoundMem, SoundTrap

LEMMA CopyIs ==
  ASSUME NEW m, Sound(m), NEW to \in Int, NEW from \in Int, NEW size \in Int,
         to..(to + size - 1) \cup from..(from + size - 1) \subseteq Segments
  PROVE  /\ CopyWords(m.mem, to, from, size) \in [Addresses -> LiveWords(m)]
         /\ \A w \in to..(to + size - 1) :
              (from + (IF to > from THEN (w - to) % (to - from) ELSE w - to)) \in from..(from + size - 1)
<1>1. ASSUME NEW w \in to..(to + size - 1)
      PROVE  from + (IF to > from THEN (w - to) % (to - from) ELSE w - to) \in from..(from + size - 1)
  <2>1. CASE to > from
    <3>1. to - from \in Nat \ {0} /\ w - to \in Nat /\ w - to < size
      BY <2>1
    <3>2. (w - to) % (to - from) \in Nat /\ (w - to) % (to - from) <= w - to
      BY <3>1
    <3> QED
      BY <2>1, <3>1, <3>2
  <2>2. CASE ~(to > from)
    BY <2>2
  <2> QED
    BY <2>1, <2>2
<1>2. from..(from + size - 1) \subseteq Addresses
  BY LayoutIs
<1>3. CopyWords(m.mem, to, from, size) \in [Addresses -> LiveWords(m)]
  BY <1>1, <1>2, SoundFacts DEF CopyWords
<1> QED
  BY <1>1, <1>3

LEMMA SoundCopy ==
  ASSUME NEW m, Sound(m), NEW i, {i.a, i.b, i.c} \subseteq Registers
  PROVE  Sound(Copy(m, i))
<1>1. m.reg[i.a].n \in Int /\ m.reg[i.b].n \in Int /\ m.reg[i.c].n \in Int
  BY SoundRead
<1>2. CASE AddressesFrom(m, i.a, m.reg[i.c].n) \cup AddressesFrom(m, i.b, m.reg[i.c].n) \subseteq Segments
  <2>1. CopyWords(m.mem, m.reg[i.a].n, m.reg[i.b].n, m.reg[i.c].n) \in [Addresses -> LiveWords(m)]
    BY <1>1, <1>2, CopyIs DEF AddressesFrom
  <2> QED
    BY <1>2, <2>1, SoundMem DEF Copy
<1>3. CASE ~(AddressesFrom(m, i.a, m.reg[i.c].n) \cup AddressesFrom(m, i.b, m.reg[i.c].n) \subseteq Segments)
  BY <1>3, SoundTrap DEF Copy
<1> QED
  BY <1>2, <1>3

LEMMA SoundPutHandle ==
  ASSUME NEW m, Sound(m), NEW i, i.a \in Registers, NEW h, NEW tag, Word(h, tag) \in LiveWords(m)
  PROVE  Sound(PutHandle(m, i, h, tag))
BY SoundPut, SoundFlags DEF PutHandle

LEMMA SoundInterned ==
  ASSUME NEW m, Sound(m), NEW i, i.a \in Registers
  PROVE  /\ \A is \in BOOLEAN, of \in LiveWords(m) :
              Sound(InternOption(m, i, Box(is, of))) /\ Sound(InternResult(m, i, Box(is, of)))
         /\ \A x \in Variants : x.of \in LiveWords(m) => Sound(InternEnum(m, i, x))
         /\ \A x \in Int \X Int : Sound(InternComplex(m, i, x))
<1>1. ASSUME NEW is \in BOOLEAN, NEW of \in LiveWords(m)
      PROVE  Sound(InternOption(m, i, Box(is, of))) /\ Sound(InternResult(m, i, Box(is, of)))
  <2>1. Box(is, of) \in Boxes
    BY DEF Box, Boxes, LiveWords
  <2>2. /\ Extends(Boxes, m.options, Interned(m.options, Box(is, of)),
                   HandleOf(Interned(m.options, Box(is, of)), Box(is, of)), Box(is, of))
        /\ Extends(Boxes, m.results, Interned(m.results, Box(is, of)),
                   HandleOf(Interned(m.results, Box(is, of)), Box(is, of)), Box(is, of))
    BY <2>1, InternedIs, SoundPools
  <2> QED
    BY <2>2, SoundOption, SoundResult, SoundPutHandle DEF InternOption, InternResult
<1>2. ASSUME NEW x \in Variants, x.of \in LiveWords(m)
      PROVE  Sound(InternEnum(m, i, x))
  <2>1. Word(0, "Enum") \in LiveWords(m)
    BY TagsAre DEF Word, Words, LiveWords, Live
  <2>2. Extends(Variants, m.enums, Interned(m.enums, x), HandleOf(Interned(m.enums, x), x), x)
    BY InternedIs, SoundPools
  <2> QED
    BY <1>2, <2>1, <2>2, SoundEnum, SoundPutHandle DEF InternEnum
<1>3. ASSUME NEW x \in Int \X Int
      PROVE  Sound(InternComplex(m, i, x))
  <2>1. Extends(Int \X Int, m.complexes, Interned(m.complexes, x), HandleOf(Interned(m.complexes, x), x), x)
    BY InternedIs, SoundPools
  <2> QED
    BY <2>1, SoundComplex, SoundPutHandle DEF InternComplex
<1> QED
  BY <1>1, <1>2, <1>3

LEMMA SoundMake ==
  ASSUME NEW m, Sound(m), NEW i, reg_ok(m, i), i.op \in Makes, {i.a, i.b, i.c} \subseteq Int
  PROVE  Sound(Make(m, i))
<1>0. i.b \in Int /\ i.c \in Int /\ TRUE \in BOOLEAN /\ FALSE \in BOOLEAN
  OBVIOUS
<1>1. i.a \in Registers
  BY NamedAre DEF Makes
<1>2. i.op \in {"MakeOptionSome", "MakeResultOk", "MakeResultErr", "MakeEnumVariantPayload", "MakeComplex"}
        => m.reg[i.b] \in LiveWords(m) /\ m.reg[i.b] \in Words /\ m.reg[i.b].n \in Int
  BY NamedAre, SoundRead
<1>3. i.op = "MakeComplex" => m.reg[i.c].n \in Int
  BY NamedAre, SoundRead
<1>4. Nothing \in LiveWords(m) /\ Nothing \in Words
  BY IntIs DEF Nothing, LiveWords
<1>5. EnumOf(i.b) \in Int /\ EnumOf(i.c) \in Int
  BY <1>0 DEF EnumOf
<1>6. CASE i.op \in {"MakeOptionSome", "MakeOptionNone", "MakeResultOk", "MakeResultErr"}
  BY <1>1, <1>2, <1>4, <1>6, SoundInterned DEF Make
<1>7. CASE i.op = "MakeEnumVariant"
  <2>1. Variant(i.b, EnumOf(i.b), FALSE, Nothing) \in Variants /\ Variant(i.b, EnumOf(i.b), FALSE, Nothing).of = Nothing
    BY <1>0, <1>4, <1>5 DEF Variant, Variants
  <2> QED
    BY <1>1, <1>4, <1>7, <2>1, SoundInterned DEF Make
<1>8. CASE i.op = "MakeEnumVariantPayload"
  <2>1. Variant(i.c, EnumOf(i.c), TRUE, m.reg[i.b]) \in Variants
        /\ Variant(i.c, EnumOf(i.c), TRUE, m.reg[i.b]).of = m.reg[i.b]
    BY <1>0, <1>2, <1>5, <1>8 DEF Variant, Variants
  <2>2. Sound(InternEnum(m, i, Variant(i.c, EnumOf(i.c), TRUE, m.reg[i.b])))
    BY <1>1, <1>2, <1>8, <2>1, SoundInterned
  <2> QED
    BY <1>8, <2>2, SoundTrap DEF Make
<1>9. CASE i.op = "MakeComplex"
  <2>1. <<m.reg[i.b].n, m.reg[i.c].n>> \in Int \X Int
    BY <1>2, <1>3, <1>9
  <2>2. Sound(InternComplex(m, i, <<m.reg[i.b].n, m.reg[i.c].n>>))
    BY <1>1, <2>1, SoundInterned
  <2> QED
    BY <1>9, <2>2, SoundTrap DEF Make
<1> QED
  BY <1>6, <1>7, <1>8, <1>9 DEF Makes

(* What is taken out of an entry is live.                                  *)
LEMMA EntryIs ==
  ASSUME NEW m, Sound(m), NEW w, Known(m, w), w.tag # "Complex"
  PROVE  Entry(m, w).of \in LiveWords(m) /\ Inside(m, w) = Entry(m, w).of /\ Entry(m, w).is \in BOOLEAN
<1>1. w.tag \in {"Option", "Result", "Enum"} /\ w.n \in DOMAIN PoolOf(m, w.tag)
  BY DEF Known, Handles
<1>2. PoolOf(m, w.tag) \in {m.options, m.results, m.enums}
  BY <1>1 DEF PoolOf
<1>3. Entry(m, w).of \in LiveWords(m)
  BY <1>1, <1>2, SoundPools DEF Entry
<1>4. Entry(m, w).is \in BOOLEAN
  <2>1. \A S : \A p \in Seq(S) : \A h \in DOMAIN p : p[h] \in S
    OBVIOUS
  <2>2. Entry(m, w) \in Boxes \/ Entry(m, w) \in Variants
    BY <1>1, <1>2, <2>1, SoundPools DEF Entry
  <2> QED
    BY <2>2 DEF Boxes, Variants
<1> QED
  BY <1>3, <1>4 DEF Inside

LEMMA SoundOpen ==
  ASSUME NEW m, Sound(m), NEW i, {i.a, i.b} \subseteq Registers, i.op \in DOMAIN Opened
  PROVE  Sound(Open(m, i))
<1> DEFINE w == m.reg[i.b]
           out == Yields(i, Entry(m, w))
<1>1. CASE w.tag # Opened[i.op] \/ ~Known(m, w) \/ out = <<>>
  BY <1>1, SoundTrap DEF Open
<1>2. CASE ~(w.tag # Opened[i.op] \/ ~Known(m, w) \/ out = <<>>)
  <2>1. w.tag # "Complex"
    BY <1>2 DEF Opened
  <2>2. Entry(m, w).of \in LiveWords(m)
    BY <1>2, <2>1, EntryIs
  <2>3. \A p : Word(Truth(p), "Int") \in LiveWords(m)
    BY IntIs, TruthIs
  <2>4. out[1] \in LiveWords(m)
    <3> DEFINE x == Entry(m, w)
    <3>1. \/ out = <<Word(Truth(x.is), "Int")>>
          \/ out = <<Word(Truth(x.id = i.c), "Int")>>
          \/ out = <<x.of>>
          \/ out = <<>>
      BY DEF Yields
    <3> HIDE DEF out
    <3> QED
      BY <1>2, <2>2, <2>3, <3>1
  <2>5. Open(m, i) = SetAndFlag(m, i.a, out[1])
    BY <1>2 DEF Open
  <2> QED
    BY <2>4, <2>5, SoundSetReg
<1> QED
  BY <1>1, <1>2

LEMMA SoundPolicy ==
  ASSUME NEW m, Sound(m), NEW i, reg_ok(m, i), {i.a, i.b, i.c} \subseteq Int
  PROVE  /\ i.op = "AxRead" => Sound(AxRead(m, i))
         /\ Sound(AxSet(m, i))
         /\ i.op = "AxVerify" => Sound(AxVerify(m, i))
         /\ i.op = "TNorm" => Sound(TNorm(m, i))
         /\ Sound(AssertHolds(m, i))
         /\ Sound(AxCheck(m, i))
         /\ Sound(PrintOut(m, i))
         /\ i.op = "MetaReflect" => Sound(MetaReflect(m, i))
<1>1. i.op \in {"AxRead", "AxVerify", "TNorm", "MetaReflect"} => i.a \in Registers
  BY NamedAre
<1>2. i.b \in Int /\ \A p : Truth(p) \in Int
  BY TruthIs
<1>3. i.op = "AxRead" => Sound(AxRead(m, i))
  BY <1>1, <1>2, SoundTrap, SoundPutInt DEF AxRead
<1>4. i.op = "AxVerify" => Sound(AxVerify(m, i))
  BY <1>1, <1>2, SoundTrap, SoundPutInt DEF AxVerify
<1>5. i.op = "TNorm" => Sound(TNorm(m, i))
  <2>1. Word(clamp_trit(m.reg[i.b].n), "Int") \in LiveWords(m)
    BY IntIs, SignIs DEF clamp_trit
  <2> QED
    BY <1>1, <2>1, SoundSetReg DEF TNorm
<1>6. i.op = "MetaReflect" => Sound(MetaReflect(m, i))
  <2> DEFINE n == [m EXCEPT !.reflections = m.reflections + 1]
             w == Word(m.reflections + 1, "Reflection")
  <2>1. m.reflections + 1 \in Nat /\ m.reflections + 1 \in Int
    BY SoundFacts
  <2>2. Sound(n) /\ LiveWords(n) = LiveWords(m)
    BY <2>1, SoundFields
  <2>3. w \in LiveWords(m)
    BY <2>1, WordIs, TagsAre DEF Handles
  <2>4. MetaReflect(m, i) = Trapped(m, "SecurityFault")
        \/ MetaReflect(m, i) = update_flags(set_reg(n, i.a, w), m.reflections + 1)
    BY DEF MetaReflect
  <2> HIDE DEF n, w
  <2> QED
    BY <1>1, <2>2, <2>3, <2>4, SoundTrap, SoundSetReg
<1>7. Sound(AxSet(m, i)) /\ Sound(AssertHolds(m, i)) /\ Sound(AxCheck(m, i))
  BY SoundTrap DEF AxSet, AssertHolds, AxCheck
<1>8. Sound(PrintOut(m, i))
  BY SoundTrap, SoundFields DEF PrintOut
<1> QED
  BY <1>3, <1>4, <1>5, <1>6, <1>7, <1>8

LEMMA SegmentIs == \A kind : Segment(kind) \subseteq Segments /\ Segment(kind) \subseteq Addresses
BY LayoutIs DEF Segment, Segments, Addresses

LEMMA SoundMeta ==
  ASSUME NEW m, Sound(m), NEW i, {i.a, i.c} \subseteq Registers
  PROVE  Sound(MetaRead(m, i)) /\ Sound(MetaWrite(m, i))
<1> DEFINE address == m.reg[i.c].n
           Loaded(w) == update_flags(Put(m, i.a, w), w.n)
<1>1. \A w \in LiveWords(m) : Sound(Loaded(w))
  BY SoundPut, SoundFlags
<1>2. \/ \E x : MetaRead(m, i) = Trapped(m, x)
      \/ address \in DOMAIN m.reg /\ MetaRead(m, i) = Loaded(m.reg[address])
      \/ MetaRead(m, i) = Loaded(Word(1, "Int"))
      \/ address \in Segment(i.b) /\ MetaRead(m, i) = Loaded(m.mem[address])
  BY DEF MetaRead
<1>3. \/ \E x : MetaWrite(m, i) = Trapped(m, x)
      \/ address \in DOMAIN m.reg /\ MetaWrite(m, i) = Put(m, address, m.reg[i.a])
      \/ address \in Segment(i.b) /\ MetaWrite(m, i) = [m EXCEPT !.mem[address] = m.reg[i.a]]
  BY DEF MetaWrite
<1>4. m.reg[i.a] \in LiveWords(m) /\ Word(1, "Int") \in LiveWords(m) /\ DOMAIN m.reg = Registers
      /\ (address \in Registers => m.reg[address] \in LiveWords(m))
      /\ (address \in Addresses => m.mem[address] \in LiveWords(m))
  BY SoundFacts, IntIs
<1> HIDE DEF Loaded, address
<1>5. Sound(MetaRead(m, i))
  BY <1>1, <1>2, <1>4, SoundTrap, SegmentIs
<1>6. Sound(MetaWrite(m, i))
  BY <1>3, <1>4, SoundTrap, SegmentIs, SoundPut, SoundStoreAt
<1> QED
  BY <1>5, <1>6

(* A refinement, of which nothing is forged.                               *)
LEMMA GreatestOf ==
  ASSUME NEW N \in Int, NEW S \in SUBSET (1..N), S # {}
  PROVE  \E k \in S : \A j \in S : j <= k
<1> DEFINE T == {N - k : k \in S}
<1>0. \A k \in S : N - k \in Nat
  OBVIOUS
<1>1. T # {} /\ T \in SUBSET Nat
  <2>1. PICK k \in S : TRUE
    OBVIOUS
  <2>2. N - k \in T
    OBVIOUS
  <2> QED
    BY <1>0, <2>2
<1>2. PICK x \in T : \A y \in T : x <= y
  <2> HIDE DEF T
  <2> QED
    BY <1>1, LeastOf
<1>3. PICK k \in S : x = N - k
  OBVIOUS
<1>4. \A j \in S : N - j \in T /\ j \in Int
  OBVIOUS
<1>5. \A j \in S : j <= k
  <2> HIDE DEF T
  <2> QED
    BY <1>2, <1>3, <1>4
<1> QED
  BY <1>5

LEMMA AppliedIs ==
  ASSUME NEW N \in Int, NEW commands, DOMAIN commands = 1..N, NEW words, NEW op, NEW x \in DOMAIN words
  PROVE  \/ On(commands, op, x) = {} /\ Applied(words, commands, op)[x] = words[x]
         \/ \E k \in On(commands, op, x) : Applied(words, commands, op)[x] = commands[k].word
<1>1. On(commands, op, x) \in SUBSET (1..N)
  BY DEF On
<1> DEFINE S == On(commands, op, x)
           last == CHOOSE k \in S : \A j \in S : j <= k
<1>2. Applied(words, commands, op)[x] = IF S = {} THEN words[x] ELSE commands[last].word
  BY DEF Applied
<1> HIDE DEF S, last
<1>3. S # {} => last \in S
  <2>1. S # {} => \E k \in S : \A j \in S : j <= k
    BY <1>1, GreatestOf DEF S
  <2> QED
    BY <2>1 DEF last
<1> QED
  BY <1>2, <1>3 DEF S

(* The commands of a refinement that can be read.                          *)
LEMMA CommandsAre ==
  ASSUME NEW m, Sound(m), NEW from \in Int, NEW count \in Int, Readable(from, count)
  PROVE  /\ DOMAIN Commands(m, from, count) = 1..count
         /\ \A k \in 1..count : Commands(m, from, count)[k].word \in Words
<1>1. DOMAIN Commands(m, from, count) = 1..count
  BY DEF Commands
<1>2. ASSUME NEW k \in 1..count
      PROVE  Commands(m, from, count)[k].word \in Words
  <2> DEFINE base == from + 4 * (k - 1)
  <2>1. base \in Int /\ base \in Segments /\ base + 3 \in Segments
    BY DEF Readable, mem_ok
  <2> HIDE DEF base
  <2>2. base + 2 \in Addresses /\ base + 3 \in Addresses
    BY <2>1, LayoutIs DEF Segments, Addresses
  <2>3. m.mem[base + 2].n \in Int
    BY <2>2, SoundFacts DEF LiveWords, Words
  <2>4. TagCalled(m.mem[base + 3].n) \in Tags
    BY TagsAre DEF TagCalled, Tags
  <2>5. Commands(m, from, count)[k].word = Word(m.mem[base + 2].n, TagCalled(m.mem[base + 3].n))
    BY DEF Commands, CommandAt, base
  <2> QED
    BY <2>3, <2>4, <2>5 DEF Word, Words
<1> QED
  BY <1>1, <1>2

Refined(m, f, g) == [m EXCEPT !.reg = f, !.mem = g]

LEMMA RefinedIs ==
  ASSUME NEW m, HasFields(m), NEW f, NEW g
  PROVE  Differs(m, Refined(m, f, g), {"reg", "mem"}) /\ Refined(m, f, g).reg = f /\ Refined(m, f, g).mem = g
<1>1. ASSUME NEW p, HasFields(p), NEW x
      PROVE  Differs(p, [p EXCEPT !.reg = x], {"reg"}) /\ [p EXCEPT !.reg = x].reg = x
  BY <1>1 DEF HasFields, Differs
<1> DEFINE h == [m EXCEPT !.reg = f]
           n == [h EXCEPT !.mem = g]
<1>2. Refined(m, f, g) = n
  BY DEF HasFields, Refined
<1>3. Differs(m, h, {"reg"}) /\ h.reg = f
  BY <1>1
<1> HIDE DEF h
<1>4. HasFields(h)
  BY <1>3 DEF Differs
<1>5. Differs(h, n, {"mem"}) /\ n.mem = g
  BY <1>4, FieldsAre
<1> HIDE DEF n
<1>6. Differs(m, n, {"reg", "mem"}) /\ n.reg = f /\ n.mem = g
  BY <1>3, <1>5 DEF Differs
<1> QED
  BY <1>2, <1>6

LEMMA SoundRefine ==
  ASSUME NEW m, Sound(m), NEW i, i.op = "MetaRefine", {i.a, i.b, i.c} \subseteq Registers, Forges(m, i) = {}
  PROVE  Sound(MetaRefine(m, i))
<1> DEFINE count == m.reg[i.c].n
           from == m.reg[i.b].n
           commands == Commands(m, from, count)
           f == Applied(m.reg, commands, SetsRegister)
           g == Applied(m.mem, commands, SetsMemory)
           applied == Refined(m, f, g)
<1>1. count \in Int /\ from \in Int
  BY SoundRead
<1>2. \/ \E x : MetaRefine(m, i) = Trapped(m, x)
      \/ /\ count \in 0..MaxRefinements /\ Readable(from, count)
         /\ MetaRefine(m, i) = update_flags(set_reg(applied, i.a, Word(1, "Int")), 1)
  BY DEF MetaRefine, Refined
<1>3. CASE count \in 0..MaxRefinements /\ Readable(from, count)
  <2>1. DOMAIN commands = 1..count /\ \A k \in 1..count : commands[k].word \in Words
    BY <1>1, <1>3, CommandsAre
  <2>2. Forged(m, i) = {commands[k].word : k \in DOMAIN commands}
    BY <1>3 DEF Forged, CommandsRead, CommandsOf
  <2>3. \A k \in 1..count : commands[k].word \in LiveWords(m)
    <3>1. \A w \in Forged(m, i) : w.tag \notin Handles /\ (w.tag = "Tensor" => w.n \in DOMAIN m.tensors)
      BY DEF Forges, Way
    <3> QED
      BY <2>1, <2>2, <3>1 DEF LiveWords, Live
  <2> HIDE DEF commands, from, count
  <2>4. f \in [Registers -> LiveWords(m)]
    <3>1. f = [x \in DOMAIN m.reg |-> f[x]] /\ DOMAIN m.reg = Registers
      BY SoundFacts DEF Applied
    <3>2. ASSUME NEW x \in Registers
          PROVE  f[x] \in LiveWords(m)
      <4>1. On(commands, SetsRegister, x) \subseteq DOMAIN commands
        BY DEF On
      <4>2. \/ f[x] = m.reg[x]
            \/ \E k \in On(commands, SetsRegister, x) : f[x] = commands[k].word
        BY <1>1, <2>1, <3>1, AppliedIs
      <4> HIDE DEF f
      <4> QED
        BY <2>1, <2>3, <4>1, <4>2, SoundFacts
    <3> HIDE DEF f
    <3> QED
      BY <3>1, <3>2
  <2>5. g \in [Addresses -> LiveWords(m)]
    <3>1. g = [x \in DOMAIN m.mem |-> g[x]] /\ DOMAIN m.mem = Addresses
      BY SoundFacts DEF Applied
    <3>2. ASSUME NEW x \in Addresses
          PROVE  g[x] \in LiveWords(m)
      <4>1. On(commands, SetsMemory, x) \subseteq DOMAIN commands
        BY DEF On
      <4>2. \/ g[x] = m.mem[x]
            \/ \E k \in On(commands, SetsMemory, x) : g[x] = commands[k].word
        BY <1>1, <2>1, <3>1, AppliedIs
      <4> HIDE DEF g
      <4> QED
        BY <2>1, <2>3, <4>1, <4>2, SoundFacts
    <3> HIDE DEF g
    <3> QED
      BY <3>1, <3>2
  <2> HIDE DEF f, g
  <2>6. Differs(m, applied, {"reg", "mem"}) /\ applied.reg = f /\ applied.mem = g
    BY RefinedIs, SoundFacts
  <2> HIDE DEF applied
  <2>7. /\ Differs(m, applied, Plain \cup {"reg", "mem"}) /\ applied.sp = m.sp /\ applied.flag = m.flag
        /\ applied.elements = m.elements /\ applied.reflections = m.reflections
    BY <2>6 DEF Differs, Plain
  <2>8. Sound(applied)
    BY <2>4, <2>5, <2>6, <2>7, SoundFacts, SoundBy
  <2>9. Sound(update_flags(set_reg(applied, i.a, Word(1, "Int")), 1))
    <3>1. Word(1, "Int") \in LiveWords(applied)
      BY IntIs
    <3> QED
      BY <2>8, <3>1, SoundSetReg
  <2> QED
    BY <1>2, <2>9, SoundTrap
<1>4. CASE ~(count \in 0..MaxRefinements /\ Readable(from, count))
  BY <1>2, <1>4, SoundTrap
<1> QED
  BY <1>3, <1>4

LEMMA LiteralIs ==
  ASSUME NEW m, NEW i \in Insns, i.op = "LoadImm", Forges(m, i) = {}
  PROVE  Literal(i) \in LiveWords(m)
<1>1. Forged(m, i) = {Literal(i)}
  BY DEF Forged
<1>2. Literal(i).tag \notin Handles /\ (Literal(i).tag = "Tensor" => Literal(i).n \in DOMAIN m.tensors)
  BY <1>1 DEF Forges, Way
<1>3. Literal(i).n \in Int /\ Literal(i).tag \in Tags /\ Literal(i) = Word(Literal(i).n, Literal(i).tag)
  <2>1. i.b \in Int /\ i.tag \in LiteralTags
    BY InsnAssumption
  <2>2. i.b \in DOMAIN Tokens => Tokens[i.b] \in TokenTags
    BY PoolAssumption
  <2> QED
    BY <2>1, <2>2, TagsAre DEF Literal, Word
<1> QED
  BY <1>2, <1>3 DEF LiveWords, Live, Word, Words

(* Which handler it is.                                                    *)
LEMMA Dispatch ==
  ASSUME NEW m, NEW i
  PROVE  /\ i.op \in Calculations => Handler(m, i) = Calculate(m, i)
         /\ i.op \in {"Div", "Mod"} => Handler(m, i) = Divide(m, i)
         /\ i.op \in Comparisons \cup {"Cmp"} => Handler(m, i) = Compare(m, i)
         /\ i.op \in Jumps => Handler(m, i) = Jump(m, i)
         /\ i.op \in Makes => Handler(m, i) = Make(m, i)
         /\ i.op \in DOMAIN Opened => Handler(m, i) = Open(m, i)
         /\ i.op \in TensorOps => Handler(m, i) = TensorOp(m, i)
         /\ i.op \in UnaryTensorOps => Handler(m, i) = UnaryTensorOp(m, i)
         /\ i.op \in Unimplemented \cup Blocked => Handler(m, i) = Trapped(m, "SecurityFault")
         /\ i.op = "SetF" => Handler(m, i) = SetFlag(m, i)
         /\ i.op = "LoadImm" => Handler(m, i) = LoadImm(m, i)
         /\ i.op = "Mov" => Handler(m, i) = Mov(m, i)
         /\ i.op = "Load" => Handler(m, i) = Load(m, i)
         /\ i.op = "Store" => Handler(m, i) = Store(m, i)
         /\ i.op = "Push" => Handler(m, i) = Push(m, i)
         /\ i.op = "Pop" => Handler(m, i) = Pop(m, i)
         /\ i.op = "MemZero" => Handler(m, i) = MemZero(m, i)
         /\ i.op = "Copy" => Handler(m, i) = Copy(m, i)
         /\ i.op = "TNorm" => Handler(m, i) = TNorm(m, i)
         /\ i.op = "Assert" => Handler(m, i) = AssertHolds(m, i)
         /\ i.op = "AxRead" => Handler(m, i) = AxRead(m, i)
         /\ i.op = "AxSet" => Handler(m, i) = AxSet(m, i)
         /\ i.op = "AxReport" => Handler(m, i) = AxSet(m, i)
         /\ i.op = "AxCheck" => Handler(m, i) = AxCheck(m, i)
         /\ i.op = "Print" => Handler(m, i) = PrintOut(m, i)
         /\ i.op = "AxVerify" => Handler(m, i) = AxVerify(m, i)
         /\ i.op = "MetaRead" => Handler(m, i) = MetaRead(m, i)
         /\ i.op = "MetaWrite" => Handler(m, i) = MetaWrite(m, i)
         /\ i.op = "MetaReflect" => Handler(m, i) = MetaReflect(m, i)
         /\ i.op = "MetaRefine" => Handler(m, i) = MetaRefine(m, i)
         /\ i.op = "Trap" => Handler(m, i) = Trapped(m, "TrapInstruction")
<1> USE DEF Handler, Calculations, Trits, BitOps, Sums, Comparisons, Jumps, Makes, Opened, TensorOps, UnaryTensorOps, Unimplemented,
         Blocked
<1>1. i.op \in Calculations => Handler(m, i) = Calculate(m, i)
  OBVIOUS
<1>2. i.op \in {"Div", "Mod"} => Handler(m, i) = Divide(m, i)
  OBVIOUS
<1>3. i.op \in Comparisons \cup {"Cmp"} => Handler(m, i) = Compare(m, i)
  OBVIOUS
<1>4. i.op \in Jumps => Handler(m, i) = Jump(m, i)
  OBVIOUS
<1>5. i.op \in Makes => Handler(m, i) = Make(m, i)
  OBVIOUS
<1>6. i.op \in DOMAIN Opened => Handler(m, i) = Open(m, i)
  OBVIOUS
<1>7. i.op \in TensorOps => Handler(m, i) = TensorOp(m, i)
  OBVIOUS
<1>8. i.op \in UnaryTensorOps => Handler(m, i) = UnaryTensorOp(m, i)
  OBVIOUS
<1>9. i.op \in Unimplemented \cup Blocked => Handler(m, i) = Trapped(m, "SecurityFault")
  OBVIOUS
<1>10. /\ i.op = "SetF" => Handler(m, i) = SetFlag(m, i)
       /\ i.op = "LoadImm" => Handler(m, i) = LoadImm(m, i)
       /\ i.op = "Mov" => Handler(m, i) = Mov(m, i)
       /\ i.op = "Load" => Handler(m, i) = Load(m, i)
       /\ i.op = "Store" => Handler(m, i) = Store(m, i)
       /\ i.op = "Push" => Handler(m, i) = Push(m, i)
       /\ i.op = "Pop" => Handler(m, i) = Pop(m, i)
       /\ i.op = "MemZero" => Handler(m, i) = MemZero(m, i)
       /\ i.op = "Copy" => Handler(m, i) = Copy(m, i)
       /\ i.op = "TNorm" => Handler(m, i) = TNorm(m, i)
       /\ i.op = "Assert" => Handler(m, i) = AssertHolds(m, i)
       /\ i.op = "AxRead" => Handler(m, i) = AxRead(m, i)
       /\ i.op = "AxSet" => Handler(m, i) = AxSet(m, i)
       /\ i.op = "AxReport" => Handler(m, i) = AxSet(m, i)
       /\ i.op = "AxCheck" => Handler(m, i) = AxCheck(m, i)
       /\ i.op = "Print" => Handler(m, i) = PrintOut(m, i)
       /\ i.op = "AxVerify" => Handler(m, i) = AxVerify(m, i)
       /\ i.op = "MetaRead" => Handler(m, i) = MetaRead(m, i)
       /\ i.op = "MetaWrite" => Handler(m, i) = MetaWrite(m, i)
       /\ i.op = "MetaReflect" => Handler(m, i) = MetaReflect(m, i)
       /\ i.op = "MetaRefine" => Handler(m, i) = MetaRefine(m, i)
       /\ i.op = "Trap" => Handler(m, i) = Trapped(m, "TrapInstruction")
  OBVIOUS
<1> QED
  BY <1>1, <1>2, <1>3, <1>4, <1>5, <1>6, <1>7, <1>8, <1>9, <1>10

THEOREM SoundInterp ==
  ASSUME NEW m, Sound(m), NEW i \in Insns, Forges(m, i) = {}
  PROVE  Sound(Interp(m, i))
<1>0. {i.a, i.b, i.c} \subseteq Int /\ i.op \in Opcodes
  BY InsnAssumption
<1> SUFFICES ASSUME reg_ok(m, i)
             PROVE  Sound(Handler(m, i))
  BY SoundTrap DEF Interp
<1>1. CASE i.op \in Calculations
  BY <1>1, Dispatch, SoundCalculate
<1>2. CASE i.op \in {"Div", "Mod"}
  BY <1>2, Dispatch, NamedAre, SoundDivide
<1>3. CASE i.op \in Comparisons \cup {"Cmp"}
  BY <1>3, Dispatch, SoundCompare
<1>4. CASE i.op \in Jumps
  BY <1>4, Dispatch, SoundJump
<1>5. CASE i.op \in Makes
  BY <1>0, <1>5, Dispatch, SoundMake
<1>6. CASE i.op \in DOMAIN Opened
  BY <1>6, Dispatch, NamedAre, SoundOpen
<1>7. CASE i.op \in TensorOps
  BY <1>7, Dispatch, NamedAre, SoundTensorOp
<1>8. CASE i.op \in UnaryTensorOps
  BY <1>8, Dispatch, NamedAre, SoundUnaryTensorOp
<1>9. CASE i.op \in Unimplemented \cup Blocked \cup {"Trap"}
  BY <1>9, Dispatch, SoundTrap
<1>10. CASE i.op \in TraceMoves \ {"Pop"}
  <2>1. i.a \in Registers /\ (i.op = "Mov" => i.b \in Registers)
    BY <1>10, NamedAre DEF TraceMoves
  <2> QED
    BY <1>10, <2>1, Dispatch, SoundMoves, LiteralIs DEF TraceMoves
<1>11. CASE i.op \in {"Store", "Push", "Pop", "MemZero", "Copy"}
  BY <1>11, Dispatch, NamedAre, SoundStore, SoundStack, SoundMemZero, SoundCopy
<1>12. CASE i.op \in {"AxRead", "AxSet", "AxReport", "AxVerify", "TNorm", "Assert", "AxCheck", "Print", "MetaReflect"}
  BY <1>0, <1>12, Dispatch, SoundPolicy
<1>13. CASE i.op \in {"MetaRead", "MetaWrite", "MetaRefine"}
  BY <1>13, Dispatch, NamedAre, SoundMeta, SoundRefine
<1>14. \/ i.op \in Calculations \cup {"Div", "Mod"} \cup Comparisons \cup {"Cmp"} \cup Jumps \cup Makes \cup DOMAIN Opened
       \/ i.op \in TensorOps \cup UnaryTensorOps \cup Unimplemented \cup Blocked \cup {"Trap"} \cup (TraceMoves \ {"Pop"})
       \/ i.op \in {"Store", "Push", "Pop", "MemZero", "Copy"}
       \/ i.op \in {"AxRead", "AxSet", "AxReport", "AxVerify", "TNorm", "Assert", "AxCheck", "Print", "MetaReflect"}
       \/ i.op \in {"MetaRead", "MetaWrite", "MetaRefine"}
  BY <1>0 DEF Opcodes, Recorded, AllocatesTensor, TensorOps
<1> QED
  BY <1>1, <1>2, <1>3, <1>4, <1>5, <1>6, <1>7, <1>8, <1>9, <1>10, <1>11, <1>12, <1>13, <1>14

(*************************** a trace's handlers ****************************)
(* What a trace makes of a machine is sound, if it makes something of it.  *)
Keeps(out) == out = GivesUp \/ \E n : out = Done(n) /\ Sound(n)

LEMMA KeepsDone == ASSUME NEW n, Sound(n) PROVE Keeps(Done(n))
BY DEF Keeps
LEMMA KeepsNothing == Keeps(GivesUp)
BY DEF Keeps
LEMMA KeepsWrite ==
  ASSUME NEW m, Sound(m), NEW r \in Registers, NEW x \in Int
  PROVE  Keeps(Write(m, r, x, "Int"))
BY SoundPut, IntIs, KeepsDone DEF Write

LEMMA KeepsMove ==
  ASSUME NEW m, Sound(m), NEW i \in Insns, reg_ok(m, i), i.op \in TraceMoves, Forges(m, i) = {}
  PROVE  Keeps(TraceMove(m, i))
<1>1. i.a \in Registers
  BY NamedAre DEF TraceMoves
<1>2. CASE i.op = "Mov"
  BY <1>1, <1>2, NamedAre, SoundRead, SoundPut, KeepsDone DEF TraceMove
<1>3. CASE i.op = "LoadImm"
  BY <1>1, <1>3, LiteralIs, SoundPut, KeepsDone DEF TraceMove
<1>4. CASE i.op = "Load"
  <2>1. i.b \in 0..(MemSize - 1) => m.mem[i.b] \in LiveWords(m)
    BY SoundFacts DEF Addresses
  <2> QED
    BY <1>1, <1>4, <2>1, SoundPut, KeepsDone, KeepsNothing DEF TraceMove
<1>5. CASE i.op = "Pop"
  <2>1. TraceMove(m, i) = GivesUp \/ (m.sp < StackBase /\ TraceMove(m, i) = Done(Popped(m, i.a)))
    <3>1. m.sp \in Int /\ StackBase \in Int
      BY SoundFacts, LayoutIs
    <3> QED
      BY <1>5, <3>1 DEF TraceMove, Popped
  <2> QED
    BY <1>1, <2>1, SoundPop, KeepsDone, KeepsNothing
<1>6. CASE i.op = "SetF"
  <2>1. m.flag \in Int
    BY SoundFacts
  <2> QED
    BY <1>1, <1>6, <2>1, KeepsWrite DEF TraceMove
<1> QED
  BY <1>2, <1>3, <1>4, <1>5, <1>6 DEF TraceMoves

(* What a trace calculates is what the interpreter does.                   *)
LEMMA TraceCalculates ==
  ASSUME NEW m, NEW i, i.op \in Calculations
  PROVE  TraceCalculate(m, i)
           = Write(m, i.a, IF i.op = "Inc" THEN Wrap(m.reg[i.a].n + 1)
                           ELSE IF i.op = "Dec" THEN Wrap(m.reg[i.a].n - 1)
                           ELSE Calculated(i.op, m.reg[i.b].n, m.reg[i.c].n), "Int")
<1> DEFINE x == m.reg[i.b].n
           y == m.reg[i.c].n
<1>1. CASE i.op \in {"Inc", "Dec"}
  BY <1>1 DEF TraceCalculate
<1>2. CASE i.op \in Trits
  <2>1. TraceLogic(i.op, x, y) = OfTrits(i.op, x, y)
    BY DEF TraceLogic, OfTrits
  <2>2. TraceCalculate(m, i) = Write(m, i.a, TraceLogic(i.op, x, y), "Int")
    BY <1>2 DEF TraceCalculate, Trits
  <2>3. Calculated(i.op, x, y) = OfTrits(i.op, x, y) /\ i.op \notin {"Inc", "Dec"}
    BY <1>2 DEF Calculated, Trits
  <2> QED
    BY <2>1, <2>2, <2>3
<1>3. CASE i.op \in BitOps
  <2>1. TraceBits(i.op, x, y) = OfBits(i.op, x, y)
    BY DEF TraceBits, OfBits
  <2>2. TraceCalculate(m, i) = Write(m, i.a, TraceBits(i.op, x, y), "Int")
    BY <1>3 DEF TraceCalculate, BitOps
  <2>3. Calculated(i.op, x, y) = OfBits(i.op, x, y) /\ i.op \notin {"Inc", "Dec"}
    BY <1>3 DEF Calculated, Trits, BitOps
  <2> QED
    BY <2>1, <2>2, <2>3
<1>4. CASE i.op \in Sums
  <2>1. TraceArithmetic(i.op, x, y) = OfIntegers(i.op, x, y)
    BY DEF TraceArithmetic, OfIntegers
  <2>2. TraceCalculate(m, i) = Write(m, i.a, TraceArithmetic(i.op, x, y), "Int")
    BY <1>4 DEF TraceCalculate, Sums
  <2>3. Calculated(i.op, x, y) = OfIntegers(i.op, x, y) /\ i.op \notin {"Inc", "Dec"}
    BY <1>4 DEF Calculated, Trits, BitOps, Sums
  <2> QED
    BY <2>1, <2>2, <2>3
<1> QED
  BY <1>1, <1>2, <1>3, <1>4 DEF Calculations

LEMMA KeepsNumbers ==
  ASSUME NEW m, Sound(m), NEW i, reg_ok(m, i)
  PROVE  /\ i.op \in Calculations => Keeps(TraceCalculate(m, i))
         /\ i.op \in {"Div", "Mod"} => Keeps(TraceDivide(m, i))
         /\ i.op \in Comparisons => Keeps(TraceCompare(m, i))
         /\ i.op = "Cmp" => Keeps(TraceCmp(m, i))
<1>1. ASSUME i.op \in Calculations
      PROVE  Keeps(TraceCalculate(m, i))
  <2>1. CASE i.op \in {"Inc", "Dec"}
    <3>1. i.a \in Registers /\ m.reg[i.a].n \in Int
      BY <2>1, NamedAre, SoundRead
    <3>2. Wrap(m.reg[i.a].n + 1) \in Int /\ Wrap(m.reg[i.a].n - 1) \in Int
      BY <3>1, WrapIs
    <3> QED
      BY <1>1, <2>1, <3>1, <3>2, KeepsWrite, TraceCalculates
  <2>2. CASE i.op \notin {"Inc", "Dec"}
    <3>1. {i.a, i.b} \subseteq Registers /\ m.reg[i.b].n \in Int
          /\ (i.op \notin {"TNot", "BitNot", "Neg"} => m.reg[i.c].n \in Int)
      BY <1>1, <2>2, NamedAre, SoundRead
    <3>2. Calculated(i.op, m.reg[i.b].n, m.reg[i.c].n) \in Int
      BY <1>1, <2>2, <3>1, CalculatedIs
    <3> QED
      BY <1>1, <2>2, <3>1, <3>2, KeepsWrite, TraceCalculates
  <2> QED
    BY <2>1, <2>2
<1>2. ASSUME i.op \in {"Div", "Mod"}
      PROVE  Keeps(TraceDivide(m, i))
  <2>1. i.a \in Registers /\ m.reg[i.b].n \in Int /\ m.reg[i.c].n \in Int
    BY <1>2, NamedAre, SoundRead
  <2>2. m.reg[i.c].n # 0 => Quotient(m.reg[i.b].n, m.reg[i.c].n) \in Int /\ Remainder(m.reg[i.b].n, m.reg[i.c].n) \in Int
    BY <2>1, QuotientIs
  <2> QED
    BY <2>1, <2>2, SoundTrap, KeepsWrite, KeepsDone, KeepsNothing DEF TraceDivide, Remainder
<1>3. i.op \in Comparisons => Keeps(TraceCompare(m, i))
  <2>1. \A p : Truth(p) \in Int
    BY TruthIs
  <2> QED
    BY <2>1, NamedAre, KeepsWrite DEF TraceCompare
<1>4. i.op = "Cmp" => Keeps(TraceCmp(m, i))
  BY SoundFlags, KeepsDone, KeepsNothing DEF TraceCmp
<1> QED
  BY <1>1, <1>2, <1>3, <1>4

LEMMA KeepsStores ==
  ASSUME NEW m, Sound(m), NEW i, reg_ok(m, i)
  PROVE  /\ i.op = "Store" => Keeps(TraceStore(m, i))
         /\ i.op = "Push" => Keeps(TracePush(m, i))
         /\ Keeps(TraceJump(m, i))
<1>1. i.op = "Store" => Keeps(TraceStore(m, i))
  BY NamedAre, SoundRead, SoundStoreAt, KeepsDone, KeepsNothing DEF TraceStore, Addresses
<1>2. i.op = "Push" => Keeps(TracePush(m, i))
  <2>1. m.sp \in Int /\ StackLimit \in Int
    BY SoundFacts, LayoutIs
  <2>2. TracePush(m, i) = GivesUp \/ (m.sp > StackLimit /\ TracePush(m, i) = Done(Pushed(m, i.a)))
    BY <2>1 DEF TracePush, Pushed
  <2> QED
    BY <2>2, NamedAre, SoundPush, KeepsDone, KeepsNothing
<1>3. Keeps(TraceJump(m, i))
  BY SoundFields, KeepsDone DEF TraceJump
<1> QED
  BY <1>1, <1>2, <1>3

(* An entry at the end of a pool, and its handle in a register.            *)
AppendOption(m, r, x) == Put([m EXCEPT !.options = Append(m.options, x)], r, Word(Len(m.options) + 1, "Option"))
AppendResult(m, r, x) == Put([m EXCEPT !.results = Append(m.results, x)], r, Word(Len(m.results) + 1, "Result"))
AppendEnum(m, r, x) == Put([m EXCEPT !.enums = Append(m.enums, x)], r, Word(Len(m.enums) + 1, "Enum"))
AppendComplex(m, r, x) == Put([m EXCEPT !.complexes = Append(m.complexes, x)], r, Word(Len(m.complexes) + 1, "Complex"))

LEMMA SoundAppended ==
  ASSUME NEW m, Sound(m), NEW r \in Registers
  PROVE  /\ \A is \in BOOLEAN, of \in LiveWords(m) :
              Sound(AppendOption(m, r, Box(is, of))) /\ Sound(AppendResult(m, r, Box(is, of)))
         /\ \A x \in Variants : x.of \in LiveWords(m) => Sound(AppendEnum(m, r, x))
         /\ \A x \in Int \X Int : Sound(AppendComplex(m, r, x))
<1>1. ASSUME NEW is \in BOOLEAN, NEW of \in LiveWords(m)
      PROVE  Sound(AppendOption(m, r, Box(is, of))) /\ Sound(AppendResult(m, r, Box(is, of)))
  <2>1. Box(is, of) \in Boxes
    BY DEF Box, Boxes, LiveWords
  <2>2. /\ Extends(Boxes, m.options, Append(m.options, Box(is, of)), Len(m.options) + 1, Box(is, of))
        /\ Extends(Boxes, m.results, Append(m.results, Box(is, of)), Len(m.results) + 1, Box(is, of))
    BY <2>1, AppendIs, SoundPools
  <2> QED
    BY <2>2, SoundOption, SoundResult, SoundPut DEF AppendOption, AppendResult
<1>2. ASSUME NEW x \in Variants, x.of \in LiveWords(m)
      PROVE  Sound(AppendEnum(m, r, x))
  <2>1. Extends(Variants, m.enums, Append(m.enums, x), Len(m.enums) + 1, x)
    BY AppendIs, SoundPools
  <2> QED
    BY <1>2, <2>1, SoundEnum, SoundPut DEF AppendEnum
<1>3. ASSUME NEW x \in Int \X Int
      PROVE  Sound(AppendComplex(m, r, x))
  <2>1. Extends(Int \X Int, m.complexes, Append(m.complexes, x), Len(m.complexes) + 1, x)
    BY AppendIs, SoundPools
  <2> QED
    BY <2>1, SoundComplex, SoundPut DEF AppendComplex
<1> QED
  BY <1>1, <1>2, <1>3

LEMMA TraceMakes ==
  ASSUME NEW m, HasFields(m), NEW i, i.op \in Makes
  PROVE  /\ i.op = "MakeOptionSome" => TraceMake(m, i) = Done(AppendOption(m, i.a, Box(TRUE, m.reg[i.b])))
         /\ i.op = "MakeOptionNone" => TraceMake(m, i) = Done(AppendOption(m, i.a, Box(FALSE, Nothing)))
         /\ i.op = "MakeResultOk" => TraceMake(m, i) = Done(AppendResult(m, i.a, Box(TRUE, m.reg[i.b])))
         /\ i.op = "MakeResultErr" => TraceMake(m, i) = Done(AppendResult(m, i.a, Box(FALSE, m.reg[i.b])))
         /\ i.op = "MakeEnumVariant" => TraceMake(m, i) = Done(AppendEnum(m, i.a, Variant(i.b, -1, FALSE, Nothing)))
         /\ i.op = "MakeEnumVariantPayload" =>
              TraceMake(m, i) = IF i.c < 0 THEN GivesUp ELSE Done(AppendEnum(m, i.a, Variant(i.c, -1, TRUE, m.reg[i.b])))
         /\ i.op = "MakeComplex" =>
              TraceMake(m, i) = IF m.reg[i.b].tag = "Int" /\ m.reg[i.c].tag = "Int"
                                THEN Done(AppendComplex(m, i.a, <<m.reg[i.b].n, m.reg[i.c].n>>)) ELSE GivesUp
BY DEF TraceMake, AppendOption, AppendResult, AppendEnum, AppendComplex, HasFields

LEMMA KeepsMake ==
  ASSUME NEW m, Sound(m), NEW i, reg_ok(m, i), i.op \in Makes, {i.a, i.b, i.c} \subseteq Int
  PROVE  Keeps(TraceMake(m, i))
<1>0. i.b \in Int /\ i.c \in Int /\ -1 \in Int
  OBVIOUS
<1>1. i.a \in Registers /\ HasFields(m)
  BY NamedAre, SoundFacts DEF Makes
<1>2. i.op \in {"MakeOptionSome", "MakeResultOk", "MakeResultErr", "MakeEnumVariantPayload", "MakeComplex"}
        => m.reg[i.b] \in LiveWords(m) /\ m.reg[i.b] \in Words /\ m.reg[i.b].n \in Int
  BY NamedAre, SoundRead
<1>3. i.op = "MakeComplex" => m.reg[i.c].n \in Int
  BY NamedAre, SoundRead
<1>4. Nothing \in LiveWords(m) /\ Nothing \in Words
  BY IntIs DEF Nothing, LiveWords
<1>6. CASE i.op \in {"MakeOptionSome", "MakeOptionNone", "MakeResultOk", "MakeResultErr"}
  <2>1. /\ Sound(AppendOption(m, i.a, Box(FALSE, Nothing)))
        /\ i.op # "MakeOptionNone" => Sound(AppendOption(m, i.a, Box(TRUE, m.reg[i.b])))
                                       /\ Sound(AppendResult(m, i.a, Box(TRUE, m.reg[i.b])))
                                       /\ Sound(AppendResult(m, i.a, Box(FALSE, m.reg[i.b])))
    BY <1>1, <1>2, <1>4, <1>6, SoundAppended
  <2> QED
    BY <1>1, <1>6, <2>1, TraceMakes, KeepsDone
<1>7. CASE i.op = "MakeEnumVariant"
  <2>1. Variant(i.b, -1, FALSE, Nothing) \in Variants /\ Variant(i.b, -1, FALSE, Nothing).of = Nothing
    BY <1>0, <1>4 DEF Variant, Variants
  <2> QED
    BY <1>1, <1>4, <1>7, <2>1, SoundAppended, TraceMakes, KeepsDone
<1>8. CASE i.op = "MakeEnumVariantPayload"
  <2>1. Variant(i.c, -1, TRUE, m.reg[i.b]) \in Variants /\ Variant(i.c, -1, TRUE, m.reg[i.b]).of = m.reg[i.b]
    BY <1>0, <1>2, <1>8 DEF Variant, Variants
  <2>2. Sound(AppendEnum(m, i.a, Variant(i.c, -1, TRUE, m.reg[i.b])))
    BY <1>1, <1>2, <1>8, <2>1, SoundAppended
  <2> QED
    BY <1>1, <1>8, <2>2, TraceMakes, KeepsDone, KeepsNothing
<1>9. CASE i.op = "MakeComplex"
  <2>1. <<m.reg[i.b].n, m.reg[i.c].n>> \in Int \X Int
    BY <1>2, <1>3, <1>9
  <2>2. Sound(AppendComplex(m, i.a, <<m.reg[i.b].n, m.reg[i.c].n>>))
    BY <1>1, <2>1, SoundAppended
  <2> QED
    BY <1>1, <1>9, <2>2, TraceMakes, KeepsDone, KeepsNothing
<1> QED
  BY <1>6, <1>7, <1>8, <1>9 DEF Makes

LEMMA KeepsOpen ==
  ASSUME NEW m, Sound(m), NEW i, {i.a, i.b} \subseteq Registers, i.op \in DOMAIN Opened
  PROVE  Keeps(TraceOpen(m, i))
<1> DEFINE w == m.reg[i.b]
           x == Entry(m, w)
<1>1. \/ TraceOpen(m, i) = GivesUp
      \/ /\ w.tag = Opened[i.op] /\ Known(m, w)
         /\ \/ \E p : TraceOpen(m, i) = Write(m, i.a, Truth(p), "Int")
            \/ TraceOpen(m, i) = Done(Put(m, i.a, x.of))
  BY DEF TraceOpen
<1>2. Opened[i.op] # "Complex"
  BY DEF Opened
<1>3. \A p : Truth(p) \in Int
  BY TruthIs
<1>4. w.tag = Opened[i.op] /\ Known(m, w) => x.of \in LiveWords(m)
  BY <1>2, EntryIs
<1> HIDE DEF w, x
<1> QED
  BY <1>1, <1>3, <1>4, KeepsNothing, KeepsWrite, KeepsDone, SoundPut

LEMMA KeepsTensor ==
  ASSUME NEW m, Sound(m), NEW i, {i.a, i.b, i.c} \subseteq Registers
  PROVE  Keeps(TraceTensor(m, i))
<1> DEFINE s == m.tensors[m.reg[i.b].n]
           t == m.tensors[m.reg[i.c].n]
           shape == ShapeOf(i.op, s, t)
<1>1. \/ TraceTensor(m, i) = GivesUp
      \/ /\ {m.reg[i.b].n, m.reg[i.c].n} \subseteq DOMAIN m.tensors /\ Fits(i.op, s, t)
         /\ TraceTensor(m, i) = Done([m EXCEPT !.tensors = Append(@, shape), !.reg[i.a] = Word(Len(m.tensors) + 1, "Tensor")])
  BY DEF TraceTensor
<1>2. [m EXCEPT !.tensors = Append(@, shape), !.reg[i.a] = Word(Len(m.tensors) + 1, "Tensor")]
        = Put(WithTensor(m, shape, m.elements), i.a, Word(Len(m.tensors) + 1, "Tensor"))
  <2>1. HasFields(m)
    BY SoundFacts
  <2> HIDE DEF shape
  <2> QED
    BY <2>1, BareAllocIs
<1>3. \A k \in DOMAIN m.tensors : m.tensors[k] \in Seq(Nat)
  BY SoundPools
<1>4. {m.reg[i.b].n, m.reg[i.c].n} \subseteq DOMAIN m.tensors /\ Fits(i.op, s, t) => shape \in Seq(Nat)
  BY <1>3, ShapesAre
<1>5. m.elements \in Int
  BY SoundFacts
<1> HIDE DEF shape
<1>6. shape \in Seq(Nat) => Sound(Put(WithTensor(m, shape, m.elements), i.a, Word(Len(m.tensors) + 1, "Tensor")))
  BY <1>5, SoundWithTensor
<1> QED
  BY <1>1, <1>2, <1>4, <1>6, KeepsDone, KeepsNothing

LEMMA TraceDispatch ==
  ASSUME NEW m, NEW i
  PROVE  /\ i.op \in TraceMoves => TraceExecute(m, i) = TraceMove(m, i)
         /\ i.op \in Calculations => TraceExecute(m, i) = TraceCalculate(m, i)
         /\ i.op \in {"Div", "Mod"} => TraceExecute(m, i) = TraceDivide(m, i)
         /\ i.op \in Comparisons => TraceExecute(m, i) = TraceCompare(m, i)
         /\ i.op = "Cmp" => TraceExecute(m, i) = TraceCmp(m, i)
         /\ i.op = "Store" => TraceExecute(m, i) = TraceStore(m, i)
         /\ i.op = "Push" => TraceExecute(m, i) = TracePush(m, i)
         /\ i.op \in Makes => TraceExecute(m, i) = TraceMake(m, i)
         /\ i.op \in DOMAIN Opened => TraceExecute(m, i) = TraceOpen(m, i)
         /\ i.op \in {"TMatMul", "TRMSNorm"} => TraceExecute(m, i) = TraceTensor(m, i)
         /\ i.op \in Jumps => TraceExecute(m, i) = TraceJump(m, i)
BY DEF TraceExecute, TraceMoves, Calculations, Trits, BitOps, Sums, Comparisons, Makes, Opened, Jumps

THEOREM SoundTraced ==
  ASSUME NEW m, Sound(m), NEW i \in Insns, i.op \in Recorded, reg_ok(m, i), Forges(m, i) = {}
  PROVE  Sound(Traced(m, i).m)
<1>0. {i.a, i.b, i.c} \subseteq Int
  BY InsnAssumption
<1>1. Keeps(TraceExecute(m, i))
  <2>1. CASE i.op \in TraceMoves
    BY <2>1, TraceDispatch, KeepsMove
  <2>2. CASE i.op \in Calculations \cup {"Div", "Mod"} \cup Comparisons \cup {"Cmp"}
    BY <2>2, TraceDispatch, KeepsNumbers
  <2>3. CASE i.op \in {"Store", "Push"} \cup Jumps
    BY <2>3, TraceDispatch, KeepsStores
  <2>4. CASE i.op \in Makes
    BY <1>0, <2>4, TraceDispatch, KeepsMake
  <2>5. CASE i.op \in DOMAIN Opened
    BY <2>5, TraceDispatch, NamedAre, KeepsOpen
  <2>6. CASE i.op \in {"TMatMul", "TRMSNorm"}
    <3>1. i.op \in TensorOps
      BY <2>6 DEF TensorOps
    <3> QED
      BY <2>6, <3>1, TraceDispatch, NamedAre, KeepsTensor
  <2> QED
    BY <2>1, <2>2, <2>3, <2>4, <2>5, <2>6 DEF Recorded
<1> DEFINE done == TraceExecute(m, i)
           n == IF done = GivesUp THEN m ELSE done[1]
<1>2. Sound(n)
  BY <1>1 DEF Keeps, Done
<1>3. Traced(m, i).m = Flagged(n, i)
  BY DEF Traced
<1> HIDE DEF n
<1> QED
  BY <1>2, <1>3, SoundFlags DEF Flagged

(************************** no handle dangles ******************************)
BothSound == "ForgesHandle" \notin departed => Sound(vm) /\ Sound(tr)

LEMMA StartsSound == Init => BothSound
BY StartAssumption DEF Init, BothSound, Sound

LEMMA ForgesAre == \A m, i : Forges(m, i) = {} \/ "ForgesHandle" \in Forges(m, i)
BY DEF Forges, Way

(* A trace that gives up has set the flags at most.                        *)
LEMMA GaveUp ==
  ASSUME NEW m, HasFields(m), NEW i, i.op \in Recorded, Traced(m, i).deopt
  PROVE  /\ Traced(m, i).m = Flagged(m, i)
         /\ Traced(m, i).m = m \/ Traced(m, i).m = update_flags(m, m.reg[i.a].n)
         /\ Differs(m, Traced(m, i).m, {"flag"})
         /\ Forges(Traced(m, i).m, i) = Forges(m, i)
<1>1. Traced(m, i).m = Flagged(m, i)
  BY DEF Traced
<1>2. Flagged(m, i) = m \/ Flagged(m, i) = update_flags(m, m.reg[i.a].n)
  BY DEF Flagged
<1>3. Differs(m, m, {"flag"}) /\ Differs(m, update_flags(m, m.reg[i.a].n), {"flag"})
  BY FlagsAre DEF Differs
<1> DEFINE n == Traced(m, i).m
<1>4. Differs(m, n, {"flag"})
  BY <1>1, <1>2, <1>3
<1> HIDE DEF n
<1>5. n.tensors = m.tensors
  BY <1>4 DEF Differs
<1>6. i.op # "MetaRefine"
  BY DEF Recorded, TraceMoves, Calculations, Trits, BitOps, Sums, Comparisons, Makes, Opened, Jumps
<1>7. Forged(n, i) = Forged(m, i)
  BY <1>6 DEF Forged, CommandsRead
<1>8. Forges(n, i) = Forges(m, i)
  BY <1>5, <1>7 DEF Forges
<1> QED
  BY <1>1, <1>2, <1>4, <1>8 DEF n

LEMMA StaysSound == BothSound /\ [Next]_vars => BothSound'
<1> SUFFICES ASSUME BothSound, [Next]_vars, "ForgesHandle" \notin departed'
             PROVE  Sound(vm)' /\ Sound(tr)'
  BY DEF BothSound
<1>1. CASE UNCHANGED vars
  <2>1. vm' = vm /\ tr' = tr
    BY <1>1 DEF vars
  <2>2. "ForgesHandle" \notin departed
    BY <1>1 DEF vars
  <2>3. Sound(vm) /\ Sound(tr)
    BY <2>2 DEF BothSound
  <2> QED
    BY <2>1, <2>3
<1>2. ASSUME NEW i \in Insns, Execute(i)
      PROVE  Sound(vm)' /\ Sound(tr)'
  <2>1. Sound(vm) /\ Sound(tr)
    BY <1>2 DEF BothSound, Execute
  <2>2. DOMAIN vm.reg = DOMAIN tr.reg
    BY <2>1, SoundFacts
  <2>3. CASE ~reg_ok(vm, i)
    <3>1. Sound(Interp(vm, i)) /\ Sound(Interp(tr, i))
      BY <2>1, <2>2, <2>3, SoundTrap DEF Interp, reg_ok
    <3>2. vm' = Interp(vm, i) /\ tr' = Interp(tr, i)
      BY <1>2, <2>2, <2>3 DEF Execute, reg_ok
    <3> QED
      BY <3>1, <3>2
  <2>4. CASE reg_ok(vm, i)
    <3>1. Forges(vm, i) = {} /\ Forges(tr, i) = {}
      BY <1>2, <2>4, ForgesAre DEF Execute, Departures
    <3>2. vm' = Interp(vm, i) /\ Sound(Interp(vm, i)) /\ Sound(Interp(tr, i))
      BY <1>2, <2>1, <3>1, SoundInterp DEF Execute
    <3>3. i.op \in Recorded => Sound(Traced(tr, i).m)
      BY <2>1, <2>2, <2>4, <3>1, SoundTraced DEF reg_ok
    <3>4. i.op \in Recorded /\ Traced(tr, i).deopt => Sound(Interp(Traced(tr, i).m, i))
      BY <2>1, <3>1, <3>3, GaveUp, SoundFacts, SoundInterp
    <3>5. Sound(tr')
      BY <1>2, <3>2, <3>3, <3>4 DEF Execute
    <3> QED
      BY <3>2, <3>5
  <2> QED
    BY <2>3, <2>4
<1> QED
  BY <1>1, <1>2 DEF Next

(* No handle dangles in either machine, whatever instructions come, unless *)
(* a refinement or a literal has made a handle of a number.                *)
THEOREM NeverDangles == Spec => []HandlesLive
<1>1. Init => BothSound
  BY StartsSound
<1>2. BothSound /\ [Next]_vars => BothSound'
  BY StaysSound
<1>3. BothSound => HandlesLive
  BY DEF BothSound, Sound, HandlesLive
<1> QED
  BY <1>1, <1>2, <1>3, PTL DEF Spec

(********************** instructions that trap *****************************)
(* Nothing has happened but the trap, if there is one.                     *)
Fails(m, n) == n.trap = m.trap \/ \E x : n = Trapped(m, x)
Runs(m, n) == HasFields(n) /\ n.trap = m.trap

LEMMA RunsPut ==
  ASSUME NEW m, HasFields(m), NEW r, NEW w
  PROVE  Runs(m, Put(m, r, w)) /\ Runs(m, set_reg(m, r, w))
<1>1. Runs(m, Put(m, r, w))
  <2> HIDE DEF HasFields
  <2>1. Differs(m, Put(m, r, w), {"reg"})
    BY PutIs
  <2> QED
    BY <2>1 DEF Runs, Differs
<1> QED
  BY <1>1 DEF Runs, set_reg

LEMMA RunsFlags ==
  ASSUME NEW m, HasFields(m), NEW x
  PROVE  Runs(m, update_flags(m, x))
<1>1. Differs(m, update_flags(m, x), {"flag"})
  BY FlagsAre
<1> QED
  BY <1>1 DEF Runs, Differs

LEMMA RunsInt ==
  ASSUME NEW m, HasFields(m), NEW r, NEW w, NEW x
  PROVE  PutInt(m, r, x).trap = m.trap /\ SetAndFlag(m, r, w).trap = m.trap
         /\ update_flags(Put(m, r, w), x).trap = m.trap /\ update_flags(set_reg(m, r, w), x).trap = m.trap
BY RunsPut, RunsFlags DEF Runs, PutInt, SetAndFlag

LEMMA RunsFields ==
  ASSUME NEW m, HasFields(m), NEW x
  PROVE  /\ Runs(m, [m EXCEPT !.mem = x]) /\ Runs(m, [m EXCEPT !.sp = x]) /\ Runs(m, [m EXCEPT !.pc = x])
         /\ Runs(m, [m EXCEPT !.printed = x]) /\ Runs(m, [m EXCEPT !.reflections = x])
         /\ Runs(m, [m EXCEPT !.options = x]) /\ Runs(m, [m EXCEPT !.results = x])
         /\ Runs(m, [m EXCEPT !.enums = x]) /\ Runs(m, [m EXCEPT !.complexes = x])
<1>1. ASSUME NEW n, \E f \in {"mem", "sp", "pc", "printed", "reflections", "options", "results", "enums", "complexes"} :
                      Differs(m, n, {f})
      PROVE  Runs(m, n)
  BY <1>1 DEF Differs, Runs
<1>2. /\ Differs(m, [m EXCEPT !.mem = x], {"mem"}) /\ Differs(m, [m EXCEPT !.sp = x], {"sp"})
      /\ Differs(m, [m EXCEPT !.pc = x], {"pc"}) /\ Differs(m, [m EXCEPT !.printed = x], {"printed"})
      /\ Differs(m, [m EXCEPT !.reflections = x], {"reflections"}) /\ Differs(m, [m EXCEPT !.options = x], {"options"})
      /\ Differs(m, [m EXCEPT !.results = x], {"results"}) /\ Differs(m, [m EXCEPT !.enums = x], {"enums"})
      /\ Differs(m, [m EXCEPT !.complexes = x], {"complexes"})
  BY FieldsAre
<1> QED
  BY <1>1, <1>2

Allocated(m, n, r) ==
  Runs(m, n) /\ n.mem = m.mem /\ n.reg = [m.reg EXCEPT ![r] = Word(Len(m.tensors) + 1, "Tensor")]

LEMMA RunsAlloc ==
  ASSUME NEW m, HasFields(m), NEW r, NEW shape
  PROVE  AllocTensor(m, r, shape) = Trapped(m, "SecurityFault") \/ Allocated(m, AllocTensor(m, r, shape), r)
<1> DEFINE e == m.elements + Elements(shape)
           g == WithTensor(m, shape, e)
           w == Word(Len(m.tensors) + 1, "Tensor")
<1>1. AllocTensor(m, r, shape) = Trapped(m, "SecurityFault") \/ AllocTensor(m, r, shape) = Put(g, r, w)
  BY AllocIs DEF AllocTensor
<1>2. Differs(m, g, {"tensors", "elements"})
  BY WithTensorIs
<1> HIDE DEF g, w
<1>3. HasFields(g) /\ g.trap = m.trap /\ g.mem = m.mem /\ g.reg = m.reg
  BY <1>2 DEF Differs
<1>4. Differs(g, Put(g, r, w), {"reg"}) /\ Put(g, r, w).reg = [g.reg EXCEPT ![r] = w]
  BY <1>3, PutIs
<1>5. HasFields(Put(g, r, w)) /\ Put(g, r, w).trap = m.trap /\ Put(g, r, w).mem = m.mem
  BY <1>3, <1>4 DEF Differs
<1> QED
  BY <1>1, <1>3, <1>4, <1>5 DEF Allocated, Runs, w

LEMMA FailsCalculations ==
  ASSUME NEW m, HasFields(m), NEW i
  PROVE  /\ Fails(m, Calculate(m, i)) /\ Fails(m, Divide(m, i)) /\ Fails(m, Compare(m, i)) /\ Fails(m, Jump(m, i))
         /\ Fails(m, AxRead(m, i)) /\ Fails(m, AxSet(m, i)) /\ Fails(m, AxVerify(m, i)) /\ Fails(m, TNorm(m, i))
         /\ Fails(m, AssertHolds(m, i)) /\ Fails(m, AxCheck(m, i)) /\ Fails(m, PrintOut(m, i))
<1>1. Fails(m, Calculate(m, i))
  BY RunsInt DEF Fails, Calculate
<1>2. Fails(m, Divide(m, i))
  BY RunsInt DEF Fails, Divide
<1>3. Fails(m, Compare(m, i))
  BY RunsInt, RunsFlags DEF Fails, Compare, Ordered, Runs
<1>4. Fails(m, Jump(m, i))
  BY RunsFields DEF Fails, Jump, Runs
<1>5. Fails(m, AxRead(m, i)) /\ Fails(m, AxSet(m, i)) /\ Fails(m, AxVerify(m, i))
  BY RunsInt DEF Fails, AxRead, AxSet, AxVerify
<1>6. Fails(m, TNorm(m, i)) /\ Fails(m, AssertHolds(m, i)) /\ Fails(m, AxCheck(m, i))
  BY RunsInt DEF Fails, TNorm, AssertHolds, AxCheck
<1>7. Fails(m, PrintOut(m, i))
  BY RunsFields DEF Fails, PrintOut, Runs
<1> QED
  BY <1>1, <1>2, <1>3, <1>4, <1>5, <1>6, <1>7

LEMMA FailsMoves ==
  ASSUME NEW m, HasFields(m), NEW i
  PROVE  /\ Fails(m, SetFlag(m, i)) /\ Fails(m, LoadImm(m, i)) /\ Fails(m, Mov(m, i)) /\ Fails(m, Load(m, i))
         /\ Fails(m, Store(m, i)) /\ Fails(m, Push(m, i)) /\ Fails(m, Pop(m, i)) /\ Fails(m, Copy(m, i))
<1>1. Fails(m, SetFlag(m, i)) /\ Fails(m, LoadImm(m, i)) /\ Fails(m, Mov(m, i)) /\ Fails(m, Load(m, i))
  BY RunsInt DEF Fails, SetFlag, LoadImm, Mov, Load
<1>2. Fails(m, Store(m, i))
  <2>1. [m EXCEPT !.mem[i.a] = m.reg[i.b]].trap = m.trap
    BY StoreIs, RunsFields DEF Runs
  <2> QED
    BY <2>1 DEF Fails, Store
<1>3. Fails(m, Push(m, i))
  <2> DEFINE n == [m EXCEPT !.sp = m.sp - 1]
  <2>1. Push(m, i) = Trapped(m, "StackFault") \/ Push(m, i) = Pushed(m, i.a)
    BY DEF Push, Pushed
  <2>2. Pushed(m, i.a) = [n EXCEPT !.mem = [n.mem EXCEPT ![m.sp - 1] = m.reg[i.a]]]
    BY PushedIs, StoreIs
  <2>3. Runs(m, n)
    BY RunsFields
  <2> HIDE DEF n
  <2>4. Pushed(m, i.a).trap = m.trap
    BY <2>2, <2>3, RunsFields DEF Runs
  <2> QED
    BY <2>1, <2>4 DEF Fails
<1>4. Fails(m, Pop(m, i))
  <2> DEFINE n == Put(m, i.a, m.mem[m.sp])
  <2>1. Pop(m, i) = Trapped(m, "StackFault") \/ Pop(m, i) = update_flags([n EXCEPT !.sp = n.sp + 1], m.mem[m.sp].n)
    BY DEF Pop
  <2>2. Runs(m, n)
    BY RunsPut
  <2> HIDE DEF n
  <2>3. HasFields(n) /\ n.trap = m.trap
    BY <2>2 DEF Runs
  <2>4. Runs(n, [n EXCEPT !.sp = n.sp + 1])
    BY <2>3, RunsFields
  <2>5. update_flags([n EXCEPT !.sp = n.sp + 1], m.mem[m.sp].n).trap = m.trap
    BY <2>3, <2>4, RunsFlags DEF Runs
  <2> QED
    BY <2>1, <2>5 DEF Fails
<1>5. Fails(m, Copy(m, i))
  <2> DEFINE f == CopyWords(m.mem, m.reg[i.a].n, m.reg[i.b].n, m.reg[i.c].n)
  <2>1. Copy(m, i) = Trapped(m, "BoundsFault") \/ Copy(m, i) = [m EXCEPT !.mem = f]
    BY DEF Copy
  <2> HIDE DEF f
  <2>2. [m EXCEPT !.mem = f].trap = m.trap
    BY RunsFields DEF Runs
  <2> QED
    BY <2>1, <2>2 DEF Fails
<1> QED
  BY <1>1, <1>2, <1>3, <1>4, <1>5

LEMMA FailsPools ==
  ASSUME NEW m, HasFields(m), NEW i
  PROVE  /\ i.op \in Makes => Fails(m, Make(m, i))
         /\ Fails(m, Open(m, i))
<1>1. ASSUME NEW x
      PROVE  InternOption(m, i, x).trap = m.trap /\ InternResult(m, i, x).trap = m.trap
             /\ InternEnum(m, i, x).trap = m.trap /\ InternComplex(m, i, x).trap = m.trap
  <2>1. \A p, h, tag : Runs(m, p) => PutHandle(p, i, h, tag).trap = m.trap
    BY RunsInt DEF PutHandle, Runs
  <2>2. Runs(m, m)
    BY DEF Runs
  <2> QED
    BY <2>1, <2>2, RunsFields DEF InternOption, InternResult, InternEnum, InternComplex
<1>2. i.op \in Makes => Fails(m, Make(m, i))
  <2>1. \/ \E x : Make(m, i) = Trapped(m, x)
        \/ \E x : \/ Make(m, i) = InternOption(m, i, x) \/ Make(m, i) = InternResult(m, i, x)
                  \/ Make(m, i) = InternEnum(m, i, x) \/ Make(m, i) = InternComplex(m, i, x)
    BY DEF Make
  <2> QED
    BY <1>1, <2>1 DEF Fails
<1>3. Fails(m, Open(m, i))
  BY RunsInt DEF Open, Fails
<1> QED
  BY <1>2, <1>3

LEMMA FailsMeta ==
  ASSUME NEW m, HasFields(m), NEW i
  PROVE  /\ Fails(m, MetaRead(m, i)) /\ Fails(m, MetaWrite(m, i)) /\ Fails(m, MetaReflect(m, i))
         /\ Fails(m, MetaRefine(m, i))
<1>1. Fails(m, MetaRead(m, i))
  <2> DEFINE n == MetaRead(m, i)
  <2>1. (\E x : n = Trapped(m, x)) \/ \E w : n = update_flags(Put(m, i.a, w), w.n)
    BY DEF MetaRead
  <2> HIDE DEF n
  <2>2. \A w : update_flags(Put(m, i.a, w), w.n).trap = m.trap
    BY RunsInt
  <2>3. Fails(m, n)
    BY <2>1, <2>2 DEF Fails
  <2> QED
    BY <2>3 DEF n
<1>2. Fails(m, MetaWrite(m, i))
  <2> DEFINE address == m.reg[i.c].n
             n == [m EXCEPT !.mem[address] = m.reg[i.a]]
  <2>1. \/ \E x : MetaWrite(m, i) = Trapped(m, x)
        \/ MetaWrite(m, i) = Put(m, address, m.reg[i.a])
        \/ MetaWrite(m, i) = n
    BY DEF MetaWrite
  <2>2. n.trap = m.trap
    BY StoreIs, RunsFields DEF Runs
  <2> HIDE DEF n
  <2> QED
    BY <2>1, <2>2, RunsPut DEF Fails, Runs
<1>3. Fails(m, MetaReflect(m, i))
  <2> DEFINE n == [m EXCEPT !.reflections = m.reflections + 1]
  <2>1. \/ MetaReflect(m, i) = Trapped(m, "SecurityFault")
        \/ \E w, x : MetaReflect(m, i) = update_flags(set_reg(n, i.a, w), x)
    BY DEF MetaReflect
  <2>2. HasFields(n) /\ n.trap = m.trap
    BY RunsFields DEF Runs
  <2> HIDE DEF n
  <2> QED
    BY <2>1, <2>2, RunsInt DEF Fails
<1>4. Fails(m, MetaRefine(m, i))
  <2>1. \/ \E x : MetaRefine(m, i) = Trapped(m, x)
        \/ \E f, g, w, x : MetaRefine(m, i) = update_flags(set_reg(Refined(m, f, g), i.a, w), x)
    BY DEF MetaRefine, Refined
  <2>2. ASSUME NEW f, NEW g
        PROVE  HasFields(Refined(m, f, g)) /\ Refined(m, f, g).trap = m.trap
    BY RefinedIs DEF Differs
  <2> QED
    BY <2>1, <2>2, RunsInt DEF Fails
<1> QED
  BY <1>1, <1>2, <1>3, <1>4

(* Weights may have been decoded before a tensor instruction traps.        *)
Decoded(m, n) == n.mem = m.mem /\ n.reg # m.reg /\ \A r \in DOMAIN m.reg : n.reg[r] # m.reg[r] => m.reg[r].tag = "Weights"
Decodes(m, n) ==
  /\ Runs(m, n) /\ n.mem = m.mem /\ DOMAIN n.reg = DOMAIN m.reg
  /\ \A r \in DOMAIN m.reg : n.reg[r] # m.reg[r] => m.reg[r].tag = "Weights" /\ n.reg[r].tag = "Tensor"
  /\ n = m \/ n.reg # m.reg
FailsOrDecodes(m, n) ==
  \/ Fails(m, n)
  \/ Decoded(m, n)

IsMap(f) == f = [x \in DOMAIN f |-> f[x]]

LEMMA PromoteDecodes ==
  ASSUME NEW m, HasFields(m), NEW p, Decodes(m, p), IsMap(p.reg), NEW r \in DOMAIN m.reg
  PROVE  LET n == promote_to_tensor(p, r)
         IN \/ n = Trapped(p, "SecurityFault")
            \/ Decodes(m, n) /\ IsMap(n.reg)
<1> DEFINE n == AllocTensor(p, r, <<2>>)
           w == Word(Len(p.tensors) + 1, "Tensor")
<1>1. CASE p.reg[r].tag # "Weights"
  BY <1>1 DEF promote_to_tensor
<1>2. CASE p.reg[r].tag = "Weights"
  <2>1. HasFields(p) /\ p.trap = m.trap /\ p.mem = m.mem /\ DOMAIN p.reg = DOMAIN m.reg
    BY DEF Decodes, Runs
  <2>2. n = Trapped(p, "SecurityFault") \/ (Runs(p, n) /\ n.mem = p.mem /\ n.reg = [p.reg EXCEPT ![r] = w])
    BY <2>1, RunsAlloc DEF Allocated
  <2>3. promote_to_tensor(p, r) = n
    BY <1>2 DEF promote_to_tensor
  <2> HIDE DEF n
  <2>4. w.tag = "Tensor"
    BY DEF Word
  <2> HIDE DEF w
  <2>5. CASE Runs(p, n) /\ n.mem = p.mem /\ n.reg = [p.reg EXCEPT ![r] = w]
    <3>1. Runs(m, n) /\ n.mem = m.mem /\ DOMAIN n.reg = DOMAIN m.reg
      BY <2>1, <2>5 DEF Runs
    <3>2. p.reg[r] = m.reg[r] /\ n.reg[r] = w
      BY <1>2, <2>1, <2>5 DEF Decodes
    <3>3. \A x \in DOMAIN m.reg : n.reg[x] # m.reg[x] => m.reg[x].tag = "Weights" /\ n.reg[x].tag = "Tensor"
      BY <1>2, <2>1, <2>4, <2>5, <3>2 DEF Decodes
    <3>4. n.reg # m.reg
      BY <1>2, <2>4, <3>2
    <3>5. IsMap(n.reg)
      BY <2>5 DEF IsMap
    <3> QED
      BY <2>3, <3>1, <3>3, <3>4, <3>5 DEF Decodes
  <2> QED
    BY <2>2, <2>3, <2>5
<1> QED
  BY <1>1, <1>2

(* A trap after weights were decoded.                                      *)
LEMMA DecodedTrap ==
  ASSUME NEW m, HasFields(m), NEW p, Decodes(m, p), NEW x
  PROVE  FailsOrDecodes(m, Trapped(p, x))
<1>1. CASE p = m
  BY <1>1 DEF FailsOrDecodes, Fails
<1>2. CASE p # m
  <2>1. HasFields(p) /\ p.mem = m.mem /\ p.reg # m.reg
    BY <1>2 DEF Decodes, Runs
  <2>2. Differs(p, Trapped(p, x), {"trap"})
    BY <2>1, TrapIs
  <2>3. Trapped(p, x).mem = p.mem /\ Trapped(p, x).reg = p.reg
    BY <2>2 DEF Differs
  <2> QED
    BY <2>1, <2>3 DEF FailsOrDecodes, Decoded, Decodes
<1> QED
  BY <1>1, <1>2

LEMMA FailsTensors ==
  ASSUME NEW m, HasFields(m), IsMap(m.reg), NEW i, m.trap = "None"
  PROVE  /\ {i.b, i.c} \subseteq DOMAIN m.reg => FailsOrDecodes(m, TensorOp(m, i))
         /\ i.b \in DOMAIN m.reg => FailsOrDecodes(m, UnaryTensorOp(m, i))
<1>0. Decodes(m, m)
  BY DEF Decodes, Runs
<1>1. ASSUME NEW p, Decodes(m, p)
      PROVE  /\ FailsOrDecodes(m, p)
             /\ \A r, shape : FailsOrDecodes(m, AllocTensor(p, r, shape))
             /\ \A x : FailsOrDecodes(m, Trapped(p, x))
             /\ p.trap = "None"
  <2>1. HasFields(p) /\ p.trap = m.trap
    BY <1>1 DEF Decodes, Runs
  <2>2. \A x : FailsOrDecodes(m, Trapped(p, x))
    BY <1>1, DecodedTrap
  <2>3. ASSUME NEW r, NEW shape
        PROVE  FailsOrDecodes(m, AllocTensor(p, r, shape))
    <3>1. AllocTensor(p, r, shape) = Trapped(p, "SecurityFault") \/ AllocTensor(p, r, shape).trap = p.trap
      <4>1. AllocTensor(p, r, shape) = Trapped(p, "SecurityFault") \/ Allocated(p, AllocTensor(p, r, shape), r)
        BY <2>1, RunsAlloc
      <4> QED
        BY <4>1 DEF Allocated, Runs
    <3> QED
      BY <2>1, <2>2, <3>1 DEF FailsOrDecodes, Fails
  <2> QED
    BY <2>1, <2>2, <2>3 DEF FailsOrDecodes, Fails
<1>2. ASSUME NEW p, Decodes(m, p), NEW x
      PROVE  Trapped(p, x).trap = x
  BY <1>2, TrapIs DEF Decodes, Runs
<1>3. ASSUME {i.b, i.c} \subseteq DOMAIN m.reg
      PROVE  FailsOrDecodes(m, TensorOp(m, i))
  <2> DEFINE first == promote_to_tensor(m, i.b)
             both == IF first.trap = "None" THEN promote_to_tensor(first, i.c) ELSE first
  <2>1. \/ first = Trapped(m, "SecurityFault")
        \/ Decodes(m, first) /\ IsMap(first.reg)
    BY <1>0, <1>3, PromoteDecodes
  <2>2. (\E p : Decodes(m, p) /\ both = Trapped(p, "SecurityFault")) \/ Decodes(m, both)
    <3>1. CASE first = Trapped(m, "SecurityFault")
      BY <1>0, <1>2, <3>1
    <3>2. CASE Decodes(m, first) /\ IsMap(first.reg)
      <4> HIDE DEF first
      <4> QED
        BY <1>1, <1>3, <3>2, PromoteDecodes
    <3> QED
      BY <2>1, <3>1, <3>2
  <2>3. \/ TensorOp(m, i) = both
        \/ \E x : both.trap = "None" /\ TensorOp(m, i) = Trapped(both, x)
        \/ \E r, shape : both.trap = "None" /\ TensorOp(m, i) = AllocTensor(both, r, shape)
    BY DEF TensorOp
  <2> HIDE DEF both
  <2>4. CASE Decodes(m, both)
    BY <1>1, <2>3, <2>4
  <2>5. CASE \E p : Decodes(m, p) /\ both = Trapped(p, "SecurityFault")
    BY <1>1, <1>2, <2>3, <2>5
  <2> QED
    BY <2>2, <2>4, <2>5
<1>4. ASSUME i.b \in DOMAIN m.reg
      PROVE  FailsOrDecodes(m, UnaryTensorOp(m, i))
  <2> DEFINE first == promote_to_tensor(m, i.b)
  <2>1. first = Trapped(m, "SecurityFault") \/ Decodes(m, first)
    BY <1>0, <1>4, PromoteDecodes
  <2>2. \/ UnaryTensorOp(m, i) = first
        \/ \E x : first.trap = "None" /\ UnaryTensorOp(m, i) = Trapped(first, x)
        \/ \E r, shape : first.trap = "None" /\ UnaryTensorOp(m, i) = AllocTensor(first, r, shape)
    BY DEF UnaryTensorOp
  <2> HIDE DEF first
  <2>3. CASE Decodes(m, first)
    BY <1>1, <2>2, <2>3
  <2>4. CASE first = Trapped(m, "SecurityFault")
    BY <1>0, <1>1, <1>2, <2>2, <2>4
  <2> QED
    BY <2>1, <2>3, <2>4
<1> QED
  BY <1>3, <1>4

(* Zeroing may have begun before it traps.                                 *)
HalfZeroed(m, n) ==
  LET zeroed == {a \in DOMAIN m.mem : n.mem[a] # m.mem[a]}
  IN /\ n.trap = "BoundsFault"
     /\ n = [m EXCEPT !.mem = [a \in DOMAIN @ |-> IF a \in zeroed THEN Word(0, "Int") ELSE @[a]], !.trap = n.trap]

LEMMA FailsMemZero ==
  ASSUME NEW m, HasFields(m), m.mem = [a \in DOMAIN m.mem |-> m.mem[a]], NEW i
  PROVE  MemZero(m, i).trap = m.trap \/ HalfZeroed(m, MemZero(m, i))
<1> DEFINE wanted == AddressesFrom(m, i.a, m.reg[i.b].n)
           reached == {w \in wanted : \A v \in wanted : v <= w => mem_ok(v)}
           f == [w \in DOMAIN m.mem |-> IF w \in reached THEN Word(0, "Int") ELSE m.mem[w]]
           k == [m EXCEPT !.mem = f]
           n == MemZero(m, i)
           zeroed == {a \in DOMAIN m.mem : n.mem[a] # m.mem[a]}
           g == [a \in DOMAIN m.mem |-> IF a \in zeroed THEN Word(0, "Int") ELSE m.mem[a]]
<1>1. n = k \/ n = Trapped(k, "BoundsFault")
  BY DEF MemZero
<1>3. \A a \in DOMAIN m.mem : f[a] = Word(0, "Int") \/ f[a] = m.mem[a]
  OBVIOUS
<1>4. f = [a \in DOMAIN m.mem |-> f[a]]
  OBVIOUS
<1> HIDE DEF f, n
<1>2. Runs(m, k) /\ k.mem = f
  BY RunsFields, MemIs
<1>5. CASE n = k
  <2> HIDE DEF k
  <2> QED
    BY <1>2, <1>5 DEF Runs, n
<1>6. CASE n = Trapped(k, "BoundsFault")
  <2> HIDE DEF k
  <2>1. Differs(k, n, {"trap"}) /\ n.trap = "BoundsFault"
    BY <1>2, <1>6, TrapIs DEF Runs
  <2>2. n.mem = f
    BY <1>2, <2>1 DEF Differs
  <2>3. g = f
    BY <1>3, <1>4, <2>2
  <2>4. n = [m EXCEPT !.mem = f, !.trap = n.trap]
    <3>1. n = [k EXCEPT !.trap = "BoundsFault"]
      BY <1>6 DEF Trapped
    <3>2. n = [[m EXCEPT !.mem = f] EXCEPT !.trap = n.trap]
      BY <2>1, <3>1 DEF k
    <3> QED
      BY <3>2 DEF HasFields
  <2> HIDE DEF zeroed
  <2>5. n = [m EXCEPT !.mem = g, !.trap = n.trap]
    <3> HIDE DEF g
    <3> QED
      BY <2>3, <2>4
  <2> QED
    BY <2>1, <2>5 DEF n, zeroed, g, HalfZeroed
<1> QED
  BY <1>1, <1>5, <1>6
(* What an instruction does is done whole, or nothing is but the trap.     *)
LEMMA FailsInterp ==
  ASSUME NEW m, Sound(m), m.trap = "None", NEW i \in Insns, reg_ok(m, i), i.op # "MemZero"
  PROVE  FailsOrDecodes(m, Handler(m, i))
<1>0. i.op \in Opcodes /\ HasFields(m) /\ IsMap(m.reg) /\ DOMAIN m.reg = Registers
  BY InsnAssumption, SoundFacts DEF IsMap
<1>1. CASE i.op \in Calculations \cup {"Div", "Mod"} \cup Comparisons \cup {"Cmp"} \cup Jumps
  BY <1>0, <1>1, Dispatch, FailsCalculations DEF FailsOrDecodes
<1>2. CASE i.op \in Makes \cup DOMAIN Opened
  BY <1>0, <1>2, Dispatch, FailsPools DEF FailsOrDecodes
<1>3. CASE i.op \in TensorOps
  BY <1>0, <1>3, Dispatch, NamedAre, FailsTensors
<1>4. CASE i.op \in UnaryTensorOps
  BY <1>0, <1>4, Dispatch, NamedAre, FailsTensors
<1>5. CASE i.op \in Unimplemented \cup Blocked \cup {"Trap"}
  BY <1>5, Dispatch DEF FailsOrDecodes, Fails
<1>6. CASE i.op \in TraceMoves \cup {"Store", "Push", "Copy"}
  BY <1>0, <1>6, Dispatch, FailsMoves DEF FailsOrDecodes, TraceMoves
<1>7. CASE i.op \in {"AxRead", "AxSet", "AxReport", "AxVerify", "TNorm", "Assert", "AxCheck", "Print"}
  BY <1>0, <1>7, Dispatch, FailsCalculations DEF FailsOrDecodes
<1>8. CASE i.op \in {"MetaRead", "MetaWrite", "MetaReflect", "MetaRefine"}
  BY <1>0, <1>8, Dispatch, FailsMeta DEF FailsOrDecodes
<1>9. \/ i.op \in Calculations \cup {"Div", "Mod"} \cup Comparisons \cup {"Cmp"} \cup Jumps \cup Makes \cup DOMAIN Opened
      \/ i.op \in TensorOps \cup UnaryTensorOps \cup Unimplemented \cup Blocked \cup {"Trap"} \cup TraceMoves
      \/ i.op \in {"Store", "Push", "Copy"}
      \/ i.op \in {"AxRead", "AxSet", "AxReport", "AxVerify", "TNorm", "Assert", "AxCheck", "Print"}
      \/ i.op \in {"MetaRead", "MetaWrite", "MetaReflect", "MetaRefine"}
  BY <1>0 DEF Opcodes, Recorded, AllocatesTensor, TensorOps
<1> QED
  BY <1>1, <1>2, <1>3, <1>4, <1>5, <1>6, <1>7, <1>8, <1>9

(* An instruction that traps has done nothing, but for words that were     *)
(* zeroed and weights that were decoded before it.                         *)
THEOREM NothingHalfDone == Spec => FailsWhole
<1> DEFINE zeroed == {a \in DOMAIN vm.mem : vm'.mem[a] # vm.mem[a]}
           Whole == vm' = [vm EXCEPT !.trap = vm'.trap]
           Zeroed == /\ vm'.trap = "BoundsFault"
                     /\ vm' = [vm EXCEPT !.mem = [a \in DOMAIN @ |-> IF a \in zeroed THEN Word(0, "Int") ELSE @[a]],
                                         !.trap = vm'.trap]
           Promoted == /\ vm.reg # vm'.reg /\ vm.mem = vm'.mem
                       /\ \A r \in DOMAIN vm.reg : vm'.reg[r] # vm.reg[r] => vm.reg[r].tag = "Weights"
           Good == vm'.trap # "None" => Whole \/ Zeroed \/ Promoted
<1>1. Init => BothSound
  BY StartsSound
<1>2. BothSound /\ [Next]_vars => BothSound'
  BY StaysSound
<1>3. ASSUME BothSound, NEW i \in Insns, Execute(i)
      PROVE  Good
  <2>1. Sound(vm) /\ HasFields(vm) /\ vm.trap = "None" /\ vm' = Interp(vm, i)
    BY <1>3, SoundFacts DEF BothSound, Execute
  <2>2. ASSUME NEW x, vm' = Trapped(vm, x)
        PROVE  Whole
    <3>1. vm'.trap = x
      BY <2>1, <2>2, TrapIs
    <3> QED
      BY <2>2, <3>1 DEF Trapped
  <2>3. CASE ~reg_ok(vm, i)
    BY <2>1, <2>2, <2>3 DEF Interp
  <2>4. CASE reg_ok(vm, i) /\ i.op = "MemZero"
    <3>1. vm' = MemZero(vm, i)
      BY <2>1, <2>4, Dispatch DEF Interp
    <3>2. vm.mem = [a \in DOMAIN vm.mem |-> vm.mem[a]]
      BY <2>1, SoundFacts
    <3>3. vm'.trap = vm.trap \/ Zeroed
      <4>1. vm'.trap = vm.trap \/ HalfZeroed(vm, vm')
        BY <2>1, <3>1, <3>2, FailsMemZero
      <4> QED
        BY <4>1 DEF HalfZeroed
    <3> QED
      BY <2>1, <3>3
  <2>5. CASE reg_ok(vm, i) /\ i.op # "MemZero"
    <3>1. FailsOrDecodes(vm, vm')
      BY <2>1, <2>5, FailsInterp DEF Interp
    <3> QED
      BY <2>1, <2>2, <3>1 DEF FailsOrDecodes, Fails, Decoded
  <2> QED
    BY <2>3, <2>4, <2>5
<1>4. BothSound /\ [Next]_vars => [Good]_vars
  BY <1>3 DEF Next
<1> QED
  BY <1>1, <1>2, <1>4, PTL DEF Spec, FailsWhole

(************************ two machines that agree **************************)
(* Words that stand for the same: R pairs handles of the two machines, and *)
(* other words are the same.                                               *)
Twin(m, R, v, w) == <<v, w>> \in R \/ (v = w /\ v \in LiveWords(m) /\ v.tag \notin Handles)
Relations == SUBSET (Words \X Words)
Bisim(m, k, R) ==
  \A v, w \in Words : <<v, w>> \in R =>
    /\ v \in LiveWords(m) /\ w \in LiveWords(k) /\ v.tag = w.tag /\ v.tag \in Handles
    /\ Seen(m, v) = Seen(k, w)
    /\ Twin(m, R, Inside(m, v), Inside(k, w))
(* The second machine accounts for fewer elements of tensors.              *)
Alike(m, k, R) ==
  /\ R \in Relations /\ Bisim(m, k, R)
  /\ \A r \in Registers : Twin(m, R, m.reg[r], k.reg[r])
  /\ \A a \in Addresses : Twin(m, R, m.mem[a], k.mem[a])
  /\ m.sp = k.sp /\ m.tensors = k.tensors /\ m.reflections = k.reflections /\ m.pc = k.pc /\ m.trap = k.trap
  /\ m.printed = k.printed /\ k.elements <= m.elements
Pair(m, k, R) == Sound(m) /\ Sound(k) /\ Alike(m, k, R)
Same(m, k, R) == Pair(m, k, R) /\ (m.trap = "None" => m.flag = k.flag)

(* What is inside a live word is live.                                     *)
LEMMA InsideIs ==
  ASSUME NEW m, Sound(m), NEW w \in LiveWords(m)
  PROVE  Inside(m, w) \in LiveWords(m)
BY EntryIs DEF Inside

LEMMA LayersAre ==
  ASSUME NEW m, Sound(m), NEW w \in LiveWords(m), NEW depth \in Nat
  PROVE  /\ Layers(m, w, depth)[0] = w
         /\ \A n \in 1..depth : Layers(m, w, depth)[n] = Inside(m, Layers(m, w, depth)[n - 1])
<1> DEFINE step == [q \in (1..depth) \X LiveWords(m) |-> Inside(m, q[2])]
           Body(g) == [n \in 0..depth |-> IF n = 0 THEN w ELSE Inside(m, g[n - 1])]
           layers == CHOOSE g : g = Body(g)
<1>1. StepsIn(step, depth, LiveWords(m))
  BY InsideIs DEF StepsIn
<1>2. Layers(m, w, depth) = layers
  BY DEF Layers
<1> HIDE DEF step, Body, layers
<1>3. PICK g : IsRun(g, w, step, depth, LiveWords(m))
  BY <1>1, Iterates
<1>4. ASSUME NEW n \in 1..depth
      PROVE  g[n] = Inside(m, g[n - 1])
  <2>1. n - 1 \in 0..depth /\ g[n - 1] \in LiveWords(m)
    BY <1>3 DEF IsRun
  <2> QED
    BY <1>3, <2>1 DEF step, IsRun
<1>5. g = Body(g)
  BY <1>3, <1>4 DEF Body, IsRun
<1>6. layers = Body(layers)
  BY <1>5 DEF layers
<1>7. layers = [n \in 0..depth |-> IF n = 0 THEN w ELSE Inside(m, layers[n - 1])]
  BY <1>6 DEF Body
<1>8. layers[0] = w
  BY <1>7
<1>9. ASSUME NEW n \in 1..depth
      PROVE  layers[n] = Inside(m, layers[n - 1])
  <2>1. n \in 0..depth /\ n # 0
    OBVIOUS
  <2> QED
    BY <1>7, <2>1
<1> QED
  BY <1>2, <1>8, <1>9

LEMMA TwinFacts ==
  ASSUME NEW m, NEW k, NEW R, Pair(m, k, R), NEW v, NEW w, Twin(m, R, v, w)
  PROVE  /\ v \in LiveWords(m) /\ w \in LiveWords(k) /\ v \in Words /\ w \in Words /\ v.tag = w.tag
         /\ Seen(m, v) = Seen(k, w) /\ (Known(m, v) <=> Known(k, w))
         /\ v.tag \notin Handles => v = w
<1>1. CASE <<v, w>> \in R
  <2>1. v \in Words /\ w \in Words
    BY <1>1 DEF Pair, Alike, Relations
  <2>2. /\ v \in LiveWords(m) /\ w \in LiveWords(k) /\ v.tag = w.tag /\ v.tag \in Handles
        /\ Seen(m, v) = Seen(k, w)
    BY <1>1, <2>1 DEF Pair, Alike, Bisim
  <2>3. Known(m, v) <=> Known(k, w)
    BY <2>2 DEF Seen, Face
  <2> QED
    BY <2>1, <2>2, <2>3
<1>2. CASE v = w /\ v \in LiveWords(m) /\ v.tag \notin Handles
  <2>1. ~Known(m, v) /\ ~Known(k, w)
    BY <1>2 DEF Known
  <2>2. Seen(m, v) = Seen(k, w)
    BY <1>2, <2>1 DEF Seen
  <2>3. w \in LiveWords(k)
    BY <1>2 DEF LiveWords, Live, Pair, Alike
  <2> QED
    BY <1>2, <2>1, <2>2, <2>3 DEF LiveWords
<1> QED
  BY <1>1, <1>2 DEF Twin

(* What twins hold are twins.                                              *)
LEMMA TwinInside ==
  ASSUME NEW m, NEW k, NEW R, Pair(m, k, R), NEW v, NEW w, Twin(m, R, v, w)
  PROVE  Twin(m, R, Inside(m, v), Inside(k, w))
<1>1. CASE <<v, w>> \in R
  <2>1. v \in Words /\ w \in Words
    BY <1>1 DEF Pair, Alike, Relations
  <2> QED
    BY <1>1, <2>1 DEF Pair, Alike, Bisim
<1>2. CASE v = w /\ v \in LiveWords(m) /\ v.tag \notin Handles
  <2>1. ~Known(m, v) /\ ~Known(k, w)
    BY <1>2 DEF Known
  <2>2. Inside(m, v) = v /\ Inside(k, w) = w
    BY <1>2, <2>1 DEF Inside
  <2> QED
    BY <1>2, <2>2 DEF Twin
<1> QED
  BY <1>1, <1>2 DEF Twin

(* Twins look the same, however deep one looks.                            *)
LEMMA TwinFaces ==
  ASSUME NEW m, NEW k, NEW R, Pair(m, k, R), NEW v, NEW w, Twin(m, R, v, w), NEW depth \in Nat
  PROVE  Faces(m, v, depth) = Faces(k, w, depth)
<1> DEFINE f == Layers(m, v, depth)
           g == Layers(k, w, depth)
<1>1. f[0] = v /\ g[0] = w /\ \A n \in 1..depth : f[n] = Inside(m, f[n - 1]) /\ g[n] = Inside(k, g[n - 1])
  <2>1. Sound(m) /\ Sound(k) /\ v \in LiveWords(m) /\ w \in LiveWords(k)
    BY TwinFacts DEF Pair
  <2> QED
    BY <2>1, LayersAre
<1> HIDE DEF f, g
<1> DEFINE T == {n \in 0..depth : Twin(m, R, f[n], g[n])}
<1>2. 0 \in T
  BY <1>1
<1>3. ASSUME NEW n \in 0..(depth - 1), n \in T
      PROVE  n + 1 \in T
  <2>1. n + 1 \in 1..depth /\ n + 1 \in 0..depth /\ (n + 1) - 1 = n
    OBVIOUS
  <2>2. f[n + 1] = Inside(m, f[n]) /\ g[n + 1] = Inside(k, g[n])
    BY <1>1, <2>1
  <2>3. Twin(m, R, f[n], g[n])
    BY <1>3
  <2>4. Twin(m, R, Inside(m, f[n]), Inside(k, g[n]))
    BY <2>3, TwinInside
  <2> QED
    BY <2>1, <2>2, <2>4
<1> HIDE DEF T
<1>4. 0..depth \subseteq T
  BY <1>2, <1>3, UpTo
<1>5. ASSUME NEW n \in 0..depth
      PROVE  Seen(m, f[n]) = Seen(k, g[n])
  <2>1. Twin(m, R, f[n], g[n])
    BY <1>4 DEF T
  <2> QED
    BY <2>1, TwinFacts
<1> QED
  BY <1>5 DEF Faces, f, g

LEMMA TwinLooks ==
  ASSUME NEW m, NEW k, NEW R, Pair(m, k, R), NEW v, NEW w, Twin(m, R, v, w)
  PROVE  /\ format_value(m, v) = format_value(k, w)
         /\ SignOf(v.n) = SignOf(w.n) /\ (v.n = 0 <=> w.n = 0)
         /\ \A x, y : Twin(m, R, x, y) => compare_value(m, v, x) = compare_value(k, w, y)
<1>1. PrintDepth \in Nat /\ MaxNesting \in Nat
  BY LayoutAssumption
<1>2. format_value(m, v) = format_value(k, w)
  BY <1>1, TwinFaces DEF format_value
<1>3. ASSUME NEW x, NEW y, Twin(m, R, x, y)
      PROVE  compare_value(m, v, x) = compare_value(k, w, y)
  BY <1>1, <1>3, TwinFaces DEF compare_value
<1>4. ASSUME NEW p, Sound(p), NEW x \in LiveWords(p), x.tag \in Handles
      PROVE  /\ x.n \in Int
             /\ Known(p, x) => x.n > 0
             /\ ~Known(p, x) => x.n = 0
  BY <1>4, SoundPools DEF LiveWords, Live, Known, Words
<1>5. SignOf(v.n) = SignOf(w.n) /\ (v.n = 0 <=> w.n = 0)
  <2>1. CASE v.tag \in Handles
    <3>1. /\ Sound(m) /\ Sound(k) /\ v \in LiveWords(m) /\ w \in LiveWords(k)
          /\ w.tag \in Handles /\ (Known(m, v) <=> Known(k, w))
      BY <2>1, TwinFacts DEF Pair
    <3>2. /\ v.n \in Int /\ (Known(m, v) => v.n > 0) /\ (~Known(m, v) => v.n = 0)
          /\ w.n \in Int /\ (Known(k, w) => w.n > 0) /\ (~Known(k, w) => w.n = 0)
      BY <1>4, <2>1, <3>1
    <3> QED
      BY <3>1, <3>2 DEF SignOf
  <2>2. CASE v.tag \notin Handles
    <3>1. v = w
      BY <2>2, TwinFacts
    <3> QED
      BY <3>1
  <2> QED
    BY <2>1, <2>2
<1> QED
  BY <1>2, <1>3, <1>5
(* More live words leave twins twins.                                      *)
LEMMA TwinStays ==
  ASSUME NEW m, NEW n, LiveWords(m) \subseteq LiveWords(n), NEW R, NEW S, R \subseteq S, NEW v, NEW w, Twin(m, R, v, w)
  PROVE  Twin(n, S, v, w)
BY DEF Twin

LEMMA SameFacts ==
  ASSUME NEW m, NEW k, NEW R, Same(m, k, R)
  PROVE  /\ Sound(m) /\ Sound(k) /\ HasFields(m) /\ HasFields(k) /\ Pair(m, k, R)
         /\ m.sp = k.sp /\ m.tensors = k.tensors /\ m.reflections = k.reflections /\ m.pc = k.pc
         /\ m.trap = k.trap /\ m.printed = k.printed /\ k.elements <= m.elements
         /\ m.trap = "None" => m.flag = k.flag
         /\ DOMAIN m.reg = Registers /\ DOMAIN k.reg = Registers /\ DOMAIN m.mem = Addresses /\ DOMAIN k.mem = Addresses
         /\ \A r \in Registers : Twin(m, R, m.reg[r], k.reg[r])
         /\ \A a \in Addresses : Twin(m, R, m.mem[a], k.mem[a])
<1>1. Sound(m) /\ Sound(k) /\ Pair(m, k, R) /\ Alike(m, k, R) /\ (m.trap = "None" => m.flag = k.flag)
  BY DEF Same, Pair
<1>2. HasFields(m) /\ HasFields(k) /\ DOMAIN m.reg = Registers /\ DOMAIN k.reg = Registers
      /\ DOMAIN m.mem = Addresses /\ DOMAIN k.mem = Addresses
  BY <1>1, SoundFacts
<1> QED
  BY <1>1, <1>2 DEF Alike

(* Two machines that were the same are the same if what has changed in one *)
(* has its like in the other, and the pools have not changed.              *)
LEMMA SameBy ==
  ASSUME NEW m, NEW k, NEW R, Same(m, k, R), NEW n, NEW l, Sound(n), Sound(l),
         Differs(m, n, Plain \cup {"reg", "mem"}), Differs(k, l, Plain \cup {"reg", "mem"}),
         \A r \in Registers : Twin(m, R, n.reg[r], l.reg[r]),
         \A a \in Addresses : Twin(m, R, n.mem[a], l.mem[a]),
         n.sp = l.sp, n.reflections = l.reflections, n.pc = l.pc, n.trap = l.trap, n.printed = l.printed,
         l.elements <= n.elements, n.trap = "None" => n.flag = l.flag
  PROVE  Same(n, l, R) /\ LiveWords(n) = LiveWords(m)
<1>1. /\ LiveWords(n) = LiveWords(m) /\ LiveWords(l) = LiveWords(k)
      /\ \A w : Seen(n, w) = Seen(m, w) /\ Inside(n, w) = Inside(m, w)
      /\ \A w : Seen(l, w) = Seen(k, w) /\ Inside(l, w) = Inside(k, w)
  BY LiveBy
<1>2. \A v, w : Twin(n, R, v, w) <=> Twin(m, R, v, w)
  BY <1>1 DEF Twin
<1>3. R \in Relations /\ Bisim(m, k, R)
  BY DEF Same, Pair, Alike
<1>4. Bisim(n, l, R)
  BY <1>1, <1>2, <1>3 DEF Bisim
<1>5. n.tensors = l.tensors
  BY SameFacts DEF Differs, Plain
<1>6. Alike(n, l, R)
  BY <1>2, <1>3, <1>4, <1>5 DEF Alike
<1> QED
  BY <1>1, <1>6 DEF Same, Pair

LEMMA SameTrap ==
  ASSUME NEW m, NEW k, NEW R, Same(m, k, R), NEW x, m.trap = "None" \/ x # "None"
  PROVE  Same(Trapped(m, x), Trapped(k, x), R)
<1> DEFINE n == Trapped(m, x)
           l == Trapped(k, x)
<1>1. Differs(m, n, {"trap"}) /\ n.trap = x /\ Differs(k, l, {"trap"}) /\ l.trap = x
  BY SameFacts, TrapIs
<1>2. Sound(n) /\ Sound(l)
  BY SameFacts, SoundTrap
<1> HIDE DEF n, l
<1>3. /\ Differs(m, n, Plain \cup {"reg", "mem"}) /\ Differs(k, l, Plain \cup {"reg", "mem"})
      /\ n.reg = m.reg /\ l.reg = k.reg /\ n.mem = m.mem /\ l.mem = k.mem
      /\ n.sp = m.sp /\ l.sp = k.sp /\ n.reflections = m.reflections /\ l.reflections = k.reflections
      /\ n.pc = m.pc /\ l.pc = k.pc /\ n.printed = m.printed /\ l.printed = k.printed
      /\ n.elements = m.elements /\ l.elements = k.elements /\ n.flag = m.flag /\ l.flag = k.flag
  BY <1>1 DEF Differs, Plain
<1>5. /\ \A r \in Registers : Twin(m, R, n.reg[r], l.reg[r])
      /\ \A a \in Addresses : Twin(m, R, n.mem[a], l.mem[a])
      /\ n.sp = l.sp /\ n.reflections = l.reflections /\ n.pc = l.pc /\ n.trap = l.trap /\ n.printed = l.printed
      /\ l.elements <= n.elements /\ (n.trap = "None" => n.flag = l.flag)
  <2>1. n.trap = "None" => m.trap = "None"
    BY <1>1
  <2> QED
    BY <1>1, <1>3, <2>1, SameFacts
<1>4. Same(n, l, R)
  BY <1>2, <1>3, <1>5, SameBy
<1> QED
  BY <1>4 DEF n, l

LEMMA SameFlags ==
  ASSUME NEW m, NEW k, NEW R, Pair(m, k, R), NEW x, NEW y, SignOf(x) = SignOf(y)
  PROVE  /\ Same(update_flags(m, x), update_flags(k, y), R)
         /\ LiveWords(update_flags(m, x)) = LiveWords(m)
         /\ update_flags(m, x).trap = m.trap
<1> DEFINE n == update_flags(m, x)
           l == update_flags(k, y)
<1>0. Sound(m) /\ Sound(k) /\ HasFields(m) /\ HasFields(k) /\ Alike(m, k, R)
  BY SoundFacts DEF Pair
<1>1. Differs(m, n, {"flag"}) /\ n.flag = SignOf(x) /\ Differs(k, l, {"flag"}) /\ l.flag = SignOf(y)
  BY <1>0, FlagsAre
<1>2. Sound(n) /\ Sound(l)
  BY <1>0, SoundFlags
<1> HIDE DEF n, l
<1>3. Differs(m, n, Plain \cup {"reg", "mem"}) /\ Differs(k, l, Plain \cup {"reg", "mem"})
  BY <1>1 DEF Differs, Plain
<1>4. /\ n.reg = m.reg /\ l.reg = k.reg /\ n.mem = m.mem /\ l.mem = k.mem
      /\ n.sp = m.sp /\ l.sp = k.sp /\ n.reflections = m.reflections /\ l.reflections = k.reflections
      /\ n.pc = m.pc /\ l.pc = k.pc /\ n.printed = m.printed /\ l.printed = k.printed
      /\ n.elements = m.elements /\ l.elements = k.elements /\ n.trap = m.trap /\ l.trap = k.trap
      /\ n.tensors = m.tensors /\ l.tensors = k.tensors
  BY <1>1 DEF Differs
<1>5. /\ LiveWords(n) = LiveWords(m) /\ LiveWords(l) = LiveWords(k)
      /\ \A w : Seen(n, w) = Seen(m, w) /\ Inside(n, w) = Inside(m, w)
      /\ \A w : Seen(l, w) = Seen(k, w) /\ Inside(l, w) = Inside(k, w)
  BY <1>3, LiveBy
<1>6. \A v, w : Twin(n, R, v, w) <=> Twin(m, R, v, w)
  BY <1>5 DEF Twin
<1>7. R \in Relations /\ Bisim(n, l, R)
  BY <1>0, <1>5, <1>6 DEF Alike, Bisim
<1>8. Alike(n, l, R)
  BY <1>0, <1>4, <1>6, <1>7 DEF Alike
<1>9. Same(n, l, R) /\ LiveWords(n) = LiveWords(m) /\ n.trap = m.trap
  BY <1>1, <1>2, <1>4, <1>5, <1>8 DEF Same, Pair
<1> QED
  BY <1>9 DEF n, l

LEMMA SamePut ==
  ASSUME NEW m, NEW k, NEW R, Same(m, k, R), NEW r \in Registers, NEW v, NEW w, Twin(m, R, v, w)
  PROVE  /\ Same(Put(m, r, v), Put(k, r, w), R) /\ LiveWords(Put(m, r, v)) = LiveWords(m)
         /\ Put(m, r, v).trap = m.trap /\ Put(m, r, v).reg[r] = v /\ Put(k, r, w).reg[r] = w
<1> DEFINE n == Put(m, r, v)
           l == Put(k, r, w)
<1>0. v \in LiveWords(m) /\ w \in LiveWords(k)
  BY SameFacts, TwinFacts
<1>1. Differs(m, n, {"reg"}) /\ n.reg = [m.reg EXCEPT ![r] = v] /\ Differs(k, l, {"reg"}) /\ l.reg = [k.reg EXCEPT ![r] = w]
  BY SameFacts, PutIs
<1>2. Sound(n) /\ Sound(l)
  BY <1>0, SameFacts, SoundPut
<1> HIDE DEF n, l
<1>3. /\ Differs(m, n, Plain \cup {"reg", "mem"}) /\ Differs(k, l, Plain \cup {"reg", "mem"})
      /\ n.mem = m.mem /\ l.mem = k.mem /\ n.trap = m.trap /\ l.trap = k.trap
      /\ n.sp = m.sp /\ l.sp = k.sp /\ n.reflections = m.reflections /\ l.reflections = k.reflections
      /\ n.pc = m.pc /\ l.pc = k.pc /\ n.printed = m.printed /\ l.printed = k.printed
      /\ n.elements = m.elements /\ l.elements = k.elements /\ n.flag = m.flag /\ l.flag = k.flag
  BY <1>1 DEF Differs, Plain
<1>4. n.reg[r] = v /\ l.reg[r] = w /\ \A q \in Registers : Twin(m, R, n.reg[q], l.reg[q])
  BY <1>1, SameFacts
<1>5. /\ \A a \in Addresses : Twin(m, R, n.mem[a], l.mem[a])
      /\ n.sp = l.sp /\ n.reflections = l.reflections /\ n.pc = l.pc /\ n.trap = l.trap /\ n.printed = l.printed
      /\ l.elements <= n.elements /\ (n.trap = "None" => n.flag = l.flag)
  BY <1>3, SameFacts
<1>6. Same(n, l, R) /\ LiveWords(n) = LiveWords(m)
  BY <1>2, <1>3, <1>4, <1>5, SameBy
<1> QED
  BY <1>3, <1>4, <1>6 DEF n, l

LEMMA SameMem ==
  ASSUME NEW m, NEW k, NEW R, Same(m, k, R), NEW f, NEW g, DOMAIN f = Addresses, DOMAIN g = Addresses,
         f = [a \in Addresses |-> f[a]], g = [a \in Addresses |-> g[a]],
         \A a \in Addresses : Twin(m, R, f[a], g[a])
  PROVE  /\ Same([m EXCEPT !.mem = f], [k EXCEPT !.mem = g], R) /\ LiveWords([m EXCEPT !.mem = f]) = LiveWords(m)
         /\ [m EXCEPT !.mem = f].trap = m.trap
<1> DEFINE n == [m EXCEPT !.mem = f]
           l == [k EXCEPT !.mem = g]
<1>0. f \in [Addresses -> LiveWords(m)] /\ g \in [Addresses -> LiveWords(k)]
  BY SameFacts, TwinFacts
<1>1. Differs(m, n, {"mem"}) /\ n.mem = f /\ Differs(k, l, {"mem"}) /\ l.mem = g
  <2>1. HasFields(m) /\ HasFields(k)
    BY SameFacts
  <2> QED
    BY <2>1, MemIs
<1>2. Sound(n) /\ Sound(l)
  BY <1>0, SameFacts, SoundMem
<1> HIDE DEF n, l
<1>3. /\ Differs(m, n, Plain \cup {"reg", "mem"}) /\ Differs(k, l, Plain \cup {"reg", "mem"})
      /\ n.reg = m.reg /\ l.reg = k.reg /\ n.trap = m.trap /\ l.trap = k.trap
      /\ n.sp = m.sp /\ l.sp = k.sp /\ n.reflections = m.reflections /\ l.reflections = k.reflections
      /\ n.pc = m.pc /\ l.pc = k.pc /\ n.printed = m.printed /\ l.printed = k.printed
      /\ n.elements = m.elements /\ l.elements = k.elements /\ n.flag = m.flag /\ l.flag = k.flag
  BY <1>1 DEF Differs, Plain
<1>4. /\ \A r \in Registers : Twin(m, R, n.reg[r], l.reg[r])
      /\ \A a \in Addresses : Twin(m, R, n.mem[a], l.mem[a])
      /\ n.sp = l.sp /\ n.reflections = l.reflections /\ n.pc = l.pc /\ n.trap = l.trap /\ n.printed = l.printed
      /\ l.elements <= n.elements /\ (n.trap = "None" => n.flag = l.flag)
  BY <1>1, <1>3, SameFacts
<1>5. Same(n, l, R) /\ LiveWords(n) = LiveWords(m)
  BY <1>2, <1>3, <1>4, SameBy
<1> QED
  BY <1>3, <1>5 DEF n, l

LEMMA SameStore ==
  ASSUME NEW m, NEW k, NEW R, Same(m, k, R), NEW a \in Addresses, NEW v, NEW w, Twin(m, R, v, w)
  PROVE  Same([m EXCEPT !.mem[a] = v], [k EXCEPT !.mem[a] = w], R)
<1> DEFINE f == [m.mem EXCEPT ![a] = v]
           g == [k.mem EXCEPT ![a] = w]
<1>1. /\ DOMAIN f = Addresses /\ DOMAIN g = Addresses /\ f = [x \in Addresses |-> f[x]] /\ g = [x \in Addresses |-> g[x]]
      /\ \A x \in Addresses : Twin(m, R, f[x], g[x])
  BY SameFacts
<1> HIDE DEF f, g
<1>2. Same([m EXCEPT !.mem = f], [k EXCEPT !.mem = g], R)
  BY <1>1, SameMem
<1> QED
  BY <1>2, StoreIs DEF f, g

(* The fields that hold neither words nor pools.                           *)
LEMMA SameFields ==
  ASSUME NEW m, NEW k, NEW R, Same(m, k, R), NEW x
  PROVE  /\ x \in StackLimit..StackBase => Same([m EXCEPT !.sp = x], [k EXCEPT !.sp = x], R)
         /\ Same([m EXCEPT !.pc = x], [k EXCEPT !.pc = x], R)
         /\ Same([m EXCEPT !.printed = x], [k EXCEPT !.printed = x], R)
         /\ x \in Nat => Same([m EXCEPT !.reflections = x], [k EXCEPT !.reflections = x], R)
<1>0. HasFields(m) /\ HasFields(k) /\ Sound(m) /\ Sound(k)
  BY SameFacts
<1>1. ASSUME NEW n, NEW l, NEW f \in {"sp", "pc", "printed", "reflections"}, Differs(m, n, {f}), Differs(k, l, {f}),
             n.sp = l.sp, n.pc = l.pc, n.printed = l.printed, n.reflections = l.reflections, Sound(n), Sound(l)
      PROVE  Same(n, l, R)
  <2>1. /\ Differs(m, n, Plain \cup {"reg", "mem"}) /\ Differs(k, l, Plain \cup {"reg", "mem"})
        /\ n.reg = m.reg /\ l.reg = k.reg /\ n.mem = m.mem /\ l.mem = k.mem /\ n.trap = m.trap /\ l.trap = k.trap
        /\ n.elements = m.elements /\ l.elements = k.elements /\ n.flag = m.flag /\ l.flag = k.flag
    BY <1>1 DEF Differs, Plain
  <2>2. /\ \A r \in Registers : Twin(m, R, n.reg[r], l.reg[r])
        /\ \A a \in Addresses : Twin(m, R, n.mem[a], l.mem[a])
        /\ n.trap = l.trap /\ l.elements <= n.elements /\ (n.trap = "None" => n.flag = l.flag)
    BY <2>1, SameFacts
  <2> QED
    BY <1>1, <2>1, <2>2, SameBy
<1> DEFINE Sp(q) == [q EXCEPT !.sp = x]
           Pc(q) == [q EXCEPT !.pc = x]
           Printed(q) == [q EXCEPT !.printed = x]
           Reflected(q) == [q EXCEPT !.reflections = x]
<1>2. /\ Differs(m, Sp(m), {"sp"}) /\ Sp(m).sp = x /\ Differs(k, Sp(k), {"sp"}) /\ Sp(k).sp = x
      /\ Differs(m, Pc(m), {"pc"}) /\ Pc(m).pc = x /\ Differs(k, Pc(k), {"pc"}) /\ Pc(k).pc = x
      /\ Differs(m, Printed(m), {"printed"}) /\ Printed(m).printed = x
      /\ Differs(k, Printed(k), {"printed"}) /\ Printed(k).printed = x
      /\ Differs(m, Reflected(m), {"reflections"}) /\ Reflected(m).reflections = x
      /\ Differs(k, Reflected(k), {"reflections"}) /\ Reflected(k).reflections = x
  BY <1>0, FieldsAre
<1>3. /\ x \in StackLimit..StackBase => Sound(Sp(m)) /\ Sound(Sp(k))
      /\ Sound(Pc(m)) /\ Sound(Pc(k)) /\ Sound(Printed(m)) /\ Sound(Printed(k))
      /\ x \in Nat => Sound(Reflected(m)) /\ Sound(Reflected(k))
  BY <1>0, SoundFields
<1> HIDE DEF Sp, Pc, Printed, Reflected
<1>4. x \in StackLimit..StackBase => Same(Sp(m), Sp(k), R)
  <2>1. Sp(m).pc = Sp(k).pc /\ Sp(m).printed = Sp(k).printed /\ Sp(m).reflections = Sp(k).reflections
    BY <1>2, SameFacts DEF Differs
  <2> QED
    BY <1>1, <1>2, <1>3, <2>1
<1>5. Same(Pc(m), Pc(k), R)
  <2>1. Pc(m).sp = Pc(k).sp /\ Pc(m).printed = Pc(k).printed /\ Pc(m).reflections = Pc(k).reflections
    BY <1>2, SameFacts DEF Differs
  <2> QED
    BY <1>1, <1>2, <1>3, <2>1
<1>6. Same(Printed(m), Printed(k), R)
  <2>1. Printed(m).sp = Printed(k).sp /\ Printed(m).pc = Printed(k).pc /\ Printed(m).reflections = Printed(k).reflections
    BY <1>2, SameFacts DEF Differs
  <2> QED
    BY <1>1, <1>2, <1>3, <2>1
<1>7. x \in Nat => Same(Reflected(m), Reflected(k), R)
  <2>1. Reflected(m).sp = Reflected(k).sp /\ Reflected(m).pc = Reflected(k).pc /\ Reflected(m).printed = Reflected(k).printed
    BY <1>2, SameFacts DEF Differs
  <2> QED
    BY <1>1, <1>2, <1>3, <2>1
<1> QED
  BY <1>4, <1>5, <1>6, <1>7 DEF Sp, Pc, Printed, Reflected

LEMMA SameReads ==
  ASSUME NEW m, NEW k, NEW R, Same(m, k, R), NEW r \in Registers
  PROVE  /\ Twin(m, R, m.reg[r], k.reg[r]) /\ m.reg[r].tag = k.reg[r].tag
         /\ SignOf(m.reg[r].n) = SignOf(k.reg[r].n) /\ (m.reg[r].n = 0 <=> k.reg[r].n = 0)
         /\ m.reg[r] \in LiveWords(m) /\ m.reg[r].n \in Int /\ k.reg[r].n \in Int
         /\ m.reg[r].tag \notin Handles => m.reg[r] = k.reg[r]
<1>1. Pair(m, k, R) /\ Sound(m) /\ Sound(k) /\ Twin(m, R, m.reg[r], k.reg[r])
  BY SameFacts
<1>2. m.reg[r].tag = k.reg[r].tag /\ (m.reg[r].tag \notin Handles => m.reg[r] = k.reg[r])
  <2> DEFINE v == m.reg[r]
             w == k.reg[r]
  <2>1. Twin(m, R, v, w)
    BY <1>1
  <2> HIDE DEF v, w
  <2>2. v.tag = w.tag /\ (v.tag \notin Handles => v = w)
    BY <1>1, <2>1, TwinFacts
  <2> QED
    BY <2>2 DEF v, w
<1>3. SignOf(m.reg[r].n) = SignOf(k.reg[r].n) /\ (m.reg[r].n = 0 <=> k.reg[r].n = 0)
  BY <1>1, TwinLooks
<1>4. m.reg[r] \in LiveWords(m) /\ m.reg[r].n \in Int /\ k.reg[r].n \in Int
  BY <1>1, SoundRead
<1> QED
  BY <1>1, <1>2, <1>3, <1>4

LEMMA SameInt ==
  ASSUME NEW m, NEW k, NEW R, Same(m, k, R), NEW r \in Registers, NEW x \in Int
  PROVE  Same(PutInt(m, r, x), PutInt(k, r, x), R)
<1>1. Twin(m, R, Word(x, "Int"), Word(x, "Int"))
  BY IntIs DEF Twin, Word, Handles
<1>2. Pair(Put(m, r, Word(x, "Int")), Put(k, r, Word(x, "Int")), R)
  BY <1>1, SamePut, SameFacts
<1> QED
  BY <1>2, SameFlags DEF PutInt

LEMMA SameSet ==
  ASSUME NEW m, NEW k, NEW R, Same(m, k, R), NEW r \in Registers, NEW v, NEW w, Twin(m, R, v, w)
  PROVE  /\ \A x, y : SignOf(x) = SignOf(y) => Same(update_flags(set_reg(m, r, v), x), update_flags(set_reg(k, r, w), y), R)
         /\ Same(SetAndFlag(m, r, v), SetAndFlag(k, r, w), R)
<1> DEFINE n == set_reg(m, r, v)
           l == set_reg(k, r, w)
<1>1. Same(n, l, R)
  BY SamePut DEF set_reg
<1> HIDE DEF n, l
<1>2. SignOf(n.reg[r].n) = SignOf(l.reg[r].n)
  BY <1>1, SameReads
<1>3. /\ \A x, y : SignOf(x) = SignOf(y) => Same(update_flags(n, x), update_flags(l, y), R)
      /\ Same(update_flags(n, n.reg[r].n), update_flags(l, l.reg[r].n), R)
  BY <1>1, <1>2, SameFacts, SameFlags
<1> QED
  BY <1>3 DEF n, l, SetAndFlag

(* The two machines are the same, and nothing is about to part them.       *)
Ready(m, k, R, i) ==
  /\ Same(m, k, R) /\ m.trap = "None"
  /\ i \in Insns /\ reg_ok(m, i) /\ Departures(m, i) = {} /\ Forges(k, i) = {}

LEMMA NotDeparted ==
  ASSUME NEW m, NEW i, Departures(m, i) = {}
  PROVE  /\ i.op \in {"Mov", "LoadImm", "SetF"} \cup DOMAIN Opened => i.a \notin Fixed
         /\ i.op \in Comparisons => m.reg[i.b].tag = m.reg[i.c].tag /\ m.reg[i.b].tag \notin NotNumbers
         /\ i.op = "Load" => mem_ok(i.b)
         /\ i.op = "Store" => mem_ok(i.a)
         /\ i.op = "Push" => StackBase - (m.sp - 1) <= MaxStack \/ ~(StackBase - (m.sp - 1) > MaxStack)
         /\ i.op \in AllocatesTensor => Interp(m, i).trap # "SecurityFault"
         /\ i.op \in Jumps => i.a \in 0..CodeSize
         /\ i.op = "MakeEnumVariant" => ~(i.b < 0)
         /\ i.op \in ReadsNumbers => \A w \in Operands(m, i) \cup CommandWords(m, i) : w.tag \notin Handles
         /\ Forges(m, i) = {}
<1>1. \A d, p : Way(d, p) = {} => ~p
  BY DEF Way
<1>2. /\ ~(i.op \in {"Mov", "LoadImm", "SetF"} \cup DOMAIN Opened /\ i.a \in Fixed)
      /\ ~(i.op \in Comparisons /\ (m.reg[i.b].tag # m.reg[i.c].tag \/ m.reg[i.b].tag \in NotNumbers))
      /\ ~((i.op = "Load" /\ ~mem_ok(i.b)) \/ (i.op = "Store" /\ ~mem_ok(i.a)))
      /\ ~(i.op = "Push" /\ StackBase - (m.sp - 1) > MaxStack)
  BY DEF Departures, Way
<1>3. /\ ~(i.op \in AllocatesTensor /\ Interp(m, i).trap = "SecurityFault")
      /\ ~(i.op \in Jumps /\ i.a \notin 0..CodeSize)
      /\ ~(i.op = "MakeEnumVariant" /\ i.b < 0)
      /\ ~(i.op \in ReadsNumbers /\ \E w \in Operands(m, i) \cup CommandWords(m, i) : w.tag \in Handles)
      /\ Forges(m, i) = {}
  BY DEF Departures, Way
<1> QED
  BY <1>2, <1>3

LEMMA ReadyFacts ==
  ASSUME NEW m, NEW k, NEW R, NEW i, Ready(m, k, R, i)
  PROVE  /\ Same(m, k, R) /\ m.trap = "None" /\ k.trap = "None" /\ m.flag = k.flag
         /\ Sound(m) /\ Sound(k) /\ reg_ok(m, i) /\ reg_ok(k, i) /\ Departures(m, i) = {}
         /\ Forges(m, i) = {} /\ Forges(k, i) = {}
         /\ {i.a, i.b, i.c} \subseteq Int /\ i.op \in Opcodes /\ i \in Insns
<1>1. Same(m, k, R) /\ m.trap = "None" /\ i \in Insns /\ reg_ok(m, i) /\ Departures(m, i) = {} /\ Forges(k, i) = {}
  BY DEF Ready
<1>2. Forges(m, i) = {}
  BY <1>1, NotDeparted
<1>3. k.trap = "None" /\ m.flag = k.flag /\ Sound(m) /\ Sound(k) /\ DOMAIN m.reg = DOMAIN k.reg
  BY <1>1, SameFacts
<1> QED
  BY <1>1, <1>2, <1>3, InsnAssumption DEF reg_ok

(* Numbers that are read are the same.                                     *)
LEMMA NumbersRead ==
  ASSUME NEW m, NEW k, NEW R, NEW i, Ready(m, k, R, i), i.op \in ReadsNumbers
  PROVE  /\ i.op \in {"Inc", "Dec"} => m.reg[i.a] = k.reg[i.a]
         /\ i.op \in NamesIndex => m.reg[i.c] = k.reg[i.c]
         /\ i.op \in {"MemZero", "Copy"} => m.reg[i.a] = k.reg[i.a] /\ m.reg[i.b] = k.reg[i.b]
                                            /\ (i.c \in Registers => m.reg[i.c] = k.reg[i.c])
         /\ i.op \notin {"Inc", "Dec", "MemZero", "Copy"} \cup NamesIndex =>
              /\ i.b \in Registers => m.reg[i.b] = k.reg[i.b]
              /\ i.c \in Registers => m.reg[i.c] = k.reg[i.c]
<1>1. DOMAIN m.reg = Registers
  BY ReadyFacts, SameFacts
<1>2. \A w \in Operands(m, i) : w.tag \notin Handles
  BY ReadyFacts, NotDeparted
<1>3. ASSUME NEW r \in Registers, m.reg[r] \in Operands(m, i)
      PROVE  m.reg[r] = k.reg[r]
  BY <1>2, <1>3, ReadyFacts, SameReads
<1>4. CASE i.op \in {"Inc", "Dec"}
  <2>1. i.a \in Registers /\ i.op \notin NamesIndex \cup {"MemZero", "Copy"}
    BY <1>4, ReadyFacts, NamedAre DEF NamesIndex
  <2>2. m.reg[i.a] \in Operands(m, i)
    BY <1>1, <1>4, <2>1 DEF Operands
  <2> QED
    BY <1>3, <1>4, <2>1, <2>2
<1>5. CASE i.op \in NamesIndex
  <2>1. i.c \in Registers /\ i.op \notin {"Inc", "Dec", "MemZero", "Copy"}
    BY <1>5, ReadyFacts, NamedAre DEF NamesIndex
  <2>2. m.reg[i.c] \in Operands(m, i)
    BY <1>1, <1>5, <2>1 DEF Operands
  <2> QED
    BY <1>3, <1>5, <2>1, <2>2
<1>6. CASE i.op \in {"MemZero", "Copy"}
  <2>1. i.a \in Registers /\ i.b \in Registers /\ i.op \notin NamesIndex
    BY <1>6, ReadyFacts, NamedAre DEF NamesIndex
  <2>2. \A r \in {i.a, i.b, i.c} \cap Registers : m.reg[r] \in Operands(m, i)
    BY <1>1, <1>6, <2>1 DEF Operands
  <2> QED
    BY <1>3, <1>6, <2>1, <2>2
<1>7. CASE i.op \notin {"Inc", "Dec", "MemZero", "Copy"} \cup NamesIndex
  <2>1. \A r \in {i.b, i.c} \cap Registers : m.reg[r] \in Operands(m, i)
    BY <1>1, <1>7 DEF Operands
  <2> QED
    BY <1>3, <1>7, <2>1
<1> QED
  BY <1>4, <1>5, <1>6, <1>7

LEMMA SameCalculate ==
  ASSUME NEW m, NEW k, NEW R, NEW i, Ready(m, k, R, i), i.op \in Calculations
  PROVE  Same(Calculate(m, i), Calculate(k, i), R)
<1>0. Same(m, k, R) /\ Sound(m) /\ reg_ok(m, i)
  BY ReadyFacts
<1>1. i.op \in ReadsNumbers
  BY DEF ReadsNumbers
<1>2. CASE i.op \in {"Inc", "Dec"}
  <2>1. i.a \in Registers /\ m.reg[i.a] = k.reg[i.a] /\ m.reg[i.a].n \in Int
    BY <1>0, <1>1, <1>2, NamedAre, NumbersRead, SoundRead
  <2>2. Wrap(m.reg[i.a].n + 1) \in Int /\ Wrap(m.reg[i.a].n - 1) \in Int
    BY <2>1, WrapIs
  <2> QED
    BY <1>0, <1>2, <2>1, <2>2, SameInt DEF Calculate
<1>3. CASE i.op \notin {"Inc", "Dec"}
  <2> DEFINE x == Calculated(i.op, m.reg[i.b].n, m.reg[i.c].n)
  <2>1. i.op \notin {"Inc", "Dec", "MemZero", "Copy"} \cup NamesIndex
    BY <1>3 DEF Calculations, Trits, BitOps, Sums, NamesIndex
  <2>2. /\ {i.a, i.b} \subseteq Registers
        /\ i.op \in {"TNot", "BitNot", "Neg"} \/ i.c \in Registers
    BY <1>0, <1>3, NamedAre
  <2>3. m.reg[i.b] = k.reg[i.b] /\ (i.c \in Registers => m.reg[i.c] = k.reg[i.c])
    BY <1>1, <2>1, <2>2, NumbersRead
  <2>4. m.reg[i.b].n \in Int /\ (i.op \notin {"TNot", "BitNot", "Neg"} => m.reg[i.c].n \in Int)
    BY <1>0, <2>2, SoundRead
  <2>5. x \in Int
    BY <1>3, <2>4, CalculatedIs
  <2>6. x = Calculated(i.op, k.reg[i.b].n, k.reg[i.c].n)
    <3>1. CASE i.c \in Registers
      BY <2>3, <3>1
    <3>2. CASE i.op \in {"TNot", "BitNot", "Neg"}
      <4>1. \A u, v, w : Calculated(i.op, u, v) = Calculated(i.op, u, w)
        BY <3>2 DEF Calculated, Trits, BitOps, OfTrits, OfBits, OfIntegers
      <4> QED
        BY <2>3, <4>1
    <3> QED
      BY <2>2, <3>1, <3>2
  <2>7. Calculate(m, i) = PutInt(m, i.a, x) /\ Calculate(k, i) = PutInt(k, i.a, x)
    BY <1>3, <2>6 DEF Calculate
  <2> QED
    BY <1>0, <2>2, <2>5, <2>7, SameInt
<1> QED
  BY <1>2, <1>3

LEMMA SameDivide ==
  ASSUME NEW m, NEW k, NEW R, NEW i, Ready(m, k, R, i), i.op \in {"Div", "Mod"}
  PROVE  Same(Divide(m, i), Divide(k, i), R)
<1>1. Same(m, k, R) /\ Sound(m) /\ {i.a, i.b, i.c} \subseteq Registers
  BY ReadyFacts, NamedAre
<1>2. m.reg[i.b] = k.reg[i.b] /\ m.reg[i.c] = k.reg[i.c] /\ m.reg[i.b].n \in Int /\ m.reg[i.c].n \in Int
  BY <1>1, NumbersRead, SoundRead DEF ReadsNumbers, NamesIndex
<1>3. m.reg[i.c].n # 0 => /\ Quotient(m.reg[i.b].n, m.reg[i.c].n) \in Int
                          /\ Remainder(m.reg[i.b].n, m.reg[i.c].n) \in Int
  BY <1>2, QuotientIs
<1>4. m.trap = "None"
  BY ReadyFacts
<1> QED
  BY <1>1, <1>2, <1>3, <1>4, SameInt, SameTrap DEF Divide

LEMMA SameCompare ==
  ASSUME NEW m, NEW k, NEW R, NEW i, Ready(m, k, R, i), i.op \in Comparisons \cup {"Cmp"}
  PROVE  Same(Compare(m, i), Compare(k, i), R)
<1>1. Same(m, k, R) /\ Sound(m) /\ m.trap = "None"
  BY ReadyFacts
<1>2. ASSUME NEW p \in Registers, NEW q \in Registers
      PROVE  /\ m.reg[p].tag = k.reg[p].tag /\ m.reg[q].tag = k.reg[q].tag
             /\ compare_value(m, m.reg[p], m.reg[q]) = compare_value(k, k.reg[p], k.reg[q])
  BY <1>1, SameFacts, SameReads, TwinLooks
<1>3. CASE i.op = "Cmp"
  <2>1. {i.a, i.b} \subseteq Registers
    BY <1>3, ReadyFacts, NamedAre
  <2> DEFINE sign == compare_value(m, m.reg[i.a], m.reg[i.b])
  <2>2. Same(update_flags(m, sign), update_flags(k, sign), R)
    BY <1>1, SameFacts, SameFlags
  <2>3. /\ Compare(m, i) = IF m.reg[i.a].tag # m.reg[i.b].tag THEN Trapped(m, "TypeFault")
                           ELSE IF sign = Unordered THEN Trapped(m, "DecodeFault") ELSE update_flags(m, sign)
        /\ Compare(k, i) = IF m.reg[i.a].tag # m.reg[i.b].tag THEN Trapped(k, "TypeFault")
                           ELSE IF sign = Unordered THEN Trapped(k, "DecodeFault") ELSE update_flags(k, sign)
    BY <1>2, <1>3, <2>1 DEF Compare, Ordered
  <2> QED
    BY <1>1, <2>2, <2>3, SameTrap
<1>4. CASE i.op # "Cmp"
  <2>1. {i.a, i.b, i.c} \subseteq Registers
    BY <1>4, ReadyFacts, NamedAre
  <2> DEFINE sign == compare_value(m, m.reg[i.b], m.reg[i.c])
             x == Truth(Holds(i.op, sign))
  <2>2. Same(PutInt(m, i.a, x), PutInt(k, i.a, x), R)
    BY <1>1, <2>1, TruthIs, SameInt
  <2>3. /\ Compare(m, i) = IF m.reg[i.b].tag # m.reg[i.c].tag THEN Trapped(m, "TypeFault")
                           ELSE IF sign = Unordered THEN Trapped(m, "DecodeFault") ELSE PutInt(m, i.a, x)
        /\ Compare(k, i) = IF m.reg[i.b].tag # m.reg[i.c].tag THEN Trapped(k, "TypeFault")
                           ELSE IF sign = Unordered THEN Trapped(k, "DecodeFault") ELSE PutInt(k, i.a, x)
    BY <1>2, <1>4, <2>1 DEF Compare, Ordered
  <2> QED
    BY <1>1, <2>2, <2>3, SameTrap
<1> QED
  BY <1>3, <1>4

LEMMA SameJump ==
  ASSUME NEW m, NEW k, NEW R, NEW i, Ready(m, k, R, i), i.op \in Jumps
  PROVE  Same(Jump(m, i), Jump(k, i), R) /\ (Taken(m, i) <=> Taken(k, i))
<1>1. Same(m, k, R) /\ m.trap = "None" /\ m.flag = k.flag
  BY ReadyFacts
<1>2. i.op \in {"JumpIfZero", "JumpIfNotZero"} => (m.reg[i.b].n = 0 <=> k.reg[i.b].n = 0)
  BY <1>1, ReadyFacts, NamedAre, SameReads
<1>3. Taken(m, i) <=> Taken(k, i)
  BY <1>1, <1>2 DEF Taken, Jumps
<1>4. Same([m EXCEPT !.pc = i.a], [k EXCEPT !.pc = i.a], R) /\ Same(Trapped(m, "DecodeFault"), Trapped(k, "DecodeFault"), R)
  BY <1>1, SameFields, SameTrap
<1> QED
  BY <1>1, <1>3, <1>4 DEF Jump

LEMMA SameOpen ==
  ASSUME NEW m, NEW k, NEW R, NEW i, Ready(m, k, R, i), i.op \in DOMAIN Opened
  PROVE  Same(Open(m, i), Open(k, i), R)
<1>1. Same(m, k, R) /\ Sound(m) /\ Sound(k) /\ m.trap = "None" /\ {i.a, i.b} \subseteq Registers /\ Pair(m, k, R)
  BY ReadyFacts, NamedAre, SameFacts
<1> DEFINE v == m.reg[i.b]
           w == k.reg[i.b]
           x == Entry(m, v)
           y == Entry(k, w)
<1>2. /\ Twin(m, R, v, w) /\ v.tag = w.tag /\ (Known(m, v) <=> Known(k, w)) /\ Seen(m, v) = Seen(k, w)
      /\ Twin(m, R, Inside(m, v), Inside(k, w))
  <2>1. Twin(m, R, v, w)
    BY <1>1, SameReads
  <2> HIDE DEF v, w
  <2>2. v.tag = w.tag /\ (Known(m, v) <=> Known(k, w)) /\ Seen(m, v) = Seen(k, w)
    BY <1>1, <2>1, TwinFacts
  <2>3. Twin(m, R, Inside(m, v), Inside(k, w))
    BY <1>1, <2>1, TwinInside
  <2> QED
    BY <2>1, <2>2, <2>3
<1> HIDE DEF v, w
<1>3. CASE v.tag = Opened[i.op] /\ Known(m, v)
  <2>1. v.tag # "Complex" /\ w.tag # "Complex" /\ Known(k, w) /\ (i.op = "EnumIsVariant" <=> i.op = "EnumIsVariant")
    BY <1>2, <1>3 DEF Opened
  <2>2. Inside(m, v) = x.of /\ Inside(k, w) = y.of /\ Twin(m, R, x.of, y.of)
    BY <1>1, <1>2, <1>3, <2>1, EntryIs
  <2>3. x.is = y.is /\ (v.tag = "Enum" => x.id = y.id)
    BY <1>2, <1>3, <2>1 DEF Seen, Face
  <2>4. i.op = "EnumIsVariant" => v.tag = "Enum"
    BY <1>3 DEF Opened
  <2>5. Word(Truth(x.is), "Int") = Word(Truth(y.is), "Int") /\ (i.op = "EnumIsVariant" => (x.id = i.c <=> y.id = i.c))
    BY <2>3, <2>4
  <2>6. \A p : Twin(m, R, Word(Truth(p), "Int"), Word(Truth(p), "Int"))
    <3>1. \A p : Truth(p) \in Int
      BY TruthIs
    <3>2. \A t \in Int : Twin(m, R, Word(t, "Int"), Word(t, "Int"))
      BY IntIs DEF Twin, Word, Handles
    <3> QED
      BY <3>1, <3>2
  <2>7. /\ Yields(i, x) = <<>> <=> Yields(i, y) = <<>>
        /\ Yields(i, x) # <<>> => Twin(m, R, Yields(i, x)[1], Yields(i, y)[1])
    BY <2>2, <2>3, <2>4, <2>5, <2>6 DEF Yields
  <2>8. Yields(i, x) # <<>> => Same(SetAndFlag(m, i.a, Yields(i, x)[1]), SetAndFlag(k, i.a, Yields(i, y)[1]), R)
    BY <1>1, <2>7, SameSet
  <2> QED
    BY <1>1, <1>2, <1>3, <2>1, <2>7, <2>8, SameTrap DEF Open, v, w
<1>4. CASE ~(v.tag = Opened[i.op] /\ Known(m, v))
  BY <1>1, <1>2, <1>4, SameTrap DEF Open, v, w
<1> QED
  BY <1>3, <1>4

(* Two machines that were the same are the same, but for the flags, if the *)
(* pools of both have grown, and a register got words that are the same.   *)
Gets(m, n, r, w) == n.mem = m.mem /\ n.reg = [m.reg EXCEPT ![r] = w]

LEMMA SameGrown ==
  ASSUME NEW m, NEW k, NEW R, Same(m, k, R), NEW n, NEW l, Sound(n), Sound(l), Grows(m, n), Grows(k, l),
         NEW r, NEW v, NEW w, NEW S \in Relations, Twin(n, S, v, w),
         \/ S = R
         \/ /\ S = R \cup {<<v, w>>} /\ v.tag = w.tag /\ v.tag \in Handles /\ v \in LiveWords(n) /\ w \in LiveWords(l)
            /\ Seen(n, v) = Seen(l, w) /\ Twin(n, S, Inside(n, v), Inside(l, w)),
         Gets(m, n, r, v), Gets(k, l, r, w),
         n.sp = l.sp, n.tensors = l.tensors, n.reflections = l.reflections, n.pc = l.pc, n.trap = l.trap,
         n.printed = l.printed, l.elements <= n.elements
  PROVE  Pair(n, l, S)
<1>1. LiveWords(m) \subseteq LiveWords(n) /\ LiveWords(k) \subseteq LiveWords(l) /\ R \subseteq S
  BY LiveGrows DEF LiveWords
<1>2. \A x, y : Twin(m, R, x, y) => Twin(n, S, x, y)
  BY <1>1, TwinStays
<1>3. \A x \in Registers : Twin(n, S, n.reg[x], l.reg[x])
  <2>1. \A x \in Registers : Twin(m, R, m.reg[x], k.reg[x])
    BY SameFacts
  <2>2. DOMAIN m.reg = Registers /\ DOMAIN k.reg = Registers
    BY SameFacts
  <2> QED
    BY <1>2, <2>1, <2>2 DEF Gets
<1>4. \A a \in Addresses : Twin(n, S, n.mem[a], l.mem[a])
  BY <1>2, SameFacts DEF Gets
<1>5. ASSUME NEW x \in Words, NEW y \in Words, <<x, y>> \in S
      PROVE  /\ x \in LiveWords(n) /\ y \in LiveWords(l) /\ x.tag = y.tag /\ x.tag \in Handles
             /\ Seen(n, x) = Seen(l, y) /\ Twin(n, S, Inside(n, x), Inside(l, y))
  <2>1. CASE <<x, y>> \in R
    <3>1. /\ x \in LiveWords(m) /\ y \in LiveWords(k) /\ x.tag = y.tag /\ x.tag \in Handles
          /\ Seen(m, x) = Seen(k, y) /\ Twin(m, R, Inside(m, x), Inside(k, y))
      BY <2>1 DEF Same, Pair, Alike, Bisim
    <3>2. Seen(n, x) = Seen(m, x) /\ Inside(n, x) = Inside(m, x) /\ Seen(l, y) = Seen(k, y) /\ Inside(l, y) = Inside(k, y)
      BY <3>1, LiveGrows DEF LiveWords
    <3> QED
      BY <1>1, <1>2, <3>1, <3>2
  <2>2. CASE <<x, y>> \notin R
    <3>1. S = R \cup {<<v, w>>} /\ x = v /\ y = w
      BY <1>5, <2>2
    <3> QED
      BY <2>2, <3>1, <1>5
  <2> QED
    BY <2>1, <2>2
<1>6. Alike(n, l, S)
  BY <1>3, <1>4, <1>5 DEF Alike, Bisim
<1> QED
  BY <1>6 DEF Pair

(* A tensor and its word.                                                  *)
Given(m, r, shape, e) == Put(WithTensor(m, shape, e), r, Word(Len(m.tensors) + 1, "Tensor"))

LEMMA AllocatedIs ==
  ASSUME NEW m, Sound(m), NEW r \in Registers, NEW shape \in Seq(Nat), NEW e \in Int,
         NEW n, n = Given(m, r, shape, e), NEW w, w = Word(Len(m.tensors) + 1, "Tensor")
  PROVE  /\ Sound(n) /\ Grows(m, n) /\ w \in LiveWords(n) /\ Differs(m, n, {"reg", "tensors", "elements"})
         /\ n.reg = [m.reg EXCEPT ![r] = w] /\ n.tensors = Append(m.tensors, shape) /\ n.elements = e
<1> DEFINE g == WithTensor(m, shape, e)
<1>0. n = Put(g, r, w)
  BY DEF Given
<1>1. Differs(m, g, {"tensors", "elements"}) /\ g.tensors = Append(m.tensors, shape) /\ g.elements = e
  BY WithTensorIs, SoundFacts
<1> HIDE DEF g
<1>2. Sound(g) /\ Grows(m, g) /\ w \in LiveWords(g)
  BY <1>1, SoundTensor
<1>3. Sound(n) /\ LiveWords(n) = LiveWords(g)
  BY <1>0, <1>2, SoundPut
<1>4. Differs(g, n, {"reg"}) /\ n.reg = [g.reg EXCEPT ![r] = w]
  BY <1>0, <1>2, PutIs, SoundFacts
<1>5. Differs(m, n, {"reg", "tensors", "elements"}) /\ n.tensors = g.tensors /\ n.elements = g.elements /\ g.reg = m.reg
  BY <1>1, <1>4 DEF Differs
<1>6. Grows(m, n)
  <2>1. \A tag : PoolOf(n, tag) = PoolOf(g, tag)
    BY <1>4 DEF Differs, PoolOf
  <2> QED
    BY <1>2, <1>5, <2>1 DEF Grows
<1>7. /\ Sound(n) /\ Grows(m, n) /\ w \in LiveWords(n) /\ Differs(m, n, {"reg", "tensors", "elements"})
      /\ n.reg = [m.reg EXCEPT ![r] = w] /\ n.tensors = Append(m.tensors, shape) /\ n.elements = e
  BY <1>1, <1>2, <1>3, <1>4, <1>5, <1>6
<1> QED
  BY <1>7

(* A tensor is allocated in both, or the first is denied it.               *)
LEMMA SameAlloc ==
  ASSUME NEW m, NEW k, NEW R, Same(m, k, R), m.trap = "None", NEW r \in Registers, NEW shape \in Seq(Nat),
         AllocTensor(m, r, shape).trap # "SecurityFault"
  PROVE  /\ Same(AllocTensor(m, r, shape), AllocTensor(k, r, shape), R)
         /\ AllocTensor(m, r, shape).trap = "None"
         /\ AllocTensor(m, r, shape).reg = [m.reg EXCEPT ![r] = Word(Len(m.tensors) + 1, "Tensor")]
         /\ AllocTensor(k, r, shape) = Given(k, r, shape, k.elements + Elements(shape))
<1> DEFINE w == Word(Len(m.tensors) + 1, "Tensor")
           n == Given(m, r, shape, m.elements + Elements(shape))
           l == Given(k, r, shape, k.elements + Elements(shape))
<1>1. /\ Sound(m) /\ Sound(k) /\ HasFields(m) /\ HasFields(k) /\ m.tensors = k.tensors /\ k.elements <= m.elements
      /\ m.sp = k.sp /\ m.reflections = k.reflections /\ m.pc = k.pc /\ m.trap = k.trap /\ m.printed = k.printed
      /\ m.flag = k.flag
  BY SameFacts
<1>2. m.elements \in Int /\ k.elements \in Int /\ Elements(shape) \in Nat /\ MaxElements \in Nat
  BY <1>1, SoundFacts, ElementsAre, LayoutAssumption
<1>3. Trapped(m, "SecurityFault").trap = "SecurityFault"
  BY <1>1, TrapIs
<1>4. ~(Len(m.tensors) >= MaxTensors) /\ ~(m.elements + Elements(shape) > MaxElements)
  BY <1>3 DEF AllocTensor
<1>5. ~(Len(k.tensors) >= MaxTensors) /\ ~(k.elements + Elements(shape) > MaxElements)
  BY <1>1, <1>2, <1>4
<1>6. AllocTensor(m, r, shape) = n /\ AllocTensor(k, r, shape) = l
  <2>1. ASSUME NEW q, HasFields(q), ~(Len(q.tensors) >= MaxTensors), ~(q.elements + Elements(shape) > MaxElements)
        PROVE  AllocTensor(q, r, shape) = Given(q, r, shape, q.elements + Elements(shape))
    BY <2>1, AllocIs DEF AllocTensor, Given
  <2> QED
    BY <1>1, <1>4, <1>5, <2>1
<1>7. /\ Sound(n) /\ Grows(m, n) /\ w \in LiveWords(n) /\ Differs(m, n, {"reg", "tensors", "elements"})
      /\ n.reg = [m.reg EXCEPT ![r] = w] /\ n.tensors = Append(m.tensors, shape) /\ n.elements = m.elements + Elements(shape)
  <2> DEFINE e == m.elements + Elements(shape)
  <2>1. e \in Int
    BY <1>2
  <2>2. n = Given(m, r, shape, e) /\ w = Word(Len(m.tensors) + 1, "Tensor")
    OBVIOUS
  <2> HIDE DEF n, e, w
  <2>3. /\ Sound(n) /\ Grows(m, n) /\ w \in LiveWords(n) /\ Differs(m, n, {"reg", "tensors", "elements"})
        /\ n.reg = [m.reg EXCEPT ![r] = w] /\ n.tensors = Append(m.tensors, shape) /\ n.elements = e
    BY <1>1, <2>1, <2>2, AllocatedIs
  <2> QED
    BY <2>3 DEF e
<1>8. /\ Sound(l) /\ Grows(k, l) /\ Differs(k, l, {"reg", "tensors", "elements"})
      /\ l.reg = [k.reg EXCEPT ![r] = w] /\ l.tensors = Append(m.tensors, shape) /\ l.elements = k.elements + Elements(shape)
  <2> DEFINE e == k.elements + Elements(shape)
  <2>1. e \in Int
    BY <1>2
  <2>2. l = Given(k, r, shape, e) /\ w = Word(Len(k.tensors) + 1, "Tensor")
    BY <1>1
  <2> HIDE DEF l, e, w
  <2>3. /\ Sound(l) /\ Grows(k, l) /\ Differs(k, l, {"reg", "tensors", "elements"})
        /\ l.reg = [k.reg EXCEPT ![r] = w] /\ l.tensors = Append(k.tensors, shape) /\ l.elements = e
    BY <1>1, <2>1, <2>2, AllocatedIs
  <2> QED
    BY <1>1, <2>3 DEF e
<1>9. w.tag \notin Handles
  BY DEF Word, Handles
<1> HIDE DEF n, l, w
<1>10. /\ n.mem = m.mem /\ l.mem = k.mem /\ n.sp = l.sp /\ n.tensors = l.tensors /\ n.reflections = l.reflections
       /\ n.pc = l.pc /\ n.trap = l.trap /\ n.trap = m.trap /\ n.printed = l.printed /\ n.flag = l.flag
  BY <1>1, <1>7, <1>8 DEF Differs
<1>11. l.elements <= n.elements
  BY <1>1, <1>2, <1>7, <1>8
<1>12. Twin(n, R, w, w) /\ R \in Relations
  BY <1>7, <1>9 DEF Twin, Same, Pair, Alike
<1>13. Pair(n, l, R)
  <2>1. /\ Sound(n) /\ Sound(l) /\ Grows(m, n) /\ Grows(k, l) /\ Gets(m, n, r, w) /\ Gets(k, l, r, w)
    BY <1>7, <1>8, <1>10 DEF Gets
  <2> QED
    BY <1>10, <1>11, <1>12, <2>1, SameGrown
<1> QED
  BY <1>6, <1>7, <1>10, <1>13, <1>1 DEF Same, w, l

LEMMA SamePromote ==
  ASSUME NEW m, NEW k, NEW R, Same(m, k, R), m.trap = "None", NEW r \in Registers,
         promote_to_tensor(m, r).trap # "SecurityFault"
  PROVE  /\ Same(promote_to_tensor(m, r), promote_to_tensor(k, r), R)
         /\ promote_to_tensor(m, r).trap = "None"
         /\ \A q \in Registers : m.reg[q].tag \notin Handles => promote_to_tensor(m, r).reg[q].tag \notin Handles
<1>1. m.reg[r].tag = k.reg[r].tag /\ DOMAIN m.reg = Registers
  BY SameFacts, SameReads
<1>2. CASE m.reg[r].tag = "Weights"
  <2>1. <<2>> \in Seq(Nat)
    OBVIOUS
  <2> DEFINE n == AllocTensor(m, r, <<2>>)
             l == AllocTensor(k, r, <<2>>)
             w == Word(Len(m.tensors) + 1, "Tensor")
  <2>2. promote_to_tensor(m, r) = n /\ promote_to_tensor(k, r) = l
    BY <1>1, <1>2 DEF promote_to_tensor
  <2>3. Same(n, l, R) /\ n.trap = "None" /\ n.reg = [m.reg EXCEPT ![r] = w]
    <3>1. n.trap # "SecurityFault"
      BY <2>2
    <3> DEFINE shape == <<2>>
    <3>2. shape \in Seq(Nat) /\ n = AllocTensor(m, r, shape) /\ l = AllocTensor(k, r, shape)
      BY <2>1
    <3> HIDE DEF n, l, shape
    <3> QED
      BY <3>1, <3>2, SameAlloc
  <2>4. w.tag \notin Handles
    BY DEF Word, Handles
  <2> HIDE DEF n, l, w
  <2> QED
    BY <1>1, <2>2, <2>3, <2>4
<1>3. CASE m.reg[r].tag # "Weights"
  BY <1>1, <1>3 DEF promote_to_tensor
<1> QED
  BY <1>2, <1>3

LEMMA SameTensorOp ==
  ASSUME NEW m, NEW k, NEW R, NEW i, Ready(m, k, R, i), i.op \in TensorOps
  PROVE  Same(TensorOp(m, i), TensorOp(k, i), R)
<1>0. /\ Same(m, k, R) /\ m.trap = "None" /\ reg_ok(m, i) /\ {i.a, i.b, i.c} \subseteq Registers
      /\ DOMAIN m.reg = Registers /\ Departures(m, i) = {}
  BY ReadyFacts, SameFacts, NamedAre
<1>1. m.reg[i.b].tag \notin Handles /\ m.reg[i.c].tag \notin Handles /\ TensorOp(m, i).trap # "SecurityFault"
  <2>1. i.op \in ReadsNumbers /\ i.op \in AllocatesTensor /\ i.op \notin NamesIndex \cup {"Inc", "Dec", "MemZero", "Copy"}
    BY DEF ReadsNumbers, AllocatesTensor, TensorOps, NamesIndex
  <2>2. m.reg[i.b] \in Operands(m, i) /\ m.reg[i.c] \in Operands(m, i)
    BY <1>0, <2>1 DEF Operands
  <2>3. Interp(m, i) = TensorOp(m, i)
    BY <1>0, Dispatch DEF Interp
  <2> QED
    BY <1>0, <2>1, <2>2, <2>3, NotDeparted
<1> DEFINE first(q) == promote_to_tensor(q, i.b)
           both(q) == IF first(q).trap = "None" THEN promote_to_tensor(first(q), i.c) ELSE first(q)
           Rest(q, x, y) == IF ~({x, y} \subseteq DOMAIN q.tensors)
                            THEN Trapped(q, IF i.op = "TRMSNorm" THEN "ShapeFault" ELSE "DecodeFault")
                            ELSE IF ~Fits(i.op, q.tensors[x], q.tensors[y]) THEN Trapped(q, "ShapeFault")
                            ELSE AllocTensor(q, i.a, ShapeOf(i.op, q.tensors[x], q.tensors[y]))
<1>2. \A q : TensorOp(q, i) = IF both(q).trap # "None" THEN both(q)
                              ELSE Rest(both(q), both(q).reg[i.b].n, both(q).reg[i.c].n)
  BY DEF TensorOp
<1>3. /\ Same(first(m), first(k), R) /\ first(m).trap = "None"
      /\ first(m).reg[i.b].tag \notin Handles /\ first(m).reg[i.c].tag \notin Handles
  <2>1. first(m).trap # "SecurityFault"
    BY <1>1, <1>2
  <2> QED
    BY <1>0, <1>1, <2>1, SamePromote
<1>4. first(k).trap = "None"
  BY <1>3, SameFacts
<1>5. both(m) = promote_to_tensor(first(m), i.c) /\ both(k) = promote_to_tensor(first(k), i.c)
  BY <1>3, <1>4
<1>6. both(m).trap # "SecurityFault"
  <2> HIDE DEF both, Rest
  <2> QED
    BY <1>1, <1>2
<1> HIDE DEF first
<1>7. /\ Same(both(m), both(k), R) /\ both(m).trap = "None"
      /\ both(m).reg[i.b].tag \notin Handles /\ both(m).reg[i.c].tag \notin Handles
  BY <1>0, <1>3, <1>5, <1>6, SamePromote
<1> HIDE DEF both
<1>8. /\ both(k).trap = "None" /\ both(m).reg[i.b] = both(k).reg[i.b] /\ both(m).reg[i.c] = both(k).reg[i.c]
      /\ both(m).tensors = both(k).tensors /\ Sound(both(m))
  BY <1>0, <1>7, SameReads, SameFacts
<1> DEFINE x == both(m).reg[i.b].n
           y == both(m).reg[i.c].n
           n == both(m)
           l == both(k)
<1>9. TensorOp(m, i) = Rest(n, x, y) /\ TensorOp(k, i) = Rest(l, x, y)
  BY <1>2, <1>7, <1>8
<1>10. Same(n, l, R) /\ n.trap = "None" /\ n.tensors = l.tensors /\ Rest(n, x, y).trap # "SecurityFault"
  BY <1>1, <1>7, <1>8, <1>9
<1>11. \A h \in DOMAIN n.tensors : n.tensors[h] \in Seq(Nat)
  BY <1>8, SoundPools
<1> HIDE DEF n, l, x, y
<1>12. Same(Rest(n, x, y), Rest(l, x, y), R)
  <2>1. CASE {x, y} \subseteq DOMAIN n.tensors /\ Fits(i.op, n.tensors[x], n.tensors[y])
    <3> DEFINE shape == ShapeOf(i.op, n.tensors[x], n.tensors[y])
    <3>1. shape \in Seq(Nat)
      BY <1>11, <2>1, ShapesAre
    <3>2. Rest(n, x, y) = AllocTensor(n, i.a, shape) /\ Rest(l, x, y) = AllocTensor(l, i.a, shape)
      BY <1>10, <2>1
    <3>3. AllocTensor(n, i.a, shape).trap # "SecurityFault" /\ i.a \in Registers
      BY <1>0, <1>10, <3>2
    <3> HIDE DEF shape, Rest
    <3>4. Same(AllocTensor(n, i.a, shape), AllocTensor(l, i.a, shape), R)
      BY <1>10, <3>1, <3>3, SameAlloc
    <3> QED
      BY <3>2, <3>4
  <2>2. CASE ~({x, y} \subseteq DOMAIN n.tensors /\ Fits(i.op, n.tensors[x], n.tensors[y]))
    <3>1. \E t : Rest(n, x, y) = Trapped(n, t) /\ Rest(l, x, y) = Trapped(l, t)
      BY <1>10, <2>2
    <3> HIDE DEF Rest
    <3> QED
      BY <1>10, <3>1, SameTrap
  <2> QED
    BY <2>1, <2>2
<1> QED
  BY <1>9, <1>12

LEMMA SameUnaryTensorOp ==
  ASSUME NEW m, NEW k, NEW R, NEW i, Ready(m, k, R, i), i.op \in UnaryTensorOps
  PROVE  Same(UnaryTensorOp(m, i), UnaryTensorOp(k, i), R)
<1>0. /\ Same(m, k, R) /\ m.trap = "None" /\ reg_ok(m, i) /\ {i.a, i.b} \subseteq Registers
      /\ DOMAIN m.reg = Registers /\ Departures(m, i) = {}
  BY ReadyFacts, SameFacts, NamedAre
<1>1. m.reg[i.b].tag \notin Handles /\ UnaryTensorOp(m, i).trap # "SecurityFault"
  <2>1. i.op \in ReadsNumbers /\ i.op \in AllocatesTensor /\ i.op \notin NamesIndex \cup {"Inc", "Dec", "MemZero", "Copy"}
    BY DEF ReadsNumbers, AllocatesTensor, UnaryTensorOps, NamesIndex
  <2>2. m.reg[i.b] \in Operands(m, i)
    BY <1>0, <2>1 DEF Operands
  <2>3. Interp(m, i) = UnaryTensorOp(m, i)
    BY <1>0, Dispatch DEF Interp
  <2> QED
    BY <1>0, <2>1, <2>2, <2>3, NotDeparted
<1> DEFINE n == promote_to_tensor(m, i.b)
           l == promote_to_tensor(k, i.b)
           none == IF i.op \in {"TRoPE", "TTranspose"} THEN "ShapeFault" ELSE "DecodeFault"
           Rest(q, x) == IF x \notin DOMAIN q.tensors THEN Trapped(q, none)
                         ELSE IF (i.op = "TTranspose" /\ Len(q.tensors[x]) # 2) \/ (i.op = "TRoPE" /\ Len(q.tensors[x]) < 2)
                              THEN Trapped(q, "ShapeFault")
                         ELSE AllocTensor(q, i.a, IF i.op = "TTranspose" THEN Reverse(q.tensors[x]) ELSE q.tensors[x])
<1>2. /\ UnaryTensorOp(m, i) = IF n.trap # "None" THEN n ELSE Rest(n, n.reg[i.b].n)
      /\ UnaryTensorOp(k, i) = IF l.trap # "None" THEN l ELSE Rest(l, l.reg[i.b].n)
  BY DEF UnaryTensorOp
<1>3. n.trap # "SecurityFault"
  BY <1>1, <1>2
<1>4. Same(n, l, R) /\ n.trap = "None" /\ n.reg[i.b].tag \notin Handles
  BY <1>0, <1>1, <1>3, SamePromote
<1> HIDE DEF n, l
<1>5. l.trap = "None" /\ n.reg[i.b] = l.reg[i.b] /\ n.tensors = l.tensors /\ Sound(n)
  BY <1>0, <1>4, SameReads, SameFacts
<1> DEFINE x == n.reg[i.b].n
<1>6. UnaryTensorOp(m, i) = Rest(n, x) /\ UnaryTensorOp(k, i) = Rest(l, x) /\ Rest(n, x).trap # "SecurityFault"
  BY <1>1, <1>2, <1>4, <1>5
<1>7. \A h \in DOMAIN n.tensors : n.tensors[h] \in Seq(Nat) /\ Reverse(n.tensors[h]) \in Seq(Nat)
  <2>1. \A h \in DOMAIN n.tensors : n.tensors[h] \in Seq(Nat)
    BY <1>5, SoundPools
  <2>2. \A s \in Seq(Nat) : Reverse(s) \in Seq(Nat)
    BY ShapesAre
  <2> QED
    BY <2>1, <2>2
<1> HIDE DEF x
<1>8. Same(Rest(n, x), Rest(l, x), R)
  <2>1. \/ \E t : Rest(n, x) = Trapped(n, t) /\ Rest(l, x) = Trapped(l, t)
        \/ \E shape \in Seq(Nat) : Rest(n, x) = AllocTensor(n, i.a, shape) /\ Rest(l, x) = AllocTensor(l, i.a, shape)
    BY <1>5, <1>7
  <2>2. Rest(n, x).trap # "SecurityFault"
    BY <1>6
  <2> HIDE DEF Rest
  <2>3. CASE \E t : Rest(n, x) = Trapped(n, t) /\ Rest(l, x) = Trapped(l, t)
    BY <1>4, <2>3, SameTrap
  <2>4. ASSUME NEW shape \in Seq(Nat), Rest(n, x) = AllocTensor(n, i.a, shape), Rest(l, x) = AllocTensor(l, i.a, shape)
        PROVE  Same(Rest(n, x), Rest(l, x), R)
    <3>1. Same(AllocTensor(n, i.a, shape), AllocTensor(l, i.a, shape), R)
      BY <1>0, <1>4, <2>2, <2>4, SameAlloc
    <3> QED
      BY <2>4, <3>1
  <2> QED
    BY <2>1, <2>3, <2>4
<1> QED
  BY <1>6, <1>8

(* A word that is no handle is its own twin; a word that is loaded.        *)
LEMMA SameLoaded ==
  ASSUME NEW m, NEW k, NEW R, Same(m, k, R), NEW r \in Registers, NEW v, NEW w, Twin(m, R, v, w)
  PROVE  Same(update_flags(Put(m, r, v), v.n), update_flags(Put(k, r, w), w.n), R)
<1> DEFINE n == Put(m, r, v)
           l == Put(k, r, w)
<1>1. Same(n, l, R)
  BY SamePut
<1>2. SignOf(v.n) = SignOf(w.n)
  BY SameFacts, TwinLooks
<1> HIDE DEF n, l
<1>3. Pair(n, l, R)
  BY <1>1 DEF Same
<1>4. Same(update_flags(n, v.n), update_flags(l, w.n), R)
  BY <1>2, <1>3, SameFlags
<1> QED
  BY <1>4 DEF n, l

LEMMA IntTwin == ASSUME NEW m, NEW R, NEW x \in Int PROVE Twin(m, R, Word(x, "Int"), Word(x, "Int"))
BY IntIs DEF Twin, Word, Handles

LEMMA SameMoves ==
  ASSUME NEW m, NEW k, NEW R, NEW i, Ready(m, k, R, i)
  PROVE  /\ i.op = "SetF" => Same(SetFlag(m, i), SetFlag(k, i), R)
         /\ i.op = "LoadImm" => Same(LoadImm(m, i), LoadImm(k, i), R)
         /\ i.op = "Mov" => Same(Mov(m, i), Mov(k, i), R)
         /\ i.op = "Load" => Same(Load(m, i), Load(k, i), R)
         /\ i.op = "Store" => Same(Store(m, i), Store(k, i), R)
<1>0. Same(m, k, R) /\ Sound(m) /\ m.trap = "None" /\ reg_ok(m, i) /\ m.flag = k.flag /\ i \in Insns /\ Forges(m, i) = {}
  BY ReadyFacts
<1>1. ASSUME i.op = "SetF"
      PROVE  Same(SetFlag(m, i), SetFlag(k, i), R)
  <2> DEFINE n == IF m.flag = -1 THEN -1 ELSE IF m.flag # 0 THEN 1 ELSE 0
  <2>1. n \in Int /\ i.a \in Registers
    BY <1>0, <1>1, NamedAre
  <2>2. SetFlag(m, i) = update_flags(set_reg(m, i.a, Word(n, "Int")), n)
        /\ SetFlag(k, i) = update_flags(set_reg(k, i.a, Word(n, "Int")), n)
    BY <1>0 DEF SetFlag
  <2> HIDE DEF n
  <2>3. Twin(m, R, Word(n, "Int"), Word(n, "Int"))
    BY <2>1, IntTwin
  <2> QED
    BY <1>0, <2>1, <2>2, <2>3, SameSet
<1>2. ASSUME i.op = "LoadImm"
      PROVE  Same(LoadImm(m, i), LoadImm(k, i), R)
  <2>1. Literal(i) \in LiveWords(m) /\ Literal(i).tag \notin Handles /\ i.a \in Registers
    BY <1>0, <1>2, NamedAre, LiteralIs DEF Forges, Way, Forged
  <2>2. Twin(m, R, Literal(i), Literal(i))
    BY <2>1 DEF Twin
  <2> QED
    BY <1>0, <2>1, <2>2, SameSet DEF LoadImm
<1>3. ASSUME i.op = "Mov"
      PROVE  Same(Mov(m, i), Mov(k, i), R)
  <2>1. i.a \in Registers /\ i.b \in Registers
    BY <1>0, <1>3, NamedAre
  <2>2. Twin(m, R, m.reg[i.b], k.reg[i.b])
    BY <1>0, <2>1, SameReads
  <2> QED
    BY <1>0, <2>1, <2>2, SameSet DEF Mov
<1>4. ASSUME i.op = "Load"
      PROVE  Same(Load(m, i), Load(k, i), R)
  <2>1. i.a \in Registers
    BY <1>0, <1>4, NamedAre
  <2>2. CASE mem_ok(i.b)
    <3>1. Twin(m, R, m.mem[i.b], k.mem[i.b])
      BY <1>0, <2>2, LayoutIs, SameFacts DEF mem_ok
    <3>2. Same(update_flags(Put(m, i.a, m.mem[i.b]), m.mem[i.b].n), update_flags(Put(k, i.a, k.mem[i.b]), k.mem[i.b].n), R)
      BY <1>0, <2>1, <3>1, SameLoaded
    <3> QED
      BY <2>2, <3>2 DEF Load
  <2>3. CASE ~mem_ok(i.b)
    BY <1>0, <2>3, SameTrap DEF Load
  <2> QED
    BY <2>2, <2>3
<1>5. ASSUME i.op = "Store"
      PROVE  Same(Store(m, i), Store(k, i), R)
  <2>1. i.b \in Registers
    BY <1>0, <1>5, NamedAre
  <2>2. CASE mem_ok(i.a)
    <3>1. i.a \in Addresses /\ Twin(m, R, m.reg[i.b], k.reg[i.b])
      BY <1>0, <2>1, <2>2, LayoutIs, SameReads DEF mem_ok
    <3>2. Same([m EXCEPT !.mem[i.a] = m.reg[i.b]], [k EXCEPT !.mem[i.a] = k.reg[i.b]], R)
      BY <1>0, <3>1, SameStore
    <3> QED
      BY <2>2, <3>2 DEF Store
  <2>3. CASE ~mem_ok(i.a)
    BY <1>0, <2>3, SameTrap DEF Store
  <2> QED
    BY <2>2, <2>3
<1> QED
  BY <1>1, <1>2, <1>3, <1>4, <1>5

LEMMA SameStack ==
  ASSUME NEW m, NEW k, NEW R, NEW i, Ready(m, k, R, i), i.op \in {"Push", "Pop"}
  PROVE  Same(Push(m, i), Push(k, i), R) /\ Same(Pop(m, i), Pop(k, i), R)
<1>0. /\ Same(m, k, R) /\ Sound(m) /\ Sound(k) /\ HasFields(m) /\ HasFields(k) /\ m.trap = "None" /\ m.sp = k.sp
      /\ i.a \in Registers /\ m.sp \in StackLimit..StackBase /\ StackLimit \in Nat /\ StackBase \in Nat /\ StackBase <= MemSize
      /\ MemSize \in Nat
  BY ReadyFacts, SameFacts, SoundFacts, NamedAre, LayoutIs
<1>1. Same(Trapped(m, "StackFault"), Trapped(k, "StackFault"), R)
  BY <1>0, SameTrap
<1>2. Same(Push(m, i), Push(k, i), R)
  <2>1. CASE m.sp <= StackLimit \/ StackBase - (m.sp - 1) > MaxStack
    BY <1>0, <1>1, <2>1 DEF Push
  <2>2. CASE ~(m.sp <= StackLimit \/ StackBase - (m.sp - 1) > MaxStack)
    <3> DEFINE s == m.sp - 1
               n == [m EXCEPT !.sp = s]
               l == [k EXCEPT !.sp = s]
               v == m.reg[i.a]
               w == k.reg[i.a]
    <3>1. s \in StackLimit..StackBase /\ s \in Addresses
      BY <1>0, <2>2 DEF Addresses
    <3>2. Push(m, i) = Pushed(m, i.a) /\ Push(k, i) = Pushed(k, i.a)
      BY <1>0, <2>2 DEF Push, Pushed
    <3>3. Push(m, i) = [n EXCEPT !.mem[s] = v] /\ Push(k, i) = [l EXCEPT !.mem[s] = w]
      BY <1>0, <3>2, PushedIs
    <3>4. Twin(m, R, v, w)
      BY <1>0, SameReads
    <3> HIDE DEF s, v, w
    <3>5. Same(n, l, R) /\ LiveWords(n) = LiveWords(m)
      BY <1>0, <3>1, SameFields, SoundFields
    <3>6. Twin(n, R, v, w)
      BY <3>4, <3>5 DEF Twin
    <3> HIDE DEF n, l
    <3> QED
      BY <3>1, <3>3, <3>5, <3>6, SameStore
  <2> QED
    BY <2>1, <2>2
<1>3. Same(Pop(m, i), Pop(k, i), R)
  <2>1. CASE m.sp >= StackBase
    BY <1>0, <1>1, <2>1 DEF Pop
  <2>2. CASE ~(m.sp >= StackBase)
    <3> DEFINE v == m.mem[m.sp]
               w == k.mem[m.sp]
               n == Put(m, i.a, v)
               l == Put(k, i.a, w)
               s == m.sp + 1
    <3>1. m.sp \in Addresses /\ s \in StackLimit..StackBase
      BY <1>0, <2>2 DEF Addresses
    <3>2. Twin(m, R, v, w)
      BY <1>0, <3>1, SameFacts
    <3>3. SignOf(v.n) = SignOf(w.n)
      BY <1>0, <3>2, SameFacts, TwinLooks
    <3>4. n.sp = m.sp /\ l.sp = m.sp
      <4>1. Differs(m, n, {"reg"}) /\ Differs(k, l, {"reg"})
        BY <1>0, PutIs
      <4> QED
        BY <1>0, <4>1 DEF Differs
    <3>5. /\ Pop(m, i) = update_flags([n EXCEPT !.sp = n.sp + 1], v.n)
          /\ Pop(k, i) = update_flags([l EXCEPT !.sp = l.sp + 1], w.n)
      BY <1>0, <2>2 DEF Pop
    <3> HIDE DEF v, w
    <3>6. Same(n, l, R)
      BY <1>0, <3>2, SamePut
    <3> HIDE DEF n, l, s
    <3>7. Same([n EXCEPT !.sp = s], [l EXCEPT !.sp = s], R)
      BY <3>1, <3>6, SameFields
    <3>8. Pop(m, i) = update_flags([n EXCEPT !.sp = s], v.n) /\ Pop(k, i) = update_flags([l EXCEPT !.sp = s], w.n)
      BY <3>4, <3>5 DEF s
    <3> DEFINE p == [n EXCEPT !.sp = s]
               q == [l EXCEPT !.sp = s]
    <3>9. Pair(p, q, R)
      BY <3>7 DEF Same
    <3> HIDE DEF p, q
    <3>10. Same(update_flags(p, v.n), update_flags(q, w.n), R)
      BY <3>3, <3>9, SameFlags
    <3> QED
      BY <3>8, <3>10 DEF p, q
  <2> QED
    BY <2>1, <2>2
<1> QED
  BY <1>2, <1>3

LEMMA SameMemZero ==
  ASSUME NEW m, NEW k, NEW R, NEW i, Ready(m, k, R, i), i.op = "MemZero"
  PROVE  Same(MemZero(m, i), MemZero(k, i), R)
<1>0. /\ Same(m, k, R) /\ m.trap = "None" /\ m.reg[i.a] = k.reg[i.a] /\ m.reg[i.b] = k.reg[i.b]
      /\ DOMAIN m.mem = Addresses /\ DOMAIN k.mem = Addresses
  BY ReadyFacts, NumbersRead, SameFacts DEF ReadsNumbers
<1> DEFINE wanted == AddressesFrom(m, i.a, m.reg[i.b].n)
           reached == {w \in wanted : \A v \in wanted : v <= w => mem_ok(v)}
           f == [w \in DOMAIN m.mem |-> IF w \in reached THEN Word(0, "Int") ELSE m.mem[w]]
           g == [w \in DOMAIN k.mem |-> IF w \in reached THEN Word(0, "Int") ELSE k.mem[w]]
<1>1. wanted = AddressesFrom(k, i.a, k.reg[i.b].n)
  BY <1>0 DEF AddressesFrom
<1>2. /\ MemZero(m, i) = IF reached = wanted THEN [m EXCEPT !.mem = f] ELSE Trapped([m EXCEPT !.mem = f], "BoundsFault")
      /\ MemZero(k, i) = IF reached = wanted THEN [k EXCEPT !.mem = g] ELSE Trapped([k EXCEPT !.mem = g], "BoundsFault")
  BY <1>1 DEF MemZero
<1>3. /\ DOMAIN f = Addresses /\ DOMAIN g = Addresses /\ f = [a \in Addresses |-> f[a]] /\ g = [a \in Addresses |-> g[a]]
  BY <1>0
<1>4. \A a \in Addresses : Twin(m, R, f[a], g[a])
  <2>1. Twin(m, R, Word(0, "Int"), Word(0, "Int"))
    BY IntTwin
  <2>2. \A a \in Addresses : Twin(m, R, m.mem[a], k.mem[a])
    BY <1>0, SameFacts
  <2> HIDE DEF reached
  <2> QED
    BY <1>0, <2>1, <2>2
<1> HIDE DEF f, g, reached, wanted
<1> DEFINE n == [m EXCEPT !.mem = f]
           l == [k EXCEPT !.mem = g]
<1>5. Same(n, l, R) /\ n.trap = "None"
  BY <1>0, <1>3, <1>4, SameMem
<1> HIDE DEF n, l
<1>6. Same(Trapped(n, "BoundsFault"), Trapped(l, "BoundsFault"), R)
  BY <1>5, SameTrap
<1> QED
  BY <1>2, <1>5, <1>6 DEF n, l

LEMMA SameCopy ==
  ASSUME NEW m, NEW k, NEW R, NEW i, Ready(m, k, R, i), i.op = "Copy"
  PROVE  Same(Copy(m, i), Copy(k, i), R)
<1>0. /\ Same(m, k, R) /\ m.trap = "None" /\ {i.a, i.b, i.c} \subseteq Registers /\ Sound(m) /\ Sound(k)
      /\ DOMAIN m.mem = Addresses /\ DOMAIN k.mem = Addresses
  BY ReadyFacts, NamedAre, SameFacts
<1>1. m.reg[i.a] = k.reg[i.a] /\ m.reg[i.b] = k.reg[i.b] /\ m.reg[i.c] = k.reg[i.c]
  BY <1>0, NumbersRead DEF ReadsNumbers
<1> DEFINE to == m.reg[i.a].n
           from == m.reg[i.b].n
           size == m.reg[i.c].n
           f == CopyWords(m.mem, to, from, size)
           g == CopyWords(k.mem, to, from, size)
           ok == AddressesFrom(m, i.a, size) \cup AddressesFrom(m, i.b, size) \subseteq Segments
<1>2. to \in Int /\ from \in Int /\ size \in Int
  BY <1>0, SoundRead
<1>3. /\ Copy(m, i) = IF ok THEN [m EXCEPT !.mem = f] ELSE Trapped(m, "BoundsFault")
      /\ Copy(k, i) = IF ok THEN [k EXCEPT !.mem = g] ELSE Trapped(k, "BoundsFault")
  BY <1>1 DEF Copy, AddressesFrom
<1>4. CASE ok
  <2>1. to..(to + size - 1) \cup from..(from + size - 1) \subseteq Segments
    BY <1>4 DEF AddressesFrom
  <2> DEFINE source(w) == from + (IF to > from THEN (w - to) % (to - from) ELSE w - to)
  <2> HIDE DEF to, from, size
  <2>2. \A w \in to..(to + size - 1) : source(w) \in Addresses
    BY <1>0, <1>2, <2>1, CopyIs, LayoutIs
  <2>3. /\ f = [w \in Addresses |-> IF w \notin to..(to + size - 1) THEN m.mem[w] ELSE m.mem[source(w)]]
        /\ g = [w \in Addresses |-> IF w \notin to..(to + size - 1) THEN k.mem[w] ELSE k.mem[source(w)]]
    BY <1>0 DEF CopyWords
  <2>4. \A a \in Addresses : Twin(m, R, m.mem[a], k.mem[a])
    BY <1>0, SameFacts
  <2> HIDE DEF source, f, g
  <2>5. \A a \in Addresses : Twin(m, R, f[a], g[a])
    BY <2>2, <2>3, <2>4
  <2>6. /\ DOMAIN f = Addresses /\ DOMAIN g = Addresses /\ f = [a \in Addresses |-> f[a]] /\ g = [a \in Addresses |-> g[a]]
    BY <2>3
  <2>7. Same([m EXCEPT !.mem = f], [k EXCEPT !.mem = g], R)
    BY <1>0, <2>5, <2>6, SameMem
  <2> QED
    BY <1>3, <1>4, <2>7
<1>5. CASE ~ok
  BY <1>0, <1>3, <1>5, SameTrap
<1> QED
  BY <1>4, <1>5

(* The policy's instructions, and those of the machine's own state.        *)
LEMMA SamePolicy ==
  ASSUME NEW m, NEW k, NEW R, NEW i, Ready(m, k, R, i)
  PROVE  /\ i.op = "AxRead" => Same(AxRead(m, i), AxRead(k, i), R)
         /\ Same(AxSet(m, i), AxSet(k, i), R)
         /\ i.op = "AxVerify" => Same(AxVerify(m, i), AxVerify(k, i), R)
         /\ i.op = "TNorm" => Same(TNorm(m, i), TNorm(k, i), R)
         /\ i.op = "Assert" => Same(AssertHolds(m, i), AssertHolds(k, i), R)
         /\ i.op = "AxCheck" => Same(AxCheck(m, i), AxCheck(k, i), R)
         /\ i.op = "Print" => Same(PrintOut(m, i), PrintOut(k, i), R)
         /\ i.op = "MetaReflect" => Same(MetaReflect(m, i), MetaReflect(k, i), R)
<1>0. Same(m, k, R) /\ Sound(m) /\ m.trap = "None" /\ reg_ok(m, i) /\ {i.a, i.b, i.c} \subseteq Int
  BY ReadyFacts
<1>1. \A x : x # "None" => Same(Trapped(m, x), Trapped(k, x), R)
  BY <1>0, SameTrap
<1>2. i.op = "AxRead" => Same(AxRead(m, i), AxRead(k, i), R)
  BY <1>0, <1>1, NamedAre, SameInt DEF AxRead
<1>3. Same(AxSet(m, i), AxSet(k, i), R)
  BY <1>0, <1>1 DEF AxSet
<1>4. i.op = "AxVerify" => Same(AxVerify(m, i), AxVerify(k, i), R)
  <2>1. Truth(i.verdict = "Defer") \in Int
    BY TruthIs
  <2> QED
    BY <1>0, <1>1, <2>1, NamedAre, SameInt DEF AxVerify
<1>5. ASSUME i.op = "TNorm"
      PROVE  Same(TNorm(m, i), TNorm(k, i), R)
  <2>1. i.a \in Registers /\ m.reg[i.b] = k.reg[i.b]
    BY <1>0, <1>5, NamedAre, NumbersRead DEF ReadsNumbers, NamesIndex
  <2> DEFINE t == clamp_trit(m.reg[i.b].n)
  <2>2. t \in Int
    BY SignIs DEF clamp_trit
  <2>3. TNorm(m, i) = update_flags(set_reg(m, i.a, Word(t, "Int")), t)
        /\ TNorm(k, i) = update_flags(set_reg(k, i.a, Word(t, "Int")), t)
    BY <2>1 DEF TNorm
  <2> HIDE DEF t
  <2>4. Twin(m, R, Word(t, "Int"), Word(t, "Int"))
    BY <2>2, IntTwin
  <2> QED
    BY <1>0, <2>1, <2>3, <2>4, SameSet
<1>6. i.op \in {"Assert", "AxCheck", "Print"} => i.a \in Registers
  BY <1>0, NamedAre
<1>7. i.op = "Assert" => Same(AssertHolds(m, i), AssertHolds(k, i), R)
  BY <1>0, <1>1, <1>6, SameReads DEF AssertHolds
<1>8. i.op = "AxCheck" => Same(AxCheck(m, i), AxCheck(k, i), R)
  BY <1>0, <1>1, <1>6, SameReads DEF AxCheck
<1>9. ASSUME i.op = "Print"
      PROVE  Same(PrintOut(m, i), PrintOut(k, i), R)
  <2> DEFINE text == format_value(m, m.reg[i.a])
             printed == Append(m.printed, text)
  <2>1. text = format_value(k, k.reg[i.a])
    BY <1>0, <1>6, <1>9, SameFacts, SameReads, TwinLooks
  <2>2. m.printed = k.printed
    BY <1>0, SameFacts
  <2>3. /\ PrintOut(m, i) = IF text = NoText THEN Trapped(m, "TypeFault") ELSE [m EXCEPT !.printed = printed]
        /\ PrintOut(k, i) = IF text = NoText THEN Trapped(k, "TypeFault") ELSE [k EXCEPT !.printed = printed]
    BY <2>1, <2>2 DEF PrintOut
  <2> HIDE DEF text, printed
  <2>4. Same([m EXCEPT !.printed = printed], [k EXCEPT !.printed = printed], R)
    BY <1>0, SameFields
  <2> QED
    BY <1>1, <2>3, <2>4
<1>10. ASSUME i.op = "MetaReflect"
       PROVE  Same(MetaReflect(m, i), MetaReflect(k, i), R)
  <2> DEFINE taken == m.reflections + 1
             n == [m EXCEPT !.reflections = taken]
             l == [k EXCEPT !.reflections = taken]
             w == Word(taken, "Reflection")
  <2>1. i.a \in Registers /\ m.reflections \in Nat /\ m.reflections = k.reflections
    BY <1>0, <1>10, NamedAre, SoundFacts, SameFacts
  <2>2. Same(n, l, R)
    <3>1. taken \in Nat
      BY <2>1
    <3> HIDE DEF taken
    <3> QED
      BY <1>0, <3>1, SameFields
  <2>3. /\ MetaReflect(m, i) = IF m.reflections >= MaxReflections \/ Denied(i) THEN Trapped(m, "SecurityFault")
                               ELSE update_flags(set_reg(n, i.a, w), taken)
        /\ MetaReflect(k, i) = IF m.reflections >= MaxReflections \/ Denied(i) THEN Trapped(k, "SecurityFault")
                               ELSE update_flags(set_reg(l, i.a, w), taken)
    BY <2>1 DEF MetaReflect
  <2> HIDE DEF n, l
  <2>4. Twin(n, R, w, w)
    <3>1. taken \in Int /\ "Reflection" \in Tags /\ "Reflection" \notin Handles
      BY <2>1, TagsAre DEF Handles
    <3> HIDE DEF taken
    <3> QED
      BY <3>1, WordIs DEF Twin, Word
  <2> HIDE DEF w, taken
  <2>5. Same(update_flags(set_reg(n, i.a, w), taken), update_flags(set_reg(l, i.a, w), taken), R)
    BY <2>1, <2>2, <2>4, SameSet
  <2> QED
    BY <1>1, <2>3, <2>5
<1> QED
  BY <1>2, <1>3, <1>4, <1>5, <1>7, <1>8, <1>9, <1>10

LEMMA SameMeta ==
  ASSUME NEW m, NEW k, NEW R, NEW i, Ready(m, k, R, i), i.op \in NamesIndex
  PROVE  Same(MetaRead(m, i), MetaRead(k, i), R) /\ Same(MetaWrite(m, i), MetaWrite(k, i), R)
<1>0. /\ Same(m, k, R) /\ Sound(m) /\ m.trap = "None" /\ i.a \in Registers /\ i.c \in Registers
      /\ DOMAIN m.reg = Registers /\ DOMAIN k.reg = Registers
  BY ReadyFacts, NamedAre, SameFacts DEF NamesIndex
<1>1. m.reg[i.c] = k.reg[i.c]
  BY NumbersRead DEF ReadsNumbers, NamesIndex
<1>2. \A x : x # "None" => Same(Trapped(m, x), Trapped(k, x), R)
  BY <1>0, SameTrap
<1> DEFINE address == m.reg[i.c].n
           Loaded(q, w) == update_flags(Put(q, i.a, w), w.n)
<1>3. \A v, w : Twin(m, R, v, w) => Same(Loaded(m, v), Loaded(k, w), R)
  BY <1>0, SameLoaded
<1>4. Same(MetaRead(m, i), MetaRead(k, i), R)
  <2>1. \/ \E x \in {"SecurityFault", "BoundsFault"} : MetaRead(m, i) = Trapped(m, x) /\ MetaRead(k, i) = Trapped(k, x)
        \/ address \in Registers /\ MetaRead(m, i) = Loaded(m, m.reg[address]) /\ MetaRead(k, i) = Loaded(k, k.reg[address])
        \/ MetaRead(m, i) = Loaded(m, Word(1, "Int")) /\ MetaRead(k, i) = Loaded(k, Word(1, "Int"))
        \/ address \in Segment(i.b) /\ MetaRead(m, i) = Loaded(m, m.mem[address]) /\ MetaRead(k, i) = Loaded(k, k.mem[address])
    BY <1>0, <1>1 DEF MetaRead
  <2>2. /\ address \in Registers => Twin(m, R, m.reg[address], k.reg[address])
        /\ Twin(m, R, Word(1, "Int"), Word(1, "Int"))
        /\ address \in Segment(i.b) => Twin(m, R, m.mem[address], k.mem[address])
    BY <1>0, SameFacts, SegmentIs, IntTwin
  <2> HIDE DEF Loaded, address
  <2> QED
    BY <1>2, <1>3, <2>1, <2>2
<1>5. Same(MetaWrite(m, i), MetaWrite(k, i), R)
  <2> DEFINE Stored(q) == [q EXCEPT !.mem[address] = q.reg[i.a]]
  <2>1. \/ \E x \in {"SecurityFault", "BoundsFault"} : MetaWrite(m, i) = Trapped(m, x) /\ MetaWrite(k, i) = Trapped(k, x)
        \/ address \in Registers /\ MetaWrite(m, i) = Put(m, address, m.reg[i.a]) /\ MetaWrite(k, i) = Put(k, address, k.reg[i.a])
        \/ address \in Segment(i.b) /\ MetaWrite(m, i) = Stored(m) /\ MetaWrite(k, i) = Stored(k)
    BY <1>0, <1>1 DEF MetaWrite
  <2>2. Twin(m, R, m.reg[i.a], k.reg[i.a])
    BY <1>0, SameFacts
  <2>3. address \in Registers => Same(Put(m, address, m.reg[i.a]), Put(k, address, k.reg[i.a]), R)
    <3> HIDE DEF address
    <3> QED
      BY <1>0, <2>2, SamePut
  <2>4. address \in Segment(i.b) => Same(Stored(m), Stored(k), R)
    <3>1. address \in Segment(i.b) => address \in Addresses
      BY SegmentIs
    <3> HIDE DEF address
    <3> QED
      BY <1>0, <2>2, <3>1, SameStore
  <2> HIDE DEF Stored, address
  <2> QED
    BY <1>2, <2>1, <2>3, <2>4
<1> QED
  BY <1>4, <1>5

LEMMA SameRefined ==
  ASSUME NEW m, NEW k, NEW R, Same(m, k, R), NEW f, NEW g, NEW p, NEW q,
         f = [x \in Registers |-> f[x]], g = [x \in Registers |-> g[x]], \A x \in Registers : Twin(m, R, f[x], g[x]),
         p = [a \in Addresses |-> p[a]], q = [a \in Addresses |-> q[a]], \A a \in Addresses : Twin(m, R, p[a], q[a])
  PROVE  Same(Refined(m, f, p), Refined(k, g, q), R)
<1> DEFINE n == Refined(m, f, p)
           l == Refined(k, g, q)
<1>0. /\ Pair(m, k, R) /\ Sound(m) /\ Sound(k) /\ HasFields(m) /\ HasFields(k)
      /\ m.sp = k.sp /\ m.reflections = k.reflections /\ m.pc = k.pc /\ m.trap = k.trap /\ m.printed = k.printed
      /\ k.elements <= m.elements /\ (m.trap = "None" => m.flag = k.flag)
  BY SameFacts
<1>1. /\ f \in [Registers -> LiveWords(m)] /\ g \in [Registers -> LiveWords(k)]
      /\ p \in [Addresses -> LiveWords(m)] /\ q \in [Addresses -> LiveWords(k)]
  <2>1. /\ \A x \in Registers : f[x] \in LiveWords(m) /\ g[x] \in LiveWords(k)
        /\ \A a \in Addresses : p[a] \in LiveWords(m) /\ q[a] \in LiveWords(k)
    BY <1>0, TwinFacts
  <2> QED
    BY <2>1
<1>2. /\ Differs(m, n, {"reg", "mem"}) /\ n.reg = f /\ n.mem = p
      /\ Differs(k, l, {"reg", "mem"}) /\ l.reg = g /\ l.mem = q
  BY <1>0, RefinedIs
<1> HIDE DEF n, l
<1>3. /\ Differs(m, n, Plain \cup {"reg", "mem"}) /\ Differs(k, l, Plain \cup {"reg", "mem"})
      /\ n.sp = m.sp /\ l.sp = k.sp /\ n.reflections = m.reflections /\ l.reflections = k.reflections
      /\ n.pc = m.pc /\ l.pc = k.pc /\ n.printed = m.printed /\ l.printed = k.printed
      /\ n.elements = m.elements /\ l.elements = k.elements /\ n.flag = m.flag /\ l.flag = k.flag
      /\ n.trap = m.trap /\ l.trap = k.trap
  BY <1>2 DEF Differs, Plain
<1>4. Sound(n) /\ Sound(l)
  BY <1>0, <1>1, <1>2, <1>3, SoundFacts, SoundBy
<1>5. /\ \A x \in Registers : Twin(m, R, n.reg[x], l.reg[x])
      /\ \A a \in Addresses : Twin(m, R, n.mem[a], l.mem[a])
      /\ n.sp = l.sp /\ n.reflections = l.reflections /\ n.pc = l.pc /\ n.trap = l.trap /\ n.printed = l.printed
      /\ l.elements <= n.elements /\ (n.trap = "None" => n.flag = l.flag)
  BY <1>0, <1>2, <1>3
<1>6. Same(n, l, R)
  BY <1>3, <1>4, <1>5, SameBy
<1> QED
  BY <1>6 DEF n, l

(* Refinements of both are the same.                                       *)
LEMMA SameCommands ==
  ASSUME NEW m, NEW k, NEW R, NEW i, Ready(m, k, R, i), i.op = "MetaRefine", CommandsRead(m, i)
  PROVE  Commands(m, m.reg[i.b].n, m.reg[i.c].n) = Commands(k, m.reg[i.b].n, m.reg[i.c].n)
<1> DEFINE count == m.reg[i.c].n
           from == m.reg[i.b].n
<1>0. /\ Same(m, k, R) /\ Sound(m) /\ {i.a, i.b, i.c} \subseteq Registers
      /\ i.op \in ReadsNumbers
  BY ReadyFacts, NamedAre DEF ReadsNumbers
<1>1. count \in Int /\ from \in Int /\ count \in 0..MaxRefinements /\ Readable(from, count)
  BY <1>0, SoundRead DEF CommandsRead
<1>2. \A x \in 0..(4 * count - 1) : m.mem[from + x].tag \notin Handles
  <2>1. \A w \in CommandWords(m, i) : w.tag \notin Handles
    BY <1>0, ReadyFacts, NotDeparted
  <2>2. CommandWords(m, i) = {m.mem[from + x] : x \in 0..(4 * count - 1)}
    BY DEF CommandWords
  <2> QED
    BY <2>1, <2>2
<1> HIDE DEF count, from
<1>3. ASSUME NEW a \in Addresses, m.mem[a].tag \notin Handles
      PROVE  m.mem[a] = k.mem[a]
  <2> DEFINE v == m.mem[a]
             w == k.mem[a]
  <2>1. Twin(m, R, v, w) /\ Pair(m, k, R) /\ v.tag \notin Handles
    BY <1>0, <1>3, SameFacts
  <2> HIDE DEF v, w
  <2>2. v = w
    BY <2>1, TwinFacts
  <2> QED
    BY <2>2 DEF v, w
<1>4. ASSUME NEW j \in 1..count
      PROVE  CommandAt(m, from + 4 * (j - 1)) = CommandAt(k, from + 4 * (j - 1))
  <2> DEFINE x == 4 * (j - 1)
             base == from + x
  <2>1. base \in Segments /\ base + 3 \in Segments
    BY <1>1 DEF Readable, mem_ok
  <2>2. /\ x \in 0..(4 * count - 1) /\ x + 1 \in 0..(4 * count - 1) /\ x + 2 \in 0..(4 * count - 1)
        /\ x + 3 \in 0..(4 * count - 1) /\ x \in Int
    BY <1>1
  <2>3. /\ m.mem[from + x].tag \notin Handles /\ m.mem[from + (x + 1)].tag \notin Handles
        /\ m.mem[from + (x + 2)].tag \notin Handles /\ m.mem[from + (x + 3)].tag \notin Handles
    BY <1>2, <2>2
  <2>4. from + (x + 1) = base + 1 /\ from + (x + 2) = base + 2 /\ from + (x + 3) = base + 3 /\ base \in Int
    BY <1>1, <2>2
  <2> HIDE DEF base, x
  <2>5. base \in Addresses /\ base + 1 \in Addresses /\ base + 2 \in Addresses /\ base + 3 \in Addresses
    BY <2>1, <2>4, LayoutIs DEF Segments, Addresses
  <2>6. m.mem[base].tag \notin Handles
    BY <2>3 DEF base
  <2>7. /\ m.mem[base] = k.mem[base] /\ m.mem[base + 1] = k.mem[base + 1]
        /\ m.mem[base + 2] = k.mem[base + 2] /\ m.mem[base + 3] = k.mem[base + 3]
    BY <1>3, <2>3, <2>4, <2>5, <2>6
  <2>8. CommandAt(m, base) = CommandAt(k, base)
    BY <2>7 DEF CommandAt
  <2> QED
    BY <2>8 DEF base, x
<1>5. Commands(m, from, count) = Commands(k, from, count)
  BY <1>4 DEF Commands
<1> QED
  BY <1>5 DEF from, count

LEMMA SameRefine ==
  ASSUME NEW m, NEW k, NEW R, NEW i, Ready(m, k, R, i), i.op = "MetaRefine"
  PROVE  Same(MetaRefine(m, i), MetaRefine(k, i), R)
<1> DEFINE count == m.reg[i.c].n
           from == m.reg[i.b].n
           commands == Commands(m, from, count)
           refused == RefusedCommands(m, commands)
           f == Applied(m.reg, commands, SetsRegister)
           g == Applied(k.reg, commands, SetsRegister)
           p == Applied(m.mem, commands, SetsMemory)
           q == Applied(k.mem, commands, SetsMemory)
           n == Refined(m, f, p)
           l == Refined(k, g, q)
<1>0. /\ Same(m, k, R) /\ Sound(m) /\ Sound(k) /\ m.trap = "None" /\ {i.a, i.b, i.c} \subseteq Registers
      /\ DOMAIN m.reg = Registers /\ DOMAIN k.reg = Registers /\ DOMAIN m.mem = Addresses /\ DOMAIN k.mem = Addresses
      /\ Forges(m, i) = {}
  BY ReadyFacts, NamedAre, SameFacts
<1>1. m.reg[i.b] = k.reg[i.b] /\ m.reg[i.c] = k.reg[i.c] /\ count \in Int /\ from \in Int
  BY <1>0, NumbersRead, SoundRead DEF ReadsNumbers, NamesIndex
<1>2. \A x : x # "None" => Same(Trapped(m, x), Trapped(k, x), R)
  BY <1>0, SameTrap
<1>3. CASE Denied(i) \/ ~(count \in 0..MaxRefinements /\ Readable(from, count))
  <2>1. \E x \in {"SecurityFault", "BoundsFault"} : MetaRefine(m, i) = Trapped(m, x) /\ MetaRefine(k, i) = Trapped(k, x)
    BY <1>1, <1>3 DEF MetaRefine
  <2> QED
    BY <1>2, <2>1
<1>4. CASE ~Denied(i) /\ count \in 0..MaxRefinements /\ Readable(from, count)
  <2>1. CommandsRead(m, i)
    BY <1>4 DEF CommandsRead
  <2>2. commands = Commands(k, k.reg[i.b].n, k.reg[i.c].n)
    BY <1>1, <2>1, SameCommands
  <2>3. \A c : Refusal(m, c) = Refusal(k, c)
    BY <1>0 DEF Refusal
  <2>4. refused = RefusedCommands(k, commands)
    BY <2>3 DEF RefusedCommands
  <2>5. /\ MetaRefine(m, i) = IF refused # {} THEN Trapped(m, Refusal(m, commands[Least(refused)]))
                              ELSE update_flags(set_reg(n, i.a, Word(1, "Int")), 1)
        /\ MetaRefine(k, i) = IF refused # {} THEN Trapped(k, Refusal(k, commands[Least(refused)]))
                              ELSE update_flags(set_reg(l, i.a, Word(1, "Int")), 1)
    <3>1. /\ \A x, y : Refined(m, x, y) = [m EXCEPT !.reg = x, !.mem = y]
          /\ \A x, y : Refined(k, x, y) = [k EXCEPT !.reg = x, !.mem = y]
      BY DEF Refined
    <3>2. MetaRefine(m, i) = IF refused # {} THEN Trapped(m, Refusal(m, commands[Least(refused)]))
                             ELSE update_flags(set_reg(n, i.a, Word(1, "Int")), 1)
      BY <1>4 DEF MetaRefine, Refined
    <3>3. k.reg[i.c].n = count /\ k.reg[i.b].n = from /\ Commands(k, from, count) = commands
      BY <1>1, <2>2
    <3> HIDE DEF commands
    <3>4. MetaRefine(k, i) = IF refused # {} THEN Trapped(k, Refusal(k, commands[Least(refused)]))
                             ELSE update_flags(set_reg(l, i.a, Word(1, "Int")), 1)
      <4> HIDE DEF count, from, refused
      <4> QED
        BY <1>4, <2>4, <3>3 DEF MetaRefine, Refined
    <3> QED
      BY <3>2, <3>4
  <2>6. DOMAIN commands = 1..count /\ \A j \in 1..count : commands[j].word \in Words
    BY <1>0, <1>1, <1>4, CommandsAre
  <2>7. \A j \in 1..count : Twin(m, R, commands[j].word, commands[j].word)
    <3>1. Forged(m, i) = {commands[j].word : j \in DOMAIN commands}
      BY <2>1 DEF Forged, CommandsOf
    <3>2. \A w \in Forged(m, i) : w.tag \notin Handles /\ (w.tag = "Tensor" => w.n \in DOMAIN m.tensors)
      BY <1>0 DEF Forges, Way
    <3> QED
      BY <2>6, <3>1, <3>2 DEF LiveWords, Live, Twin
  <2> HIDE DEF commands
  <2>8. CASE refused # {}
    <3>1. refused \subseteq 1..count /\ \A j \in refused : Refusal(m, commands[j]) # "None"
      BY <2>6 DEF RefusedCommands
    <3>2. Least(refused) \in refused
      <4>1. refused \subseteq Nat
        BY <3>1
      <4>2. \E j \in refused : \A h \in refused : j <= h
        <5> HIDE DEF refused
        <5> QED
          BY <2>8, <4>1, LeastOf
      <4> QED
        BY <4>2 DEF Least
    <3> QED
      BY <1>2, <2>3, <2>5, <2>8, <3>1, <3>2
  <2>9. CASE refused = {}
    <3>1. /\ f = [x \in Registers |-> f[x]] /\ g = [x \in Registers |-> g[x]]
          /\ p = [a \in Addresses |-> p[a]] /\ q = [a \in Addresses |-> q[a]]
      BY <1>0 DEF Applied
    <3>2. ASSUME NEW words, NEW those, NEW op, NEW x \in DOMAIN words, DOMAIN those = DOMAIN words, Twin(m, R, words[x], those[x])
          PROVE  Twin(m, R, Applied(words, commands, op)[x], Applied(those, commands, op)[x])
      <4>1. \/ On(commands, op, x) = {} /\ Applied(words, commands, op)[x] = words[x] /\ Applied(those, commands, op)[x] = those[x]
            \/ /\ Applied(words, commands, op)[x] = Applied(those, commands, op)[x]
               /\ On(commands, op, x) # {}
        BY <3>2 DEF Applied
      <4>2. \/ On(commands, op, x) = {} /\ Applied(words, commands, op)[x] = words[x]
            \/ \E j \in On(commands, op, x) : Applied(words, commands, op)[x] = commands[j].word
        BY <1>1, <2>6, <3>2, AppliedIs
      <4>3. On(commands, op, x) \subseteq 1..count
        BY <2>6 DEF On
      <4> QED
        BY <2>7, <3>2, <4>1, <4>2, <4>3
    <3>3. \A x \in Registers : Twin(m, R, f[x], g[x])
      BY <1>0, <3>2, SameFacts
    <3>4. \A a \in Addresses : Twin(m, R, p[a], q[a])
      BY <1>0, <3>2, SameFacts
    <3> HIDE DEF f, g, p, q
    <3>5. Same(n, l, R)
      BY <1>0, <3>1, <3>3, <3>4, SameRefined
    <3>6. Twin(n, R, Word(1, "Int"), Word(1, "Int"))
      BY IntTwin
    <3> HIDE DEF n, l
    <3>7. Same(update_flags(set_reg(n, i.a, Word(1, "Int")), 1), update_flags(set_reg(l, i.a, Word(1, "Int")), 1), R)
      BY <1>0, <3>5, <3>6, SameSet
    <3> QED
      BY <2>5, <2>9, <3>7
  <2> QED
    BY <2>8, <2>9
<1> QED
  BY <1>3, <1>4

(* What is the same before an instruction is the same after it.            *)
LEMMA SameHandler ==
  ASSUME NEW m, NEW k, NEW R, NEW i, Ready(m, k, R, i), i.op \notin Makes
  PROVE  Same(Handler(m, i), Handler(k, i), R)
<1>0. i.op \in Opcodes /\ Same(m, k, R) /\ m.trap = "None"
  BY ReadyFacts
<1>1. CASE i.op \in Calculations \cup {"Div", "Mod"} \cup Comparisons \cup {"Cmp"} \cup Jumps
  BY <1>1, Dispatch, SameCalculate, SameDivide, SameCompare, SameJump
<1>2. CASE i.op \in DOMAIN Opened
  BY <1>2, Dispatch, SameOpen
<1>3. CASE i.op \in TensorOps
  BY <1>3, Dispatch, SameTensorOp
<1>4. CASE i.op \in UnaryTensorOps
  BY <1>4, Dispatch, SameUnaryTensorOp
<1>5. CASE i.op \in Unimplemented \cup Blocked \cup {"Trap"}
  BY <1>0, <1>5, Dispatch, SameTrap
<1>6. CASE i.op \in {"SetF", "LoadImm", "Mov", "Load", "Store"}
  BY <1>6, Dispatch, SameMoves
<1>7. CASE i.op \in {"Push", "Pop"}
  BY <1>7, Dispatch, SameStack
<1>8. CASE i.op \in {"MemZero", "Copy"}
  BY <1>8, Dispatch, SameMemZero, SameCopy
<1>9. CASE i.op \in {"AxRead", "AxSet", "AxReport", "AxVerify", "TNorm", "Assert", "AxCheck", "Print", "MetaReflect"}
  BY <1>9, Dispatch, SamePolicy
<1>10. CASE i.op \in {"MetaRead", "MetaWrite"}
  BY <1>10, Dispatch, SameMeta DEF NamesIndex
<1>11. CASE i.op = "MetaRefine"
  BY <1>11, Dispatch, SameRefine
<1>12. \/ i.op \in Calculations \cup {"Div", "Mod"} \cup Comparisons \cup {"Cmp"} \cup Jumps \cup DOMAIN Opened
       \/ i.op \in TensorOps \cup UnaryTensorOps \cup Unimplemented \cup Blocked \cup {"Trap"}
       \/ i.op \in {"SetF", "LoadImm", "Mov", "Load", "Store", "Push", "Pop", "MemZero", "Copy"}
       \/ i.op \in {"AxRead", "AxSet", "AxReport", "AxVerify", "TNorm", "Assert", "AxCheck", "Print", "MetaReflect"}
       \/ i.op \in {"MetaRead", "MetaWrite", "MetaRefine"}
  BY <1>0 DEF Opcodes, Recorded, AllocatesTensor, TraceMoves, TensorOps
<1> QED
  BY <1>1, <1>2, <1>3, <1>4, <1>5, <1>6, <1>7, <1>8, <1>9, <1>10, <1>11, <1>12

(****************** what a trace does is what a handler does ***************)
(* The same, but for flags when it has trapped and elements not accounted. *)
Like(n, l) ==
  /\ Differs(n, l, {"flag", "elements"})
  /\ l.elements <= n.elements
  /\ l.trap = "None" => l.flag = n.flag
(* The machine after a recorded instruction.                               *)
Outcome(m, i) == IF Traced(m, i).deopt THEN Interp(Traced(m, i).m, i) ELSE Traced(m, i).m

LEMMA SameLike ==
  ASSUME NEW m, NEW k, NEW R, Same(m, k, R), NEW l, Sound(l), Like(k, l)
  PROVE  Same(m, l, R)
<1>1. /\ Sound(m) /\ Sound(k) /\ HasFields(m) /\ m.elements \in Int /\ k.elements \in Int /\ l.elements \in Int
      /\ m.sp = k.sp /\ m.reflections = k.reflections /\ m.pc = k.pc /\ m.trap = k.trap /\ m.printed = k.printed
      /\ k.elements <= m.elements /\ (m.trap = "None" => m.flag = k.flag)
  BY SameFacts, SoundFacts
<1>2. Differs(m, m, Plain \cup {"reg", "mem"}) /\ Differs(k, l, Plain \cup {"reg", "mem"})
  BY <1>1 DEF Like, Differs, Plain
<1>3. /\ l.reg = k.reg /\ l.mem = k.mem /\ l.sp = k.sp /\ l.reflections = k.reflections /\ l.pc = k.pc /\ l.trap = k.trap
      /\ l.printed = k.printed /\ l.elements <= k.elements /\ (l.trap = "None" => l.flag = k.flag)
  BY DEF Like, Differs
<1>4. /\ \A r \in Registers : Twin(m, R, m.reg[r], l.reg[r])
      /\ \A a \in Addresses : Twin(m, R, m.mem[a], l.mem[a])
  BY <1>3, SameFacts
<1>5. l.elements <= m.elements
  BY <1>1, <1>3
<1>6. m.trap = l.trap /\ (m.trap = "None" => m.flag = l.flag)
  BY <1>1, <1>3
<1>7. m.sp = l.sp /\ m.reflections = l.reflections /\ m.pc = l.pc /\ m.printed = l.printed
  BY <1>1, <1>3
<1> QED
  BY <1>1, <1>2, <1>4, <1>5, <1>6, <1>7, SameBy

LEMMA LikeItself == ASSUME NEW n, Sound(n) PROVE Like(n, n)
<1>1. HasFields(n) /\ n.elements \in Int
  BY SoundFacts
<1> QED
  BY <1>1 DEF Like, Differs

LEMMA LikeTrap ==
  ASSUME NEW m, Sound(m), NEW x, x # "None", NEW y
  PROVE  /\ Like(Trapped(m, x), Trapped(update_flags(m, y), x))
         /\ Like(Trapped(m, x), update_flags(Trapped(m, x), y))
<1> DEFINE f == update_flags(m, y)
           n == Trapped(m, x)
           p == Trapped(f, x)
           q == update_flags(n, y)
<1>0. HasFields(m) /\ m.elements \in Int
  BY SoundFacts
<1>1. Differs(m, f, {"flag"}) /\ Differs(m, n, {"trap"}) /\ n.trap = x
  BY <1>0, FlagsAre, TrapIs
<1> HIDE DEF f, n
<1>2. HasFields(f) /\ HasFields(n)
  BY <1>1 DEF Differs
<1>3. Differs(f, p, {"trap"}) /\ p.trap = x /\ Differs(n, q, {"flag"})
  BY <1>2, FlagsAre, TrapIs
<1> HIDE DEF p, q
<1>4. p.elements = m.elements /\ n.elements = m.elements /\ q.elements = m.elements /\ q.trap = x
  BY <1>1, <1>3 DEF Differs
<1>5. Differs(n, p, {"flag", "elements"}) /\ Differs(n, q, {"flag", "elements"})
  BY <1>1, <1>3 DEF Differs
<1>6. Like(n, p) /\ Like(n, q)
  BY <1>0, <1>3, <1>4, <1>5 DEF Like
<1> QED
  BY <1>6 DEF f, n, p, q

(* How a recorded instruction ends.                                        *)
LEMMA Ends ==
  ASSUME NEW m, Sound(m), NEW i, i.op \in Recorded, reg_ok(m, i)
  PROVE  /\ \A n : TraceExecute(m, i) = Done(n) => Outcome(m, i) = Flagged(n, i)
         /\ TraceExecute(m, i) = GivesUp =>
              /\ i.op \in LeavesFlags => Outcome(m, i) = Handler(m, i)
              /\ i.op \notin LeavesFlags => Outcome(m, i) = Handler(update_flags(m, m.reg[i.a].n), i)
<1>1. \A n : Done(n) # GivesUp /\ Done(n)[1] = n
  BY DEF Done, GivesUp
<1>2. \A n : TraceExecute(m, i) = Done(n) => Outcome(m, i) = Flagged(n, i)
  BY <1>1 DEF Outcome, Traced
<1>3. ASSUME TraceExecute(m, i) = GivesUp
      PROVE  /\ i.op \in LeavesFlags => Outcome(m, i) = Handler(m, i)
             /\ i.op \notin LeavesFlags => Outcome(m, i) = Handler(update_flags(m, m.reg[i.a].n), i)
  <2> DEFINE n == update_flags(m, m.reg[i.a].n)
  <2>1. Outcome(m, i) = Interp(Flagged(m, i), i)
    BY <1>3 DEF Outcome, Traced
  <2>2. Differs(m, n, {"flag"})
    BY SoundFacts, FlagsAre
  <2>3. Flagged(m, i) = IF i.op \in LeavesFlags THEN m ELSE n
    BY DEF Flagged
  <2> HIDE DEF n
  <2>4. reg_ok(n, i)
    BY <2>2 DEF reg_ok, Differs
  <2>5. Interp(m, i) = Handler(m, i) /\ Interp(n, i) = Handler(n, i)
    BY <2>4 DEF Interp
  <2> QED
    BY <2>1, <2>3, <2>5 DEF n
<1> QED
  BY <1>2, <1>3

(* A word that is put, and flagged.                                        *)
LEMMA FlaggedPut ==
  ASSUME NEW m, Sound(m), NEW i, i.op \notin LeavesFlags, i.a \in Registers, NEW w
  PROVE  /\ Flagged(Put(m, i.a, w), i) = update_flags(Put(m, i.a, w), w.n)
         /\ i.a \notin Fixed => SetAndFlag(m, i.a, w) = update_flags(Put(m, i.a, w), w.n)
<1>1. Put(m, i.a, w).reg[i.a] = w
  <2>1. Put(m, i.a, w).reg = [m.reg EXCEPT ![i.a] = w] /\ DOMAIN m.reg = Registers
    BY SoundFacts, PutIs
  <2> QED
    BY <2>1
<1>2. Flagged(Put(m, i.a, w), i) = update_flags(Put(m, i.a, w), w.n)
  BY <1>1 DEF Flagged
<1>3. i.a \notin Fixed => SetAndFlag(m, i.a, w) = update_flags(Put(m, i.a, w), w.n)
  BY <1>1 DEF SetAndFlag, set_reg
<1> QED
  BY <1>2, <1>3

LEMMA WrittenLike ==
  ASSUME NEW m, Sound(m), NEW i, i.op \in Recorded, i.op \notin LeavesFlags, reg_ok(m, i), i.a \in Registers, NEW x,
         TraceExecute(m, i) = Write(m, i.a, x, "Int")
  PROVE  Outcome(m, i) = PutInt(m, i.a, x)
<1> DEFINE w == Word(x, "Int")
<1>1. w.n = x
  BY DEF Word
<1>2. TraceExecute(m, i) = Done(Put(m, i.a, w))
  BY DEF Write
<1>3. Outcome(m, i) = Flagged(Put(m, i.a, w), i)
  BY <1>2, Ends
<1>4. Outcome(m, i) = update_flags(Put(m, i.a, w), w.n)
  BY <1>3, FlaggedPut
<1> QED
  BY <1>1, <1>4 DEF PutInt

(* Nothing parts the machine that runs traces.                             *)
Clear(m, i) ==
  /\ Sound(m) /\ m.trap = "None" /\ reg_ok(m, i) /\ i \in Insns /\ Forges(m, i) = {} /\ i.op \in Recorded \ Makes
  /\ i.op \in {"Mov", "LoadImm", "SetF"} \cup DOMAIN Opened => i.a \notin Fixed
  /\ i.op \in Comparisons => m.reg[i.b].tag = m.reg[i.c].tag /\ m.reg[i.b].tag \notin NotNumbers
  /\ i.op = "Load" => mem_ok(i.b)
  /\ i.op = "Store" => mem_ok(i.a)
  /\ i.op = "Push" => ~(StackBase - (m.sp - 1) > MaxStack)
  /\ i.op \in Jumps => i.a \in 0..CodeSize
  /\ i.op \in {"TMatMul", "TRMSNorm"} => Handler(m, i).trap # "SecurityFault"

LEMMA ReadyClear ==
  ASSUME NEW m, NEW k, NEW R, NEW i, Ready(m, k, R, i), i.op \in Recorded \ Makes
  PROVE  Clear(k, i)
<1>0. /\ Same(m, k, R) /\ m.trap = "None" /\ k.trap = "None" /\ Sound(m) /\ Sound(k) /\ reg_ok(m, i) /\ reg_ok(k, i)
      /\ i \in Insns /\ Departures(m, i) = {} /\ Forges(k, i) = {} /\ m.sp = k.sp
  BY ReadyFacts, SameFacts
<1>1. /\ i.op \in {"Mov", "LoadImm", "SetF"} \cup DOMAIN Opened => i.a \notin Fixed
      /\ i.op = "Load" => mem_ok(i.b)
      /\ i.op = "Store" => mem_ok(i.a)
      /\ i.op \in Jumps => i.a \in 0..CodeSize
  BY <1>0, NotDeparted
<1>2. i.op = "Push" => ~(StackBase - (m.sp - 1) > MaxStack)
  BY <1>0 DEF Departures, Way
<1>3. i.op \in Comparisons => k.reg[i.b].tag = k.reg[i.c].tag /\ k.reg[i.b].tag \notin NotNumbers
  <2>1. i.op \in Comparisons => m.reg[i.b].tag = m.reg[i.c].tag /\ m.reg[i.b].tag \notin NotNumbers
    BY <1>0, NotDeparted
  <2>2. i.op \in Comparisons => i.b \in Registers /\ i.c \in Registers
    BY <1>0, NamedAre
  <2> QED
    BY <1>0, <2>1, <2>2, SameReads
<1>4. i.op \in {"TMatMul", "TRMSNorm"} => Handler(k, i).trap # "SecurityFault"
  <2>1. i.op \in {"TMatMul", "TRMSNorm"} => i.op \in AllocatesTensor
    BY DEF AllocatesTensor, TensorOps
  <2>2. i.op \in {"TMatMul", "TRMSNorm"} => Handler(m, i).trap # "SecurityFault"
    BY <1>0, <2>1, NotDeparted DEF Interp
  <2>3. Handler(m, i).trap = Handler(k, i).trap
    BY SameHandler, SameFacts
  <2> QED
    BY <2>2, <2>3
<1> QED
  BY <1>0, <1>1, <1>2, <1>3, <1>4 DEF Clear

LEMMA LikeMoves ==
  ASSUME NEW m, NEW i, Clear(m, i), i.op \in TraceMoves
  PROVE  Like(Handler(m, i), Outcome(m, i))
<1>0. /\ Sound(m) /\ reg_ok(m, i) /\ i.op \in Recorded /\ i.op \notin LeavesFlags /\ i.a \in Registers
      /\ TraceExecute(m, i) = TraceMove(m, i)
  BY NamedAre, TraceDispatch DEF Clear, TraceMoves, LeavesFlags, Jumps
<1>1. Sound(Handler(m, i))
  BY <1>0, SoundInterp DEF Clear, Interp
<1>2. ASSUME NEW w, TraceMove(m, i) = Done(Put(m, i.a, w)), i.a \notin Fixed, Handler(m, i) = SetAndFlag(m, i.a, w)
      PROVE  Like(Handler(m, i), Outcome(m, i))
  <2>1. Outcome(m, i) = Flagged(Put(m, i.a, w), i)
    BY <1>0, <1>2, Ends
  <2>2. Outcome(m, i) = Handler(m, i)
    BY <1>0, <1>2, <2>1, FlaggedPut
  <2> QED
    BY <1>1, <2>2, LikeItself
<1>3. CASE i.op = "Mov"
  BY <1>2, <1>3, Dispatch DEF Clear, TraceMove, Mov
<1>4. CASE i.op = "LoadImm"
  BY <1>2, <1>4, Dispatch DEF Clear, TraceMove, LoadImm
<1>5. CASE i.op = "Load"
  <2>1. mem_ok(i.b) /\ i.b \in 0..(MemSize - 1)
    BY <1>5, LayoutIs DEF Clear, mem_ok, Addresses
  <2>2. TraceExecute(m, i) = Done(Put(m, i.a, m.mem[i.b]))
    BY <1>0, <1>5, <2>1 DEF TraceMove
  <2>3. Outcome(m, i) = Flagged(Put(m, i.a, m.mem[i.b]), i)
    BY <1>0, <2>2, Ends
  <2>4. Outcome(m, i) = update_flags(Put(m, i.a, m.mem[i.b]), m.mem[i.b].n)
    BY <1>0, <2>3, FlaggedPut
  <2>5. Handler(m, i) = update_flags(Put(m, i.a, m.mem[i.b]), m.mem[i.b].n)
    BY <1>5, <2>1, Dispatch DEF Load
  <2> QED
    BY <1>1, <2>4, <2>5, LikeItself
<1>6. CASE i.op = "Pop"
  <2>1. CASE m.sp >= StackBase
    <3>1. Outcome(m, i) = Handler(update_flags(m, m.reg[i.a].n), i)
      BY <1>0, <1>6, <2>1, Ends DEF TraceMove
    <3>2. update_flags(m, m.reg[i.a].n).sp = m.sp
      <4>1. Differs(m, update_flags(m, m.reg[i.a].n), {"flag"})
        BY <1>0, SoundFacts, FlagsAre
      <4> QED
        BY <4>1 DEF Differs
    <3>3. \A n : n.sp = m.sp => Handler(n, i) = Trapped(n, "StackFault")
      BY <1>6, <2>1, Dispatch DEF Pop
    <3>4. Outcome(m, i) = Trapped(update_flags(m, m.reg[i.a].n), "StackFault") /\ Handler(m, i) = Trapped(m, "StackFault")
      BY <3>1, <3>2, <3>3
    <3> QED
      BY <1>0, <3>4, LikeTrap
  <2>2. CASE ~(m.sp >= StackBase)
    <3> DEFINE w == m.mem[m.sp]
               n == Popped(m, i.a)
    <3>1. TraceExecute(m, i) = Done(n)
      BY <1>0, <1>6, <2>2 DEF TraceMove, Popped
    <3>2. Outcome(m, i) = Flagged(n, i)
      BY <1>0, <3>1, Ends
    <3>3. n.reg[i.a] = w
      <4> DEFINE p == Put(m, i.a, w)
      <4>1. Differs(m, p, {"reg"}) /\ p.reg = [m.reg EXCEPT ![i.a] = w] /\ DOMAIN m.reg = Registers
        BY <1>0, SoundFacts, PutIs
      <4>2. n = [p EXCEPT !.sp = p.sp + 1]
        BY DEF Popped
      <4> HIDE DEF p, n
      <4>3. HasFields(p)
        BY <4>1 DEF Differs
      <4>4. Differs(p, n, {"sp"})
        BY <4>2, <4>3, FieldsAre
      <4> QED
        BY <1>0, <4>1, <4>4 DEF Differs
    <3>4. Flagged(n, i) = update_flags(n, w.n)
      BY <1>0, <3>3 DEF Flagged
    <3>5. Handler(m, i) = update_flags(n, w.n)
      BY <1>6, <2>2, Dispatch DEF Pop, Popped
    <3> QED
      BY <1>1, <3>2, <3>4, <3>5, LikeItself
  <2> QED
    BY <2>1, <2>2
<1>7. CASE i.op = "SetF"
  <2>1. m.flag \in -1..1 /\ i.a \notin Fixed
    BY <1>0, <1>7, SoundFacts DEF Clear
  <2>2. TraceExecute(m, i) = Write(m, i.a, m.flag, "Int")
    BY <1>0, <1>7 DEF TraceMove
  <2>3. Outcome(m, i) = PutInt(m, i.a, m.flag)
    BY <1>0, <2>2, WrittenLike
  <2>4. (IF m.flag = -1 THEN -1 ELSE IF m.flag # 0 THEN 1 ELSE 0) = m.flag
    BY <2>1
  <2>5. Handler(m, i) = PutInt(m, i.a, m.flag)
    BY <1>7, <2>1, <2>4, Dispatch DEF SetFlag, set_reg, PutInt
  <2> QED
    BY <1>1, <2>3, <2>5, LikeItself
<1> QED
  BY <1>3, <1>4, <1>5, <1>6, <1>7 DEF TraceMoves

LEMMA LikeNumbers ==
  ASSUME NEW m, NEW i, Clear(m, i), i.op \in Calculations \cup {"Div", "Mod"}
  PROVE  Like(Handler(m, i), Outcome(m, i))
<1>0. Sound(m) /\ reg_ok(m, i) /\ i.op \in Recorded /\ i.op \notin LeavesFlags
  BY DEF Clear, LeavesFlags, Jumps, Calculations, Trits, BitOps, Sums
<1>1. Sound(Handler(m, i))
  BY <1>0, SoundInterp DEF Clear, Interp
<1>2. i.a \in Registers
  <2>1. CASE i.op \in {"Inc", "Dec"}
    BY <1>0, <2>1, NamedAre
  <2>2. CASE i.op \in {"TNot", "BitNot", "Neg"}
    BY <1>0, <2>2, NamedAre
  <2>3. CASE i.op \notin {"Inc", "Dec", "TNot", "BitNot", "Neg"}
    BY <1>0, <2>3, NamedAre
  <2> QED
    BY <2>1, <2>2, <2>3
<1>3. CASE i.op \in Calculations
  <2> DEFINE x == IF i.op = "Inc" THEN Wrap(m.reg[i.a].n + 1)
                  ELSE IF i.op = "Dec" THEN Wrap(m.reg[i.a].n - 1)
                  ELSE Calculated(i.op, m.reg[i.b].n, m.reg[i.c].n)
  <2>1. TraceExecute(m, i) = Write(m, i.a, x, "Int")
    BY <1>3, TraceDispatch, TraceCalculates
  <2>2. Handler(m, i) = PutInt(m, i.a, x)
    BY <1>3, Dispatch DEF Calculate
  <2> HIDE DEF x
  <2>3. Outcome(m, i) = PutInt(m, i.a, x)
    BY <1>0, <1>2, <2>1, WrittenLike
  <2> QED
    BY <1>1, <2>2, <2>3, LikeItself
<1>4. CASE i.op \in {"Div", "Mod"}
  <2> DEFINE x == m.reg[i.b].n
             y == m.reg[i.c].n
             z == IF i.op = "Div" THEN Quotient(x, y) ELSE Remainder(x, y)
             f == update_flags(m, m.reg[i.a].n)
  <2>1. Handler(m, i) = IF y = 0 THEN Trapped(m, "DivisionFault")
                        ELSE IF x = MinInt /\ y = -1 THEN Trapped(m, "Killed") ELSE PutInt(m, i.a, z)
    BY <1>4, Dispatch DEF Divide
  <2>2. TraceExecute(m, i) = IF y = 0 THEN GivesUp
                             ELSE IF x = MinInt /\ y = -1 THEN Done(Trapped(m, "Killed")) ELSE Write(m, i.a, z, "Int")
    BY <1>4, TraceDispatch DEF TraceDivide, Remainder
  <2>3. CASE y = 0
    <3>1. Outcome(m, i) = Handler(f, i)
      BY <1>0, <2>2, <2>3, Ends
    <3>2. f.reg = m.reg
      <4>1. Differs(m, f, {"flag"})
        BY <1>0, SoundFacts, FlagsAre
      <4> QED
        BY <4>1 DEF Differs
    <3>3. Handler(f, i) = Trapped(f, "DivisionFault")
      <4> HIDE DEF f
      <4> QED
        BY <1>4, <2>3, <3>2, Dispatch DEF Divide
    <3> QED
      BY <1>0, <2>1, <2>3, <3>1, <3>3, LikeTrap
  <2>4. CASE y # 0 /\ x = MinInt /\ y = -1
    <3> DEFINE n == Trapped(m, "Killed")
    <3>1. TraceExecute(m, i) = Done(n) /\ Handler(m, i) = n
      BY <2>1, <2>2, <2>4
    <3>2. Outcome(m, i) = Flagged(n, i)
      BY <1>0, <3>1, Ends
    <3>3. Flagged(n, i) = update_flags(n, n.reg[i.a].n)
      BY <1>0 DEF Flagged
    <3> QED
      BY <1>0, <3>1, <3>2, <3>3, LikeTrap
  <2>5. CASE y # 0 /\ ~(x = MinInt /\ y = -1)
    <3>1. TraceExecute(m, i) = Write(m, i.a, z, "Int") /\ Handler(m, i) = PutInt(m, i.a, z)
      BY <2>1, <2>2, <2>5
    <3>2. Outcome(m, i) = PutInt(m, i.a, z)
      BY <1>0, <1>2, <3>1, WrittenLike
    <3> QED
      BY <1>1, <3>1, <3>2, LikeItself
  <2> QED
    BY <2>3, <2>4, <2>5
<1> QED
  BY <1>3, <1>4

(* Numbers are compared as numbers.                                        *)
LEMMA NumbersCompared ==
  ASSUME NEW m, Sound(m), NEW v \in LiveWords(m), NEW w \in LiveWords(m), v.tag = w.tag, v.tag \notin NotNumbers
  PROVE  compare_value(m, v, w) = SignOf(v.n - w.n)
<1> DEFINE f == Faces(m, v, MaxNesting)
           g == Faces(m, w, MaxNesting)
<1>0. MaxNesting \in Nat /\ v.n \in Int /\ w.n \in Int
  BY LayoutAssumption DEF LiveWords, Words
<1>1. ~Known(m, v) /\ ~Known(m, w) /\ v.tag \notin Handles
  BY DEF Known, NotNumbers
<1>2. f[0] = Seen(m, v) /\ g[0] = Seen(m, w) /\ DOMAIN f = 0..MaxNesting /\ 0 \in DOMAIN f
  BY <1>0, LayersAre DEF Faces
<1> HIDE DEF f, g
<1>3. f[0] = Face(v.tag, FALSE, FALSE, v.n) /\ g[0] = Face(w.tag, FALSE, FALSE, w.n)
  BY <1>1, <1>2 DEF Seen
<1>4. Compared(f[0], g[0]) = SignOf(v.n - w.n)
  <2>1. f[0].tag = g[0].tag /\ f[0].tag \notin NotNumbers \cup {"Enum"} /\ f[0].n = v.n /\ g[0].n = w.n
    BY <1>3 DEF Face, NotNumbers, Handles
  <2>2. f[0].tag \notin TokenTags /\ f[0].tag \notin DOMAIN Pooled /\ f[0].tag \notin Handles /\ f[0].tag \notin {"Enum", "Unnamed"}
    BY <2>1 DEF NotNumbers
  <2> QED
    BY <2>1, <2>2 DEF Compared
<1>5. SignOf(v.n - w.n) # Deeper
  BY SignIs DEF Deeper
<1>6. Decided(f, g) = {0}
  <2>1. 0 \in Decided(f, g)
    BY <1>2, <1>4, <1>5 DEF Decided
  <2>2. ASSUME NEW n \in Decided(f, g), n # 0
        PROVE  FALSE
    <3>1. n \in 0..MaxNesting /\ \A k \in 0..(n - 1) : Compared(f[k], g[k]) = Deeper
      BY <1>2, <2>2 DEF Decided
    <3>2. 0 \in 0..(n - 1)
      BY <1>0, <2>2, <3>1
    <3> QED
      BY <1>4, <1>5, <3>1, <3>2
  <2> QED
    BY <2>1, <2>2
<1>7. Verdict(f, g) = Compared(f[0], g[0])
  BY <1>6 DEF Verdict
<1> QED
  BY <1>4, <1>7 DEF compare_value, f, g

LEMMA LikeComparisons ==
  ASSUME NEW m, NEW i, Clear(m, i), i.op \in Comparisons \cup {"Cmp"}
  PROVE  Like(Handler(m, i), Outcome(m, i))
<1>0. Sound(m) /\ reg_ok(m, i) /\ i.op \in Recorded
  BY DEF Clear
<1>1. Sound(Handler(m, i))
  BY <1>0, SoundInterp DEF Clear, Interp
<1>2. \A x : SignOf(x) # Unordered
  BY SignIs DEF Unordered
<1>3. CASE i.op \in Comparisons
  <2> DEFINE sign == SignOf(m.reg[i.b].n - m.reg[i.c].n)
             x == Truth(Holds(i.op, sign))
  <2>1. /\ {i.a, i.b, i.c} \subseteq Registers /\ i.op \notin LeavesFlags /\ i.op # "Cmp"
        /\ m.reg[i.b].tag = m.reg[i.c].tag /\ m.reg[i.b].tag \notin NotNumbers
        /\ m.reg[i.b] \in LiveWords(m) /\ m.reg[i.c] \in LiveWords(m)
    BY <1>0, <1>3, NamedAre, SoundRead DEF Clear, Comparisons, LeavesFlags, Jumps
  <2>2. compare_value(m, m.reg[i.b], m.reg[i.c]) = sign /\ sign # Unordered
    BY <1>0, <1>2, <2>1, NumbersCompared
  <2>3. Handler(m, i) = PutInt(m, i.a, x)
    BY <1>3, <2>1, <2>2, Dispatch DEF Compare, Ordered
  <2>4. TraceExecute(m, i) = Write(m, i.a, x, "Int")
    BY <1>3, TraceDispatch DEF TraceCompare
  <2> HIDE DEF x
  <2>5. Outcome(m, i) = PutInt(m, i.a, x)
    BY <1>0, <2>1, <2>4, WrittenLike
  <2> QED
    BY <1>1, <2>3, <2>5, LikeItself
<1>4. CASE i.op = "Cmp"
  <2> DEFINE v == m.reg[i.a]
             w == m.reg[i.b]
             sign == SignOf(v.n - w.n)
  <2>1. {i.a, i.b} \subseteq Registers /\ i.op \in LeavesFlags /\ v \in LiveWords(m) /\ w \in LiveWords(m)
    BY <1>0, <1>4, NamedAre, SoundRead DEF LeavesFlags
  <2>2. TraceExecute(m, i) = IF v.tag = "Int" /\ w.tag = "Int" THEN Done(update_flags(m, sign)) ELSE GivesUp
    BY <1>4, TraceDispatch DEF TraceCmp
  <2>3. CASE v.tag = "Int" /\ w.tag = "Int"
    <3>1. "Int" \notin NotNumbers
      BY PoolAssumption DEF NotNumbers, Handles, TokenTags
    <3>2. compare_value(m, v, w) = sign /\ sign # Unordered
      BY <1>0, <1>2, <2>1, <2>3, <3>1, NumbersCompared
    <3>3. Handler(m, i) = update_flags(m, sign)
      BY <1>4, <2>3, <3>2, Dispatch DEF Compare, Ordered
    <3>4. Outcome(m, i) = Flagged(update_flags(m, sign), i)
      BY <1>0, <2>2, <2>3, Ends
    <3>5. Outcome(m, i) = update_flags(m, sign)
      BY <2>1, <3>4 DEF Flagged
    <3> QED
      BY <1>1, <3>3, <3>5, LikeItself
  <2>4. CASE ~(v.tag = "Int" /\ w.tag = "Int")
    <3>1. Outcome(m, i) = Handler(m, i)
      BY <1>0, <2>1, <2>2, <2>4, Ends
    <3> QED
      BY <1>1, <3>1, LikeItself
  <2> QED
    BY <2>3, <2>4
<1> QED
  BY <1>3, <1>4

LEMMA LikeStores ==
  ASSUME NEW m, NEW i, Clear(m, i), i.op \in {"Store", "Push"} \cup Jumps
  PROVE  Like(Handler(m, i), Outcome(m, i))
<1>0. Sound(m) /\ reg_ok(m, i) /\ i.op \in Recorded /\ i.op \in LeavesFlags
  BY DEF Clear, LeavesFlags
<1>1. Sound(Handler(m, i))
  BY <1>0, SoundInterp DEF Clear, Interp
<1>2. TraceExecute(m, i) = Done(Handler(m, i)) \/ TraceExecute(m, i) = GivesUp
  <2>1. CASE i.op = "Store"
    <3>1. mem_ok(i.a) /\ i.a \in 0..(MemSize - 1)
      BY <2>1, LayoutIs DEF Clear, mem_ok, Addresses
    <3> QED
      BY <2>1, <3>1, Dispatch, TraceDispatch DEF Store, TraceStore
  <2>2. CASE i.op = "Push"
    <3>1. ~(StackBase - (m.sp - 1) > MaxStack)
      BY <2>2 DEF Clear
    <3>2. Handler(m, i) = Push(m, i)
      BY <2>2, Dispatch
    <3>3. TraceExecute(m, i) = TracePush(m, i)
      BY <1>0, <2>2, TraceDispatch
    <3>4. CASE m.sp <= StackLimit
      BY <3>3, <3>4 DEF TracePush
    <3>5. CASE ~(m.sp <= StackLimit)
      <4> DEFINE n == [m EXCEPT !.sp = @ - 1, !.mem[m.sp - 1] = m.reg[i.a]]
      <4>1. Push(m, i) = n
        BY <3>1, <3>5 DEF Push
      <4>2. TracePush(m, i) = Done(n)
        BY <3>5 DEF TracePush
      <4> HIDE DEF n
      <4> QED
        BY <3>2, <3>3, <4>1, <4>2
    <3> QED
      BY <3>4, <3>5
  <2>3. CASE i.op \in Jumps
    <3>1. i.a \in 0..CodeSize
      BY <2>3 DEF Clear
    <3> DEFINE n == [m EXCEPT !.pc = i.a]
    <3>2. Handler(m, i) = Jump(m, i)
      BY <2>3, Dispatch
    <3>3. TraceExecute(m, i) = TraceJump(m, i)
      BY <1>0, <2>3, TraceDispatch
    <3>4. Jump(m, i) = IF Taken(m, i) THEN n ELSE m
      BY <3>1 DEF Jump
    <3>5. TraceJump(m, i) = Done(IF Taken(m, i) THEN n ELSE m)
      BY DEF TraceJump
    <3> HIDE DEF n
    <3> QED
      BY <3>2, <3>3, <3>4, <3>5
  <2> QED
    BY <2>1, <2>2, <2>3
<1>3. Outcome(m, i) = Handler(m, i)
  BY <1>0, <1>2, Ends DEF Flagged
<1> QED
  BY <1>1, <1>3, LikeItself

LEMMA LikeOpen ==
  ASSUME NEW m, NEW i, Clear(m, i), i.op \in DOMAIN Opened
  PROVE  Like(Handler(m, i), Outcome(m, i))
<1> DEFINE w == m.reg[i.b]
           x == Entry(m, w)
           f == update_flags(m, m.reg[i.a].n)
<1>0. Sound(m) /\ reg_ok(m, i) /\ i.op \in Recorded /\ i.op \notin LeavesFlags /\ {i.a, i.b} \subseteq Registers /\ i.a \notin Fixed
  BY NamedAre DEF Clear, Opened, LeavesFlags, Jumps
<1>1. Sound(Handler(m, i)) /\ m.trap = "None"
  BY <1>0, SoundInterp DEF Clear, Interp
<1>2. f.reg = m.reg /\ Known(f, w) = Known(m, w) /\ Entry(f, w) = x
  <2>1. Differs(m, f, {"flag"})
    BY <1>0, SoundFacts, FlagsAre
  <2> HIDE DEF f, w
  <2>2. f.reg = m.reg /\ \A tag : PoolOf(f, tag) = PoolOf(m, tag)
    BY <2>1 DEF Differs, PoolOf
  <2> QED
    BY <2>2 DEF Known, Entry
<1> HIDE DEF f
<1>3. CASE w.tag # Opened[i.op] \/ ~Known(m, w)
  <2>1. TraceExecute(m, i) = GivesUp
    BY <1>3, TraceDispatch DEF TraceOpen
  <2>2. Outcome(m, i) = Handler(f, i)
    BY <1>0, <2>1, Ends DEF f
  <2>3. \E t \in {"TypeFault", "DecodeFault"} : Handler(m, i) = Trapped(m, t) /\ Handler(f, i) = Trapped(f, t)
    BY <1>2, <1>3, Dispatch DEF Open
  <2> QED
    BY <1>0, <2>2, <2>3, LikeTrap DEF f
<1>4. CASE w.tag = Opened[i.op] /\ Known(m, w)
  <2>0. x.is \in BOOLEAN
    <3>1. w.tag # "Complex"
      BY <1>4 DEF Opened
    <3> QED
      BY <1>0, <1>4, <3>1, EntryIs
  <2>1. CASE Yields(i, x) = <<>>
    <3>1. TraceExecute(m, i) = GivesUp
      <4>1. i.op \notin {"OptionIsSome", "ResultIsOk", "EnumIsVariant"}
        BY <2>1 DEF Yields
      <4>2. x.is = (i.op = "ResultUnwrapErr")
        BY <2>0, <2>1, <4>1 DEF Yields
      <4> QED
        BY <1>4, <4>1, <4>2, TraceDispatch DEF TraceOpen
    <3>2. Outcome(m, i) = Handler(f, i)
      BY <1>0, <3>1, Ends DEF f
    <3>3. Handler(m, i) = Trapped(m, "DecodeFault") /\ Handler(f, i) = Trapped(f, "DecodeFault")
      BY <1>2, <1>4, <2>1, Dispatch DEF Open
    <3> QED
      BY <1>0, <3>2, <3>3, LikeTrap DEF f
  <2>2. CASE Yields(i, x) # <<>>
    <3> DEFINE v == Yields(i, x)[1]
    <3>1. Handler(m, i) = SetAndFlag(m, i.a, v)
      BY <1>4, <2>2, Dispatch DEF Open
    <3>2. TraceExecute(m, i) = Done(Put(m, i.a, v))
      <4>1. CASE i.op \in {"OptionIsSome", "ResultIsOk"}
        BY <1>4, <4>1, TraceDispatch DEF TraceOpen, Yields, Write
      <4>2. CASE i.op = "EnumIsVariant"
        BY <1>4, <4>2, TraceDispatch DEF TraceOpen, Yields, Write
      <4>3. CASE i.op \notin {"OptionIsSome", "ResultIsOk", "EnumIsVariant"}
        <5>1. v = x.of /\ x.is # (i.op = "ResultUnwrapErr")
          BY <2>0, <2>2, <4>3 DEF Yields
        <5> QED
          BY <1>4, <4>3, <5>1, TraceDispatch DEF TraceOpen
      <4> QED
        BY <4>1, <4>2, <4>3
    <3> HIDE DEF v
    <3>3. Outcome(m, i) = Flagged(Put(m, i.a, v), i)
      BY <1>0, <3>2, Ends
    <3>4. Outcome(m, i) = Handler(m, i)
      BY <1>0, <3>1, <3>3, FlaggedPut
    <3> QED
      BY <1>1, <3>4, LikeItself
  <2> QED
    BY <2>1, <2>2
<1> QED
  BY <1>3, <1>4

LEMMA LikeTensor ==
  ASSUME NEW m, NEW i, Clear(m, i), i.op \in {"TMatMul", "TRMSNorm"}
  PROVE  Like(Handler(m, i), Outcome(m, i))
<1> DEFINE v == m.reg[i.b]
           w == m.reg[i.c]
           s == m.tensors[v.n]
           t == m.tensors[w.n]
           shape == ShapeOf(i.op, s, t)
<1>0. /\ Sound(m) /\ HasFields(m) /\ reg_ok(m, i) /\ i.op \in Recorded /\ i.op \in LeavesFlags /\ {i.a, i.b, i.c} \subseteq Registers
      /\ i.op \in TensorOps /\ m.trap = "None" /\ Handler(m, i).trap # "SecurityFault"
  BY NamedAre, SoundFacts DEF Clear, LeavesFlags, TensorOps
<1>1. Sound(Handler(m, i))
  BY <1>0, SoundInterp DEF Clear, Interp
<1>2. TraceExecute(m, i) = TraceTensor(m, i)
  BY TraceDispatch
<1>3. CASE TraceTensor(m, i) = GivesUp
  <2>1. Outcome(m, i) = Handler(m, i)
    BY <1>0, <1>2, <1>3, Ends
  <2> QED
    BY <1>1, <2>1, LikeItself
<1>4. CASE TraceTensor(m, i) # GivesUp
  <2>1. /\ v.tag = "Tensor" /\ w.tag = "Tensor" /\ {v.n, w.n} \subseteq DOMAIN m.tensors /\ Fits(i.op, s, t)
        /\ TraceTensor(m, i) = Done([m EXCEPT !.tensors = Append(@, shape), !.reg[i.a] = Word(Len(m.tensors) + 1, "Tensor")])
    BY <1>4 DEF TraceTensor
  <2>2. shape \in Seq(Nat)
    <3>1. s \in Seq(Nat) /\ t \in Seq(Nat)
      <4>1. Sound(m) /\ v.n \in DOMAIN m.tensors /\ w.n \in DOMAIN m.tensors
        BY <1>0, <2>1
      <4> HIDE DEF v, w
      <4>2. \A h \in DOMAIN m.tensors : m.tensors[h] \in Seq(Nat)
        BY <4>1, TensorShapes
      <4> QED
        BY <4>1, <4>2
    <3> HIDE DEF s, t
    <3> QED
      BY <2>1, <3>1, ShapesAre
  <2> DEFINE l == Given(m, i.a, shape, m.elements)
             e == m.elements + Elements(shape)
             n == Given(m, i.a, shape, e)
  <2>3. TraceExecute(m, i) = Done(l)
    <3> HIDE DEF shape
    <3>1. [m EXCEPT !.tensors = Append(@, shape), !.reg[i.a] = Word(Len(m.tensors) + 1, "Tensor")] = l
      BY <1>0, BareAllocIs DEF Given
    <3> QED
      BY <1>2, <2>1, <3>1
  <2>4. Handler(m, i) = AllocTensor(m, i.a, shape)
    <3>1. promote_to_tensor(m, i.b) = m /\ promote_to_tensor(m, i.c) = m
      BY <2>1 DEF promote_to_tensor
    <3> HIDE DEF shape
    <3>2. TensorOp(m, i) = AllocTensor(m, i.a, ShapeOf(i.op, s, t))
      BY <1>0, <2>1, <3>1 DEF TensorOp
    <3> QED
      BY <1>0, <3>2, Dispatch DEF shape
  <2> HIDE DEF shape
  <2>5. Handler(m, i) = n
    <3>1. Trapped(m, "SecurityFault").trap = "SecurityFault"
      BY <1>0, TrapIs
    <3>2. ~(Len(m.tensors) >= MaxTensors \/ m.elements + Elements(shape) > MaxElements)
      BY <1>0, <2>4, <3>1 DEF AllocTensor
    <3>3. AllocTensor(m, i.a, shape) = [m EXCEPT !.tensors = Append(@, shape), !.elements = e,
                                                 !.reg[i.a] = Word(Len(m.tensors) + 1, "Tensor")]
      BY <3>2 DEF AllocTensor
    <3> HIDE DEF e
    <3>4. [m EXCEPT !.tensors = Append(@, shape), !.elements = e, !.reg[i.a] = Word(Len(m.tensors) + 1, "Tensor")] = n
      <4>1. HasFields(m)
        BY <1>0
      <4> QED
        BY ONLY <4>1 DEF Given, HasFields, WithTensor, Put
    <3> HIDE DEF n
    <3> QED
      BY ONLY <2>4, <3>3, <3>4
  <2>6. Elements(shape) \in Nat /\ m.elements \in Int /\ e \in Int /\ m.elements <= e
    <3>1. Elements(shape) \in Nat /\ m.elements \in Int
      BY <1>0, <2>2, ElementsAre, SoundFacts
    <3> QED
      BY <3>1
  <2> DEFINE h == Word(Len(m.tensors) + 1, "Tensor")
             old == m.elements
  <2>7. l = Given(m, i.a, shape, old) /\ n = Given(m, i.a, shape, e) /\ h = Word(Len(m.tensors) + 1, "Tensor") /\ old \in Int
    BY <2>6
  <2>8. Outcome(m, i) = l
    <3> HIDE DEF l
    <3>1. Outcome(m, i) = Flagged(l, i)
      BY <1>0, <2>3, Ends
    <3> QED
      BY <1>0, <3>1 DEF Flagged
  <2>9. Like(n, l)
    <3> HIDE DEF l, n, e, h, old
    <3>1. /\ Differs(m, l, {"reg", "tensors", "elements"})
          /\ l.reg = [m.reg EXCEPT ![i.a] = h] /\ l.tensors = Append(m.tensors, shape) /\ l.elements = old
      BY <1>0, <2>2, <2>7, AllocatedIs
    <3>2. /\ Differs(m, n, {"reg", "tensors", "elements"})
          /\ n.reg = [m.reg EXCEPT ![i.a] = h] /\ n.tensors = Append(m.tensors, shape) /\ n.elements = e
      BY <1>0, <2>2, <2>6, <2>7, AllocatedIs
    <3>3. old <= e
      BY <2>6 DEF old
    <3>4. l.reg = n.reg /\ l.tensors = n.tensors
      BY <3>1, <3>2
    <3> QED
      BY <3>1, <3>2, <3>3, <3>4 DEF Like, Differs
  <2> HIDE DEF l, n
  <2> QED
    BY <2>5, <2>8, <2>9
<1> QED
  BY <1>3, <1>4

LEMMA TraceLike ==
  ASSUME NEW m, NEW i, Clear(m, i)
  PROVE  Like(Handler(m, i), Outcome(m, i))
<1>1. \/ i.op \in TraceMoves
      \/ i.op \in Calculations \cup {"Div", "Mod"}
      \/ i.op \in Comparisons \cup {"Cmp"}
      \/ i.op \in {"Store", "Push"} \cup Jumps
      \/ i.op \in DOMAIN Opened
      \/ i.op \in {"TMatMul", "TRMSNorm"}
  BY DEF Clear, Recorded
<1> QED
  BY <1>1, LikeMoves, LikeNumbers, LikeComparisons, LikeStores, LikeOpen, LikeTensor

(************************ entries that are made ****************************)
(* n is m with an entry x, whose handle is in a register.                  *)
Pools == {"options", "results", "enums", "complexes"}
Entered(m, n, r, h, tag, x) ==
  /\ Sound(n) /\ Grows(m, n) /\ Differs(m, n, Pools \cup {"reg"}) /\ n.reg = [m.reg EXCEPT ![r] = Word(h, tag)]
  /\ Word(h, tag) \in LiveWords(n)
  /\ h \in Nat \ {0} /\ h \in DOMAIN PoolOf(n, tag) /\ PoolOf(n, tag)[h] = x

LEMMA EntersBy ==
  ASSUME NEW m, NEW g, Sound(g), Grows(m, g), Differs(m, g, Pools), NEW r \in Registers, NEW h \in Nat \ {0}, NEW tag, NEW x,
         Word(h, tag) \in LiveWords(g), h \in DOMAIN PoolOf(g, tag), PoolOf(g, tag)[h] = x
  PROVE  Entered(m, Put(g, r, Word(h, tag)), r, h, tag, x)
<1> DEFINE w == Word(h, tag)
           n == Put(g, r, w)
<1>1. Sound(n) /\ LiveWords(n) = LiveWords(g)
  BY SoundPut
<1>2. Differs(g, n, {"reg"}) /\ n.reg = [g.reg EXCEPT ![r] = w]
  BY PutIs, SoundFacts
<1>3. w = Word(h, tag)
  OBVIOUS
<1> HIDE DEF n, w
<1>4. \A t : PoolOf(n, t) = PoolOf(g, t)
  BY <1>2 DEF Differs, PoolOf
<1>5. n.tensors = g.tensors /\ g.reg = m.reg /\ Differs(m, n, Pools \cup {"reg"})
  BY <1>2 DEF Differs, Pools
<1>6. Grows(m, n)
  BY <1>4, <1>5 DEF Grows
<1>7. Entered(m, n, r, h, tag, x)
  BY <1>1, <1>2, <1>3, <1>4, <1>5, <1>6 DEF Entered
<1> QED
  BY <1>7 DEF n, w

LEMMA EntersOption ==
  ASSUME NEW m, Sound(m), NEW r \in Registers, NEW is \in BOOLEAN, NEW of \in LiveWords(m), NEW q, NEW h,
         Extends(Boxes, m.options, q, h, Box(is, of))
  PROVE  Entered(m, Put([m EXCEPT !.options = q], r, Word(h, "Option")), r, h, "Option", Box(is, of))
<1> DEFINE g == [m EXCEPT !.options = q]
<1>1. Sound(g) /\ Word(h, "Option") \in LiveWords(g) /\ Grows(m, g)
  BY SoundOption
<1>2. Differs(m, g, {"options"}) /\ g.options = q
  BY SoundFacts, FieldsAre
<1> HIDE DEF g
<1>3. Differs(m, g, Pools) /\ PoolOf(g, "Option") = q
  BY <1>2 DEF Differs, Pools, PoolOf
<1>4. h \in Nat \ {0} /\ h \in DOMAIN q /\ q[h] = Box(is, of)
  BY DEF Extends
<1>5. Entered(m, Put(g, r, Word(h, "Option")), r, h, "Option", Box(is, of))
  BY <1>1, <1>3, <1>4, EntersBy
<1> QED
  BY <1>5 DEF g

LEMMA EntersResult ==
  ASSUME NEW m, Sound(m), NEW r \in Registers, NEW is \in BOOLEAN, NEW of \in LiveWords(m), NEW q, NEW h,
         Extends(Boxes, m.results, q, h, Box(is, of))
  PROVE  Entered(m, Put([m EXCEPT !.results = q], r, Word(h, "Result")), r, h, "Result", Box(is, of))
<1> DEFINE g == [m EXCEPT !.results = q]
<1>1. Sound(g) /\ Word(h, "Result") \in LiveWords(g) /\ Grows(m, g)
  BY SoundResult
<1>2. Differs(m, g, {"results"}) /\ g.results = q
  BY SoundFacts, FieldsAre
<1> HIDE DEF g
<1>3. Differs(m, g, Pools) /\ PoolOf(g, "Result") = q
  BY <1>2 DEF Differs, Pools, PoolOf
<1>4. h \in Nat \ {0} /\ h \in DOMAIN q /\ q[h] = Box(is, of)
  BY DEF Extends
<1>5. Entered(m, Put(g, r, Word(h, "Result")), r, h, "Result", Box(is, of))
  BY <1>1, <1>3, <1>4, EntersBy
<1> QED
  BY <1>5 DEF g

LEMMA EntersEnum ==
  ASSUME NEW m, Sound(m), NEW r \in Registers, NEW x \in Variants, x.of \in LiveWords(m), NEW q, NEW h,
         Extends(Variants, m.enums, q, h, x)
  PROVE  Entered(m, Put([m EXCEPT !.enums = q], r, Word(h, "Enum")), r, h, "Enum", x)
<1> DEFINE g == [m EXCEPT !.enums = q]
<1>1. Sound(g) /\ Word(h, "Enum") \in LiveWords(g) /\ Grows(m, g)
  BY SoundEnum
<1>2. Differs(m, g, {"enums"}) /\ g.enums = q
  BY SoundFacts, FieldsAre
<1> HIDE DEF g
<1>3. Differs(m, g, Pools) /\ PoolOf(g, "Enum") = q
  BY <1>2 DEF Differs, Pools, PoolOf
<1>4. h \in Nat \ {0} /\ h \in DOMAIN q /\ q[h] = x
  BY DEF Extends
<1>5. Entered(m, Put(g, r, Word(h, "Enum")), r, h, "Enum", x)
  BY <1>1, <1>3, <1>4, EntersBy
<1> QED
  BY <1>5 DEF g

LEMMA EntersComplex ==
  ASSUME NEW m, Sound(m), NEW r \in Registers, NEW x \in Int \X Int, NEW q, NEW h, Extends(Int \X Int, m.complexes, q, h, x)
  PROVE  Entered(m, Put([m EXCEPT !.complexes = q], r, Word(h, "Complex")), r, h, "Complex", x)
<1> DEFINE g == [m EXCEPT !.complexes = q]
<1>1. Sound(g) /\ Word(h, "Complex") \in LiveWords(g) /\ Grows(m, g)
  BY SoundComplex
<1>2. Differs(m, g, {"complexes"}) /\ g.complexes = q
  BY SoundFacts, FieldsAre
<1> HIDE DEF g
<1>3. Differs(m, g, Pools) /\ PoolOf(g, "Complex") = q
  BY <1>2 DEF Differs, Pools, PoolOf
<1>4. h \in Nat \ {0} /\ h \in DOMAIN q /\ q[h] = x
  BY DEF Extends
<1>5. Entered(m, Put(g, r, Word(h, "Complex")), r, h, "Complex", x)
  BY <1>1, <1>3, <1>4, EntersBy
<1> QED
  BY <1>5 DEF g

(* Entries that stand for the same make twins of their handles, though one *)
(* machine looks for an equal entry and the other appends it.              *)
Akin(m, R, tag, x, y) ==
  IF tag = "Complex" THEN x = y
  ELSE x.is = y.is /\ Twin(m, R, x.of, y.of) /\ (tag = "Enum" => x.id = y.id)

LEMMA SameEntered ==
  ASSUME NEW m, NEW k, NEW R, Same(m, k, R), NEW r \in Registers, NEW tag \in Handles, NEW n, NEW l, NEW h, NEW j, NEW x, NEW y,
         Entered(m, n, r, h, tag, x), Entered(k, l, r, j, tag, y), Akin(m, R, tag, x, y)
  PROVE  \E S \in Relations : Same(update_flags(n, h), update_flags(l, j), S)
<1> DEFINE v == Word(h, tag)
           w == Word(j, tag)
           S == R \cup {<<v, w>>}
<1>1. /\ Sound(n) /\ Grows(m, n) /\ Differs(m, n, Pools \cup {"reg"}) /\ n.reg = [m.reg EXCEPT ![r] = v]
      /\ v \in LiveWords(n) /\ h \in Nat \ {0} /\ Known(n, v) /\ Entry(n, v) = x
  BY DEF Entered, Known, Entry, Word
<1>2. /\ Sound(l) /\ Grows(k, l) /\ Differs(k, l, Pools \cup {"reg"}) /\ l.reg = [k.reg EXCEPT ![r] = w]
      /\ w \in LiveWords(l) /\ j \in Nat \ {0} /\ Known(l, w) /\ Entry(l, w) = y
  BY DEF Entered, Known, Entry, Word
<1>3. v.tag = tag /\ w.tag = tag
  BY DEF Word
<1> HIDE DEF v, w
<1>4. S \in Relations
  <2>1. v \in Words /\ w \in Words /\ R \in Relations
    BY <1>1, <1>2 DEF LiveWords, Same, Pair, Alike
  <2> QED
    BY <2>1 DEF Relations
<1>5. <<v, w>> \in S /\ R \subseteq S
  OBVIOUS
<1>6. Twin(n, S, v, w)
  BY <1>5 DEF Twin
<1>7. Seen(n, v) = Seen(l, w)
  BY <1>1, <1>2, <1>3 DEF Seen, Akin
<1>8. LiveWords(m) \subseteq LiveWords(n)
  BY <1>1, LiveGrows DEF LiveWords
<1>9. Twin(n, S, Inside(n, v), Inside(l, w))
  <2>1. CASE tag = "Complex"
    BY <1>1, <1>2, <1>3, <1>6, <2>1 DEF Inside
  <2>2. CASE tag # "Complex"
    <3>1. Inside(n, v) = x.of /\ Inside(l, w) = y.of /\ Twin(m, R, x.of, y.of)
      BY <1>1, <1>2, <1>3, <2>2 DEF Inside, Akin
    <3> QED
      BY <1>5, <1>8, <3>1, TwinStays
  <2> QED
    BY <2>1, <2>2
<1>10. Gets(m, n, r, v) /\ Gets(k, l, r, w)
  BY <1>1, <1>2 DEF Gets, Differs, Pools
<1>11. /\ n.sp = l.sp /\ n.tensors = l.tensors /\ n.reflections = l.reflections /\ n.pc = l.pc /\ n.trap = l.trap
       /\ n.printed = l.printed /\ l.elements <= n.elements
  BY <1>1, <1>2, SameFacts DEF Differs, Pools
<1>12. S = R \cup {<<v, w>>}
  OBVIOUS
<1> HIDE DEF S
<1>13. Pair(n, l, S)
  BY <1>1, <1>2, <1>3, <1>4, <1>6, <1>7, <1>9, <1>10, <1>11, <1>12, SameGrown
<1>14. SignOf(h) = SignOf(j)
  BY <1>1, <1>2 DEF SignOf
<1> QED
  BY <1>4, <1>13, <1>14, SameFlags

LEMMA Interns ==
  ASSUME NEW m, Sound(m), NEW i, i.a \in Registers
  PROVE  /\ \A is \in BOOLEAN, of \in LiveWords(m) : \E n, h :
              InternOption(m, i, Box(is, of)) = update_flags(n, h) /\ Entered(m, n, i.a, h, "Option", Box(is, of))
         /\ \A is \in BOOLEAN, of \in LiveWords(m) : \E n, h :
              InternResult(m, i, Box(is, of)) = update_flags(n, h) /\ Entered(m, n, i.a, h, "Result", Box(is, of))
         /\ \A x \in Variants : x.of \in LiveWords(m) /\ ~(x.id < 0) => \E n, h :
              InternEnum(m, i, x) = update_flags(n, h) /\ Entered(m, n, i.a, h, "Enum", x)
         /\ \A x \in Int \X Int : \E n, h :
              InternComplex(m, i, x) = update_flags(n, h) /\ Entered(m, n, i.a, h, "Complex", x)
<1>1. ASSUME NEW is \in BOOLEAN, NEW of \in LiveWords(m)
      PROVE  /\ \E n, h : InternOption(m, i, Box(is, of)) = update_flags(n, h) /\ Entered(m, n, i.a, h, "Option", Box(is, of))
             /\ \E n, h : InternResult(m, i, Box(is, of)) = update_flags(n, h) /\ Entered(m, n, i.a, h, "Result", Box(is, of))
  <2>1. Box(is, of) \in Boxes
    BY DEF Box, Boxes, LiveWords
  <2> DEFINE p == Interned(m.options, Box(is, of))
             q == Interned(m.results, Box(is, of))
             g == HandleOf(p, Box(is, of))
             h == HandleOf(q, Box(is, of))
  <2>2. Extends(Boxes, m.options, p, g, Box(is, of)) /\ Extends(Boxes, m.results, q, h, Box(is, of))
    BY <2>1, InternedIs, SoundPools
  <2>3. /\ InternOption(m, i, Box(is, of)) = update_flags(Put([m EXCEPT !.options = p], i.a, Word(g, "Option")), g)
        /\ InternResult(m, i, Box(is, of)) = update_flags(Put([m EXCEPT !.results = q], i.a, Word(h, "Result")), h)
    BY DEF InternOption, InternResult, PutHandle
  <2> HIDE DEF p, q, g, h
  <2> QED
    BY <2>2, <2>3, EntersOption, EntersResult
<1>2. ASSUME NEW x \in Variants, x.of \in LiveWords(m), ~(x.id < 0)
      PROVE  \E n, h : InternEnum(m, i, x) = update_flags(n, h) /\ Entered(m, n, i.a, h, "Enum", x)
  <2> DEFINE q == Interned(m.enums, x)
             h == HandleOf(q, x)
  <2>1. Extends(Variants, m.enums, q, h, x)
    BY InternedIs, SoundPools
  <2>2. InternEnum(m, i, x) = update_flags(Put([m EXCEPT !.enums = q], i.a, Word(h, "Enum")), h)
    BY <1>2 DEF InternEnum, PutHandle
  <2> HIDE DEF q, h
  <2> QED
    BY <1>2, <2>1, <2>2, EntersEnum
<1>3. ASSUME NEW x \in Int \X Int
      PROVE  \E n, h : InternComplex(m, i, x) = update_flags(n, h) /\ Entered(m, n, i.a, h, "Complex", x)
  <2> DEFINE q == Interned(m.complexes, x)
             h == HandleOf(q, x)
  <2>1. Extends(Int \X Int, m.complexes, q, h, x)
    BY InternedIs, SoundPools
  <2>2. InternComplex(m, i, x) = update_flags(Put([m EXCEPT !.complexes = q], i.a, Word(h, "Complex")), h)
    BY DEF InternComplex, PutHandle
  <2> HIDE DEF q, h
  <2> QED
    BY <2>1, <2>2, EntersComplex
<1> QED
  BY <1>1, <1>2, <1>3

LEMMA Appends ==
  ASSUME NEW m, Sound(m), NEW r \in Registers
  PROVE  /\ \A is \in BOOLEAN, of \in LiveWords(m) : \E h :
              /\ Entered(m, AppendOption(m, r, Box(is, of)), r, h, "Option", Box(is, of))
         /\ \A is \in BOOLEAN, of \in LiveWords(m) : \E h :
              /\ Entered(m, AppendResult(m, r, Box(is, of)), r, h, "Result", Box(is, of))
         /\ \A x \in Variants : x.of \in LiveWords(m) => \E h : Entered(m, AppendEnum(m, r, x), r, h, "Enum", x)
         /\ \A x \in Int \X Int : \E h : Entered(m, AppendComplex(m, r, x), r, h, "Complex", x)
<1>1. ASSUME NEW is \in BOOLEAN, NEW of \in LiveWords(m)
      PROVE  /\ \E h : Entered(m, AppendOption(m, r, Box(is, of)), r, h, "Option", Box(is, of))
             /\ \E h : Entered(m, AppendResult(m, r, Box(is, of)), r, h, "Result", Box(is, of))
  <2>1. Box(is, of) \in Boxes
    BY DEF Box, Boxes, LiveWords
  <2> DEFINE p == Append(m.options, Box(is, of))
             q == Append(m.results, Box(is, of))
             g == Len(m.options) + 1
             h == Len(m.results) + 1
  <2>2. Extends(Boxes, m.options, p, g, Box(is, of)) /\ Extends(Boxes, m.results, q, h, Box(is, of))
    BY <2>1, AppendIs, SoundPools
  <2>3. /\ AppendOption(m, r, Box(is, of)) = Put([m EXCEPT !.options = p], r, Word(g, "Option"))
        /\ AppendResult(m, r, Box(is, of)) = Put([m EXCEPT !.results = q], r, Word(h, "Result"))
    BY DEF AppendOption, AppendResult
  <2> HIDE DEF p, q, g, h
  <2> QED
    BY <2>2, <2>3, EntersOption, EntersResult
<1>2. ASSUME NEW x \in Variants, x.of \in LiveWords(m)
      PROVE  \E h : Entered(m, AppendEnum(m, r, x), r, h, "Enum", x)
  <2> DEFINE q == Append(m.enums, x)
             h == Len(m.enums) + 1
  <2>1. Extends(Variants, m.enums, q, h, x)
    BY AppendIs, SoundPools
  <2>2. AppendEnum(m, r, x) = Put([m EXCEPT !.enums = q], r, Word(h, "Enum"))
    BY DEF AppendEnum
  <2> HIDE DEF q, h
  <2> QED
    BY <1>2, <2>1, <2>2, EntersEnum
<1>3. ASSUME NEW x \in Int \X Int
      PROVE  \E h : Entered(m, AppendComplex(m, r, x), r, h, "Complex", x)
  <2> DEFINE q == Append(m.complexes, x)
             h == Len(m.complexes) + 1
  <2>1. Extends(Int \X Int, m.complexes, q, h, x)
    BY AppendIs, SoundPools
  <2>2. AppendComplex(m, r, x) = Put([m EXCEPT !.complexes = q], r, Word(h, "Complex"))
    BY DEF AppendComplex
  <2> HIDE DEF q, h
  <2> QED
    BY <2>1, <2>2, EntersComplex
<1> QED
  BY <1>1, <1>2, <1>3

(* The flags follow the handle in both machines.                           *)
LEMMA SameMade ==
  ASSUME NEW m, NEW k, NEW R, NEW i, Same(m, k, R), i.op \in Makes, i.a \in Registers, reg_ok(k, i), NEW tag \in Handles,
         NEW n, NEW l, NEW h, NEW j, NEW x, NEW y, Akin(m, R, tag, x, y),
         Handler(m, i) = update_flags(n, h), Entered(m, n, i.a, h, tag, x),
         TraceExecute(k, i) = Done(l), Entered(k, l, i.a, j, tag, y)
  PROVE  \E S \in Relations : Same(Handler(m, i), Outcome(k, i), S)
<1>1. i.op \in Recorded /\ i.op \notin LeavesFlags /\ Sound(k) /\ DOMAIN k.reg = Registers
  BY SameFacts DEF Recorded, Makes, LeavesFlags, Jumps
<1>2. Outcome(k, i) = Flagged(l, i)
  BY <1>1, Ends
<1>3. l.reg[i.a].n = j
  BY <1>1 DEF Entered, Word
<1>4. Outcome(k, i) = update_flags(l, j)
  BY <1>1, <1>2, <1>3 DEF Flagged
<1> QED
  BY <1>4, SameEntered

LEMMA SameMake ==
  ASSUME NEW m, NEW k, NEW R, NEW i, Ready(m, k, R, i), i.op \in Makes
  PROVE  \E S \in Relations : Same(Handler(m, i), Outcome(k, i), S)
<1> DEFINE v == m.reg[i.b]
           w == k.reg[i.b]
<1>0. /\ Same(m, k, R) /\ m.trap = "None" /\ Sound(m) /\ Sound(k) /\ reg_ok(m, i) /\ reg_ok(k, i) /\ HasFields(k)
      /\ i.b \in Int /\ i.c \in Int /\ Departures(m, i) = {} /\ R \in Relations
  BY ReadyFacts, SameFacts DEF Same, Pair, Alike
<1>1. /\ i.a \in Registers /\ i.op \in Recorded /\ i.op \notin LeavesFlags
      /\ i.op \notin {"MakeOptionNone", "MakeEnumVariant"} => i.b \in Registers
      /\ i.op = "MakeComplex" => i.c \in Registers
  BY <1>0, NamedAre DEF Makes, Recorded, LeavesFlags, Jumps
<1>2. i.b \in Registers => Twin(m, R, v, w) /\ v \in LiveWords(m) /\ w \in LiveWords(k)
  <2>1. i.b \in Registers => Twin(m, R, v, w)
    BY <1>0, SameReads
  <2>2. Pair(m, k, R)
    BY <1>0, SameFacts
  <2> HIDE DEF v, w
  <2> QED
    BY <2>1, <2>2, TwinFacts
<1>3. Nothing \in LiveWords(m) /\ Nothing \in LiveWords(k) /\ Twin(m, R, Nothing, Nothing)
  BY IntIs DEF Nothing, LiveWords, Twin, Word, Handles
<1>4. Handler(m, i) = Make(m, i) /\ TraceExecute(k, i) = TraceMake(k, i)
  BY Dispatch, TraceDispatch
<1>5. /\ \A is : Box(is, v).is = is /\ Box(is, v).of = v /\ Box(is, w).is = is /\ Box(is, w).of = w
      /\ \A is : Box(is, Nothing).is = is /\ Box(is, Nothing).of = Nothing
  BY DEF Box
<1>6. /\ "Option" \in Handles /\ "Result" \in Handles /\ "Enum" \in Handles /\ "Complex" \in Handles
      /\ TRUE \in BOOLEAN /\ FALSE \in BOOLEAN
  BY DEF Handles
<1>7. CASE i.op = "MakeOptionSome"
  <2>1. Handler(m, i) = InternOption(m, i, Box(TRUE, v)) /\ TraceExecute(k, i) = Done(AppendOption(k, i.a, Box(TRUE, w)))
    BY <1>0, <1>4, <1>7, TraceMakes DEF Make
  <2>2. v \in LiveWords(m) /\ w \in LiveWords(k) /\ Akin(m, R, "Option", Box(TRUE, v), Box(TRUE, w))
    BY <1>1, <1>2, <1>5, <1>7 DEF Akin
  <2> HIDE DEF v, w
  <2>3. PICK n, h : Handler(m, i) = update_flags(n, h) /\ Entered(m, n, i.a, h, "Option", Box(TRUE, v))
    BY <1>0, <1>1, <1>6, <2>1, <2>2, Interns
  <2>4. PICK j : Entered(k, AppendOption(k, i.a, Box(TRUE, w)), i.a, j, "Option", Box(TRUE, w))
    BY <1>0, <1>1, <1>6, <2>2, Appends
  <2> QED
    BY <1>0, <1>1, <1>6, <2>1, <2>2, <2>3, <2>4, SameMade
<1>8. CASE i.op = "MakeOptionNone"
  <2>1. /\ Handler(m, i) = InternOption(m, i, Box(FALSE, Nothing))
        /\ TraceExecute(k, i) = Done(AppendOption(k, i.a, Box(FALSE, Nothing)))
    BY <1>0, <1>4, <1>8, TraceMakes DEF Make
  <2>2. Akin(m, R, "Option", Box(FALSE, Nothing), Box(FALSE, Nothing))
    BY <1>3, <1>5 DEF Akin
  <2>3. PICK n, h : Handler(m, i) = update_flags(n, h) /\ Entered(m, n, i.a, h, "Option", Box(FALSE, Nothing))
    BY <1>0, <1>1, <1>3, <1>6, <2>1, Interns
  <2>4. PICK j : Entered(k, AppendOption(k, i.a, Box(FALSE, Nothing)), i.a, j, "Option", Box(FALSE, Nothing))
    BY <1>0, <1>1, <1>3, <1>6, Appends
  <2> QED
    BY <1>0, <1>1, <1>6, <2>1, <2>2, <2>3, <2>4, SameMade
<1>9. ASSUME NEW is \in BOOLEAN, i.op = IF is THEN "MakeResultOk" ELSE "MakeResultErr"
      PROVE  \E S \in Relations : Same(Handler(m, i), Outcome(k, i), S)
  <2>1. Handler(m, i) = InternResult(m, i, Box(is, v)) /\ TraceExecute(k, i) = Done(AppendResult(k, i.a, Box(is, w)))
    BY <1>0, <1>4, <1>9, TraceMakes DEF Make
  <2>2. v \in LiveWords(m) /\ w \in LiveWords(k) /\ Akin(m, R, "Result", Box(is, v), Box(is, w))
    BY <1>1, <1>2, <1>5, <1>9 DEF Akin
  <2> HIDE DEF v, w
  <2>3. PICK n, h : Handler(m, i) = update_flags(n, h) /\ Entered(m, n, i.a, h, "Result", Box(is, v))
    BY <1>0, <1>1, <2>1, <2>2, Interns
  <2>4. PICK j : Entered(k, AppendResult(k, i.a, Box(is, w)), i.a, j, "Result", Box(is, w))
    BY <1>0, <1>1, <2>2, Appends
  <2> QED
    BY <1>0, <1>1, <1>6, <2>1, <2>2, <2>3, <2>4, SameMade
<1>10. CASE i.op = "MakeEnumVariant"
  <2> DEFINE x == Variant(i.b, EnumOf(i.b), FALSE, Nothing)
             y == Variant(i.b, -1, FALSE, Nothing)
  <2>1. Handler(m, i) = InternEnum(m, i, x) /\ TraceExecute(k, i) = Done(AppendEnum(k, i.a, y))
    BY <1>0, <1>4, <1>10, TraceMakes DEF Make
  <2>2. x \in Variants /\ y \in Variants
    <3>1. Nothing \in Words /\ EnumOf(i.b) \in Int /\ -1 \in Int
      BY <1>0, <1>3 DEF LiveWords, EnumOf
    <3> QED
      BY <1>0, <3>1 DEF Variant, Variants
  <2>3. /\ x.of = Nothing /\ y.of = Nothing /\ ~(x.id < 0) /\ Akin(m, R, "Enum", x, y)
    BY <1>0, <1>3, <1>10, NotDeparted DEF Variant, Akin
  <2> HIDE DEF x, y
  <2>4. PICK n, h : Handler(m, i) = update_flags(n, h) /\ Entered(m, n, i.a, h, "Enum", x)
    BY <1>0, <1>1, <1>3, <2>1, <2>2, <2>3, Interns
  <2>5. PICK j : Entered(k, AppendEnum(k, i.a, y), i.a, j, "Enum", y)
    BY <1>0, <1>1, <1>3, <2>2, <2>3, Appends
  <2> QED
    BY <1>0, <1>1, <1>6, <2>1, <2>3, <2>4, <2>5, SameMade
<1>11. CASE i.op = "MakeEnumVariantPayload" /\ ~(i.c < 0)
  <2> DEFINE x == Variant(i.c, EnumOf(i.c), TRUE, v)
             y == Variant(i.c, -1, TRUE, w)
  <2>1. Handler(m, i) = InternEnum(m, i, x) /\ TraceExecute(k, i) = Done(AppendEnum(k, i.a, y))
    BY <1>0, <1>4, <1>11, TraceMakes DEF Make
  <2>2. Twin(m, R, v, w) /\ v \in LiveWords(m) /\ w \in LiveWords(k) /\ v \in Words /\ w \in Words
    BY <1>1, <1>2, <1>11 DEF LiveWords
  <2> HIDE DEF v, w
  <2>3. x \in Variants /\ y \in Variants
    BY <1>0, <2>2 DEF Variant, Variants, EnumOf
  <2>4. /\ x.of = v /\ y.of = w /\ ~(x.id < 0) /\ Akin(m, R, "Enum", x, y)
    BY <1>11, <2>2 DEF Variant, Akin
  <2> HIDE DEF x, y
  <2>5. PICK n, h : Handler(m, i) = update_flags(n, h) /\ Entered(m, n, i.a, h, "Enum", x)
    BY <1>0, <1>1, <2>1, <2>2, <2>3, <2>4, Interns
  <2>6. PICK j : Entered(k, AppendEnum(k, i.a, y), i.a, j, "Enum", y)
    BY <1>0, <1>1, <2>2, <2>3, <2>4, Appends
  <2> QED
    BY <1>0, <1>1, <1>6, <2>1, <2>4, <2>5, <2>6, SameMade
<1> DEFINE f == update_flags(k, k.reg[i.a].n)
<1>12. ASSUME NEW x \in {"DecodeFault", "TypeFault"}, Handler(m, i) = Trapped(m, x), TraceExecute(k, i) = GivesUp,
              Handler(k, i) = Trapped(k, x), Handler(f, i) = Trapped(f, x)
       PROVE  \E S \in Relations : Same(Handler(m, i), Outcome(k, i), S)
  <2>1. Outcome(k, i) = Trapped(f, x)
    BY <1>0, <1>1, <1>12, Ends
  <2>2. Same(Trapped(m, x), Trapped(k, x), R)
    BY <1>0, SameTrap
  <2>3. Like(Trapped(k, x), Trapped(f, x))
    BY <1>0, <1>12, LikeTrap
  <2>4. Sound(Trapped(f, x))
    BY <1>0, SoundFlags, SoundTrap
  <2>5. Same(Trapped(m, x), Trapped(f, x), R)
    <3> DEFINE p == Trapped(m, x)
               q == Trapped(k, x)
               l == Trapped(f, x)
    <3>1. Same(p, q, R) /\ Sound(l) /\ Like(q, l)
      BY <2>2, <2>3, <2>4
    <3> HIDE DEF p, q, l
    <3>2. Same(p, l, R)
      BY <3>1, SameLike
    <3> QED
      BY <3>2 DEF p, l
  <2> QED
    BY <1>0, <1>12, <2>1, <2>5
<1>13. f.reg = k.reg
  <2>1. Differs(k, f, {"flag"})
    BY <1>0, FlagsAre
  <2> HIDE DEF f
  <2> QED
    BY <2>1 DEF Differs
<1>14. CASE i.op = "MakeEnumVariantPayload" /\ i.c < 0
  <2>1. \A q : Handler(q, i) = Trapped(q, "DecodeFault")
    BY <1>14, Dispatch DEF Make, Makes
  <2>2. TraceExecute(k, i) = GivesUp
    BY <1>0, <1>4, <1>14, TraceMakes
  <2> HIDE DEF f
  <2> QED
    BY <1>12, <2>1, <2>2
<1>15. CASE i.op = "MakeComplex"
  <2> DEFINE t == m.reg[i.c]
             u == k.reg[i.c]
  <2>1. v.tag = w.tag /\ t.tag = u.tag /\ (v.tag = "Int" => v = w) /\ (t.tag = "Int" => t = u)
        /\ v.n \in Int /\ w.n \in Int /\ t.n \in Int /\ u.n \in Int
    <3>1. "Int" \notin Handles
      BY DEF Handles
    <3> QED
      BY <1>0, <1>1, <1>15, <3>1, SameReads
  <2>2. CASE v.tag = "Int" /\ t.tag = "Int"
    <3> DEFINE x == <<v.n, t.n>>
    <3>1. /\ Handler(m, i) = InternComplex(m, i, x)
      BY <1>4, <1>15, <2>2 DEF Make
    <3>2. TraceExecute(k, i) = Done(AppendComplex(k, i.a, x))
      BY <1>0, <1>4, <1>15, <2>1, <2>2, TraceMakes
    <3>3. x \in Int \X Int /\ Akin(m, R, "Complex", x, x)
      BY <2>1 DEF Akin
    <3> HIDE DEF x
    <3>4. PICK n, h : Handler(m, i) = update_flags(n, h) /\ Entered(m, n, i.a, h, "Complex", x)
      BY <1>0, <1>1, <3>1, <3>3, Interns
    <3>5. PICK j : Entered(k, AppendComplex(k, i.a, x), i.a, j, "Complex", x)
      BY <1>0, <1>1, <3>3, Appends
    <3> QED
      BY <1>0, <1>1, <1>6, <3>2, <3>3, <3>4, <3>5, SameMade
  <2>3. CASE ~(v.tag = "Int" /\ t.tag = "Int")
    <3>1. \A q : ~(q.reg[i.b].tag = "Int" /\ q.reg[i.c].tag = "Int") => Handler(q, i) = Trapped(q, "TypeFault")
      BY <1>15, Dispatch DEF Make, Makes
    <3>2. TraceExecute(k, i) = GivesUp
      BY <1>0, <1>4, <1>15, <2>1, <2>3, TraceMakes
    <3> HIDE DEF f
    <3>3. Handler(m, i) = Trapped(m, "TypeFault") /\ Handler(k, i) = Trapped(k, "TypeFault") /\ Handler(f, i) = Trapped(f, "TypeFault")
      BY <1>13, <2>1, <2>3, <3>1
    <3> QED
      BY <1>12, <3>2, <3>3
  <2> QED
    BY <2>2, <2>3
<1> QED
  BY <1>7, <1>8, <1>9, <1>10, <1>11, <1>14, <1>15 DEF Makes

(* The two machines stay the same, until they part.                        *)
BothSame == departed = {} => \E R \in Relations : Same(vm, tr, R)

LEMMA StartsSame == Init => BothSame
<1> SUFFICES ASSUME Init
             PROVE  \E R \in Relations : Same(vm, tr, R)
  BY DEF BothSame
<1> DEFINE R == {x \in Words \X Words : x[1] = x[2] /\ x[1] \in LiveWords(vm) /\ x[1].tag \in Handles}
<1>1. tr = vm /\ Sound(vm)
  BY StartAssumption DEF Init, Sound
<1>2. R \in Relations /\ \A v, w \in Words : <<v, w>> \in R <=> v = w /\ v \in LiveWords(vm) /\ v.tag \in Handles
  BY DEF Relations
<1> HIDE DEF R
<1>3. \A w \in LiveWords(vm) : Twin(vm, R, w, w)
  BY <1>2 DEF Twin, LiveWords
<1>4. Bisim(vm, vm, R)
  BY <1>1, <1>2, <1>3, InsideIs DEF Bisim
<1>5. vm.elements <= vm.elements
  BY <1>1, SoundFacts
<1>6. Alike(vm, vm, R)
  BY <1>1, <1>2, <1>3, <1>4, <1>5, SoundFacts DEF Alike
<1> QED
  BY <1>1, <1>2, <1>6 DEF Same, Pair

LEMMA StaysSame == BothSame /\ BothSound /\ [Next]_vars => BothSame'
<1> SUFFICES ASSUME BothSame, BothSound, [Next]_vars, departed' = {}
             PROVE  \E R \in Relations : Same(vm', tr', R)
  BY DEF BothSame
<1>1. CASE UNCHANGED vars
  BY <1>1 DEF BothSame, vars
<1>2. ASSUME NEW i \in Insns, Execute(i)
      PROVE  \E R \in Relations : Same(vm', tr', R)
  <2>1. departed = {} /\ vm.trap = "None" /\ tr.trap = "None" /\ vm' = Interp(vm, i)
    BY <1>2 DEF Execute
  <2>2. PICK R \in Relations : Same(vm, tr, R)
    BY <2>1 DEF BothSame
  <2>3. reg_ok(tr, i) <=> reg_ok(vm, i)
    BY <2>2, SameFacts DEF reg_ok
  <2>4. CASE ~reg_ok(vm, i)
    <3>1. vm' = Trapped(vm, "DecodeFault") /\ tr' = Trapped(tr, "DecodeFault")
      BY <1>2, <2>3, <2>4 DEF Execute, Interp
    <3>2. Same(Trapped(vm, "DecodeFault"), Trapped(tr, "DecodeFault"), R)
      BY <2>2, SameTrap
    <3> QED
      BY <3>1, <3>2
  <2>5. CASE reg_ok(vm, i)
    <3>1. Departures(vm, i) = {} /\ Forges(tr, i) = {}
      BY <1>2, <2>5 DEF Execute
    <3>2. Ready(vm, tr, R, i)
      BY <2>1, <2>2, <2>5, <3>1 DEF Ready
    <3>3. vm' = Handler(vm, i)
      BY <2>1, <2>5 DEF Interp
    <3>4. tr' = IF i.op \notin Recorded THEN Handler(tr, i) ELSE Outcome(tr, i)
      BY <1>2, <2>3, <2>5 DEF Execute, Interp, Outcome
    <3>5. CASE i.op \notin Recorded
      <4>1. i.op \notin Makes
        BY <3>5 DEF Recorded
      <4> QED
        BY <2>2, <3>2, <3>3, <3>4, <3>5, <4>1, SameHandler
    <3>6. CASE i.op \in Makes
      <4>1. i.op \in Recorded
        BY <3>6 DEF Recorded
      <4> QED
        BY <3>2, <3>3, <3>4, <3>6, <4>1, SameMake
    <3>7. CASE i.op \in Recorded \ Makes
      <4>1. Same(vm', Handler(tr, i), R)
        BY <3>2, <3>3, <3>7, SameHandler
      <4>2. Like(Handler(tr, i), tr')
        BY <3>2, <3>4, <3>7, ReadyClear, TraceLike
      <4>3. Sound(tr')
        <5>1. BothSound'
          BY StaysSound
        <5>2. "ForgesHandle" \notin departed'
          OBVIOUS
        <5>3. Sound(tr)'
          BY <5>1, <5>2 DEF BothSound
        <5> QED
          BY <5>3 DEF Sound, IsMachine, HasFields, AllLive, Live, Known, PoolOf
      <4> QED
        BY <2>2, <4>1, <4>2, <4>3, SameLike
    <3> QED
      BY <3>5, <3>6, <3>7
  <2> QED
    BY <2>4, <2>5
<1> QED
  BY <1>1, <1>2 DEF Next

(* Whatever instructions come, the machine that runs them as traces stands *)
(* for the same as the one that interprets them -- registers, memory,      *)
(* stack, flags, tensors, branches, output and traps, its handles read as  *)
(* what they name -- until one of the departures.                          *)
THEOREM TracesAlwaysAgree == Spec => []TracesAgree
<1>1. Init => BothSame /\ BothSound
  BY StartsSame, StartsSound
<1>2. BothSame /\ BothSound /\ [Next]_vars => (BothSame /\ BothSound)'
  BY StaysSame, StaysSound
<1>3. BothSame => TracesAgree
  <2> SUFFICES ASSUME BothSame, departed = {}
               PROVE  Agree
    BY DEF TracesAgree
  <2>1. PICK R \in Relations : Same(vm, tr, R)
    BY DEF BothSame
  <2>2. MaxNesting \in Nat /\ Pair(vm, tr, R)
    BY <2>1, LayoutAssumption DEF Same
  <2>3. \A v, w : Twin(vm, R, v, w) => Meaning(vm, v) = Meaning(tr, w)
    BY <2>2, TwinFaces DEF Meaning
  <2>4. Meanings(vm, vm.reg) = Meanings(tr, tr.reg) /\ Meanings(vm, vm.mem) = Meanings(tr, tr.mem)
    BY <2>1, <2>3, SameFacts DEF Meanings
  <2> QED
    BY <2>1, <2>4, SameFacts DEF Agree
<1> QED
  BY <1>1, <1>2, <1>3, PTL DEF Spec
=============================================================================
