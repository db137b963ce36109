------------------------------ MODULE Numerics -------------------------------
(***************************************************************************)
(* The numeric classes at work: operands of one kind are given, and one of  *)
(* the operations of that kind is carried out.  An integer is its trits, an *)
(* integer of any size a sign and limbs, a fraction a pair, a text its      *)
(* digits; what throws, or ends the program, yields the empty sequence.     *)
(* The codecs and the vectors of trits yield Results.                       *)
(* Fixed-width numbers in trytes of three trits (include/t81/types/         *)
(* T81Limb.hpp) come first.                                                 *)
(***************************************************************************)
EXTENDS TritFloats, Codecs

CONSTANTS
  TryteTrits,   \* trits of a tryte (3)
  Tasks         \* for every kind, the operands it is tried with

ASSUME TryteAssumption == TryteTrits \in Nat \ {0}

(************************** limbs ******************************************)
(* T81Limb (16 trytes), T81Limb54 (18) and T81Limb27 (9).  A number is the *)
(* sequence of its trytes, the lowest first; the three classes differ in   *)
(* the strides of their adders and in how they multiply.                   *)
TryteBase == 3^TryteTrits
TryteMax == (TryteBase - 1) \div 2
Trytes == (-TryteMax)..TryteMax

LimbValue(x) == Numeral(x, TryteBase)

TritsOfTryte(v) == [t \in 1..TryteTrits |-> (((v + TryteMax) \div 3^(t - 1)) % 3) - 1]
ToTrits(x) == FlattenSeq([i \in DOMAIN x |-> TritsOfTryte(x[i])])
Encode(trits) ==
  [i \in 1..(Len(trits) \div TryteTrits) |->
    Numeral(SubSeq(trits, (i - 1) * TryteTrits + 1, i * TryteTrits), 3)]

(************************** adders *****************************************)
(* What a pair of trytes does to the carry that comes in.                   *)
TryteCarry(s) == IF s > TryteMax THEN 1 ELSE IF s < -TryteMax THEN -1 ELSE 0
CarryMap(a, b) == [c \in -1..1 |-> TryteCarry(a + b + c)]
Composed(f, g) == [c \in -1..1 |-> f[g[c]]]

(* A pass runs upwards and in place: where it composes with a lower map, it *)
(* has already changed that one.                                            *)
PrefixPass(maps, stride) ==
  FoldLeft(LAMBDA done, i : IF i > stride THEN [done EXCEPT ![i] = Composed(done[i], done[i - stride])]
                            ELSE done,
           maps, [i \in DOMAIN maps |-> i])

KoggeStone(x, y, strides) ==
  LET maps == FoldLeft(PrefixPass, [i \in DOMAIN x |-> CarryMap(x[i], y[i])], strides)
      Into(i) == IF i = 1 THEN 0 ELSE maps[i - 1][0]
      Sum(i) == x[i] + y[i] + Into(i)
  IN [sum |-> [i \in DOMAIN x |-> Sum(i) - TryteBase * TryteCarry(Sum(i))],
      carry |-> maps[Len(x)][0]]

Addc48(x, y) == KoggeStone(x, y, <<1, 2, 4, 8>>)
Addc54(x, y) == KoggeStone(x, y, <<1, 2, 4, 8, 16>>)
Addc27(x, y) == KoggeStone(x, y, <<1, 2, 4>>)

(************************** T81Limb ****************************************)
FromTrits48(digits) == Encode(Ripple(digits, "full", 3).digits)

ColumnSums(a, b) ==
  [k \in 1..(Len(a) + Len(b)) |->
    MapThenSumSet(LAMBDA i : a[i] * b[k + 1 - i], {i \in DOMAIN a : k + 1 - i \in DOMAIN b})]

ReferenceMul48(x, y) ==
  LET a == ToTrits(x)
      b == ToTrits(y)
      Shifted(i) == [t \in DOMAIN a |-> IF t >= i THEN a[t - i + 1] * b[i] ELSE 0]
  IN FoldLeft(LAMBDA product, i :
                IF b[i] = 0 THEN product ELSE Addc48(product, FromTrits48(Shifted(i))).sum,
              Zeros(Len(x)), [i \in DOMAIN b |-> i])

NormalizeWide(sums) == Ripple(sums, "full", 3).digits
FinalizeWide(sums) == [i \in DOMAIN sums |-> IF sums[i] > 1 THEN 1 ELSE IF sums[i] < -1 THEN -1 ELSE sums[i]]

MulWide(x, y) ==
  LET n == Len(x) * TryteTrits
      trits == FinalizeWide(NormalizeWide(NormalizeWide(NormalizeWide(ColumnSums(ToTrits(x), ToTrits(y))))))
  IN <<FromTrits48(SubSeq(trits, 1, n)), FromTrits48(SubSeq(trits, n + 1, 2 * n))>>

BoothMul48(x, y) ==
  LET trits == FinalizeWide(NormalizeWide(NormalizeWide(NormalizeWide(ColumnSums(ToTrits(x), ToTrits(y))))))
  IN FromTrits48(SubSeq(trits, 1, Len(x) * TryteTrits))

(************************* T81Limb54 ***************************************)
(* Carries of one, whatever the sum; and carries for sums of two only.      *)
FromTrits54(digits) == Encode(Ripple(digits, "two", 3).digits)
SettledColumns(sums) == Ripple(Ripple(sums, "unit", 3).digits, "two", 3).digits

ReferenceMul54(x, y) ==
  FromTrits54(SettledColumns(SubSeq(ColumnSums(ToTrits(x), ToTrits(y)), 1, Len(x) * TryteTrits)))

Sub54(x, y) ==
  LET a == ToTrits(x)
      b == ToTrits(y)
  IN FromTrits54(Ripple([i \in DOMAIN a |-> a[i] - b[i]], "unit", 3).digits)

(* What two digits of the multiplier, d + 3 * e, do: the sign and the shift *)
(* of what is added.                                                        *)
BoothSign(pattern) == IF pattern \in 1..4 THEN 1 ELSE IF pattern \in (-4)..(-1) THEN -1 ELSE 0
BoothShift(pattern) == IF pattern \in {2, 4, -2, -4} THEN 1 ELSE 0

BoothTrits54(a, b) ==
  LET n == Len(a)
      Pattern(i) == b[i] + 3 * (IF i < n THEN b[i + 1] ELSE 0)
      Target(i, j) == j + i - 1 + BoothShift(Pattern(i))
      sums == [k \in 1..(2 * n) |->
                MapThenSumSet(LAMBDA i :
                  MapThenSumSet(LAMBDA j : IF Target(i, j) = k THEN BoothSign(Pattern(i)) * a[j] ELSE 0,
                                DOMAIN a), {i \in DOMAIN b : i % 2 = 1})]
  IN SubSeq(SettledColumns(sums), 1, n)

BoothMul54(x, y) ==
  LET candidate == FromTrits54(BoothTrits54(ToTrits(x), ToTrits(y)))
      canonical == ReferenceMul54(x, y)
  IN IF ToTrits(candidate) # ToTrits(canonical) THEN canonical ELSE candidate

(************************* T81Limb27 ***************************************)
LowHalf(x) == SubSeq(x, 1, Len(x) \div 2)
HighHalf(x) == SubSeq(x, Len(x) \div 2 + 1, Len(x))
ShiftTrytes(x, k) == [i \in DOMAIN x |-> IF i > k THEN x[i - k] ELSE 0]

(* The patterns are of trytes here; where the tryte stands does not enter.  *)
Times27(x, y) ==
  LET a == ToTrits(x)
      Pattern(i) == y[i] + 3 * (IF i < Len(y) THEN y[i + 1] ELSE 0)
      Shift(i) == BoothShift(Pattern(i)) * TryteTrits
      sums == [k \in 1..(2 * Len(a)) |->
                MapThenSumSet(LAMBDA i : IF k - Shift(i) \in DOMAIN a
                                         THEN BoothSign(Pattern(i)) * a[k - Shift(i)] ELSE 0, DOMAIN y)]
  IN FromTrits54(SettledColumns(sums))

Karatsuba54(x, y) ==
  LET half == Len(x) \div 2
      z0 == Times27(LowHalf(x), LowHalf(y))
      z2 == Times27(HighHalf(x), HighHalf(y))
      mid == Times27(Addc27(LowHalf(x), HighHalf(x)).sum, Addc27(LowHalf(y), HighHalf(y)).sum)
      z1 == Sub54(Sub54(mid, z0), z2)
  IN Addc54(Addc54(z0, ShiftTrytes(z1, half)).sum, ShiftTrytes(z2, 2 * half)).sum

(************************** one operation **********************************)
AreDigits(s) == \A i \in DOMAIN s : s[i] < DigitValues

VARIABLES
  task,      \* what was given
  done       \* the operation carried out and its result

vars == <<task, done>>

x == task.args[1]
y == task.args[2]
z == task.args[3]

Given(kind) == task.kind = kind /\ done.op = "none"
Yields(op, value) == done' = [op |-> op, value |-> value] /\ UNCHANGED task

Init ==
  /\ \E kind \in DOMAIN Tasks : \E args \in Tasks[kind] : task = [kind |-> kind, args |-> args]
  /\ done = [op |-> "none", value |-> <<>>]

(* T81Int of one width. *)
IntStep ==
  /\ Given("int")
  /\ \/ Yields("add", Plus(x, y))
     \/ Yields("sub", Minus(x, y))
     \/ Yields("mul", Times(x, y))
     \/ Yields("div_mod", Divided(x, y))
     \/ Yields("gcd", Gcd(x, y))
     \/ Yields("lcm", Lcm(x, y))
     \/ Yields("pow", Power(x, y))
     \/ Yields("less", Below(x, y))
     \/ Yields("to_int64", ToWord(x))
     \/ Yields("narrow", Narrowed(x, 2))
     \/ Yields("big", BigFromTrits(x))

(* A word and a number of trits. *)
WordStep ==
  /\ Given("word")
  /\ \/ Yields("int", FromWord(x, y))
     \/ Yields("big", BigFromWord(x))
     \/ Yields("fixed", FixedFromWord(x, y))

BigStep ==
  /\ Given("big")
  /\ \/ Yields("add", BigAdd(x, y))
     \/ Yields("sub", BigSub(x, y))
     \/ Yields("mul", BigMul(x, y))
     \/ Yields("div_mod", BigDivMod(x, y))
     \/ Yields("gcd", BigGcd(x, y))
     \/ Yields("less", BigLess(x, y))

BigUnaryStep ==
  /\ Given("one_big")
  /\ \/ Yields("sqrt", BigSqrt(x))
     \/ Yields("to_int64", BigToWord(x))
     \/ Yields("to_int", BigToTrits(x, 3))
     \/ Yields("to_float", BigToFloat(x))
     \/ Yields("decimal", ToDecimalText(x))
     \/ Yields("base81", FromBase81Text(ToBase81Text(x)))
     \/ Yields("digits", FromDigitText(BigSign(x), DigitsIn(BigAbs(x), Base81)))
     \/ Yields("base243", decode_bigint(encode_bigint(x)))

ModularStep ==
  /\ Given("modular")
  /\ \/ Yields("pow", BigPow(x, y))
     \/ Yields("pow_mod", BigPowMod(x, y, z))
     \/ Yields("extended_gcd", ExtendedGcd(x, z))
     \/ Yields("modular_inverse", ModularInverse(x, z))
     \/ Yields("modular_inverse_stein", ModularInverseStein(x, z))

FloatStep ==
  /\ Given("float")
  /\ \/ Yields("add", FAdd(x, y))
     \/ Yields("sub", FSub(x, y))
     \/ Yields("mul", FMul(x, y))
     \/ Yields("div", FDiv(x, y))
     \/ Yields("less", FLess(x, y))
     \/ Yields("equal", FEqual(x, y))

FloatOtherStep ==
  /\ Given("some_floats")
  /\ \/ Yields("fma", Fma(x, y, z))
     \/ Yields("clamp", Clamp(x, y, z))
     \/ Yields("floor", FFloor(x))
     \/ Yields("ceil", FCeil(x))
     \/ Yields("round", FRound(x))
     \/ Yields("abs", FAbs(x))
     \/ Yields("big", BigFromFloat(x))

RatioStep ==
  /\ Given("ratio")
  /\ \/ Yields("add", RatioAdd(x, y))
     \/ Yields("sub", RatioSub(x, y))
     \/ Yields("mul", RatioMul(x, y))
     \/ Yields("div", RatioDiv(x, y))
     \/ Yields("neg", RatioNeg(x))
     \/ Yields("less", RatioLess(x, y))
     \/ Yields("serialize", RatioFromText(RatioText(x)))

NarrowStep ==
  /\ Given("narrow")
  /\ \/ Yields("add", NarrowAdd(x, y))
     \/ Yields("sub", NarrowSub(x, y))
     \/ Yields("mul", NarrowMul(x, y))
     \/ Yields("div", NarrowDiv(x, y))

FixedStep ==
  /\ Given("fixed")
  /\ \/ Yields("mul", FixedMul(x, y))
     \/ Yields("div", FixedDiv(x, y))

LimbStep ==
  /\ Given("limb")
  /\ \/ Yields("add48", Addc48(x, y))
     \/ Yields("add54", Addc54(x, y))
     \/ Yields("add27", Addc27(x, y))
     \/ Yields("sub54", Sub54(x, y))
     \/ Yields("mul_wide", MulWide(x, y))
     \/ Yields("booth48", BoothMul48(x, y))
     \/ Yields("reference48", ReferenceMul48(x, y))
     \/ Yields("booth54", BoothMul54(x, y))
     \/ Yields("karatsuba54", Karatsuba54(x, y))

(* Trits, some of which may be none, to be packed. *)
StreamStep ==
  /\ Given("stream")
  /\ \/ Yields("pack_pt5", pack_pt5(x))
     \/ Yields("pack_base81", pack_base81(x))
     \/ AreTrits(x) /\ Yields("pack_vector", Ok(to_unbalanced(pack_vector(x))))
     \/ Yields("packed", PackedFromTrits(x))
     \/ Yields("compute", ComputeFromTrits(x))

(* Bytes or digits, and how many trits they should hold. *)
BytesStep ==
  /\ Given("bytes")
  /\ \/ Yields("unpack_pt5", unpack_pt5(x, y))
     \/ Yields("unpack_base81", unpack_base81(x, y))
     \/ Yields("unpack_vector", unpack_vector(to_balanced(x), y))
     \/ Yields("pt5_to_b81", pt5_to_b81(x, y))
     \/ Yields("b81_to_pt5", b81_to_pt5(x, y))
     \/ Yields("from_packed", PackedFromBytes(x, y))

(* Digits or bytes as they are. *)
RecodeStep ==
  /\ Given("recode")
  /\ \/ Yields("string", string_to_b81_digits(b81_digits_to_string(x)))
     \/ AreDigits(x) /\ Yields("stream", Ok(unpack_stream(pack_stream(x), Len(x))))
     \/ Yields("encode_bytes", decode_bytes(encode_bytes(x)))
     \/ Yields("encode_bytes_be", decode_bytes_be(encode_bytes_be(x)))

TextStep ==
  /\ Given("text")
  /\ \/ Yields("digits", string_to_b81_digits(x))
     \/ Yields("bytes", decode_bytes(x))

(* A text with dots and signs, and an instruction. *)
DottedStep == Given("dotted") /\ Yields("decode", decode_bigint(x))
InsnStep ==
  /\ Given("insn")
  /\ LET word == render_insn(x)
     IN Yields("view", IF IsOk(word) THEN parse_insn(word.value) ELSE word)

(* Two vectors, in each of their forms and on each of the ways; the kernels *)
(* are those of the machine the code is compiled for.                       *)
Builds == {"avx2", "neon", "plain"}
VectorStep ==
  /\ Given("vectors")
  /\ LET v == ComputeFromTrits(x).value
         w == ComputeFromTrits(y).value
     IN \E op \in {"not", "and", "or", "xor"} :
          LET other == IF op = "not" THEN v ELSE w
          IN \/ Yields(op, ViaTrits(op, v, other))
             \/ Yields(op, ViaLut(op, v, other))
             \/ op # "xor" /\ Yields(op, ViaSwar(op, v, other))
             \/ \E build \in Builds : Yields(op, InPlace(op, v, other, build))
             \/ \E build \in Builds : Yields(op, ByValue(op, v, other, build))

PackedVectorStep ==
  /\ Given("packed_vectors")
  /\ LET v == PackedFromTrits(x).value
         w == PackedFromTrits(y).value
     IN \/ \E op \in {"not", "and", "or", "xor"} :
             Yields(op, PackedOp(op, v, IF op = "not" THEN v ELSE w))
        \/ Yields("there", from_pt5(v))
        \/ Yields("back", from_compute(from_pt5(v).value))

Next ==
  \/ IntStep \/ WordStep \/ BigStep \/ BigUnaryStep \/ ModularStep \/ FloatStep
  \/ FloatOtherStep \/ RatioStep \/ NarrowStep \/ FixedStep \/ LimbStep
  \/ StreamStep \/ BytesStep \/ RecodeStep \/ TextStep \/ DottedStep \/ InsnStep
  \/ VectorStep \/ PackedVectorStep

Spec == Init /\ [][Next]_vars

(***************************** properties **********************************)
value == done.value
Op == done.op
Did(kind) == task.kind = kind /\ Op # "none"
Congruent(v, w, n) == (v - w) % 3^n = 0

Divides(d, v) == v % d = 0
CommonDivisors(v, w) == {d \in 1..Larger(Absolute(v), Absolute(w)) : Divides(d, v) /\ Divides(d, w)}
GreatestCommon(v, w) == IF v = 0 /\ w = 0 THEN 0 ELSE Max(CommonDivisors(v, w))

(* b^e for e >= 0, modulo m. *)
PowerModulo(b, e, m) == FoldLeft(LAMBDA p, i : (p * b) % m, 1 % m, [i \in 1..e |-> i])

IntExact ==
  LET n == Len(x)
      v == IntValue(x)
      w == IntValue(y)
      Exactly(r) == IF Absolute(r) <= MaxValue(n) THEN value # Overflowed /\ IntValue(value) = r
                    ELSE value = Overflowed
      UpToWidth(r, enough) ==
        /\ enough => value # Overflowed /\ IntValue(value) = r
        /\ value = Overflowed \/ Congruent(IntValue(value), r, n)
      roomy == Significant(x) + Significant(y) <= n
  IN /\ Op = "add" => Exactly(v + w)
     /\ Op = "sub" => Exactly(v - w)
     /\ Op = "mul" => UpToWidth(v * w, roomy)
     /\ Op = "div_mod" =>
          IF w = 0 THEN value = Overflowed
          ELSE LET q == IntValue(value[1])
                   r == IntValue(value[2])
               IN q * w + r = v /\ Absolute(r) < Absolute(w) /\ (r = 0 \/ (r < 0) = (v < 0))
     /\ Op = "gcd" => Exactly(GreatestCommon(v, w))
     /\ Op = "lcm" =>
          IF v = 0 \/ w = 0 THEN IsZero(value)
          ELSE LET lcm == Absolute(v * w) \div GreatestCommon(v, w)
               IN /\ roomy => value # Overflowed /\ IntValue(value) = lcm
                  /\ \/ value = Overflowed
                     \/ Congruent(IntValue(value), lcm, n) \/ Congruent(IntValue(value), -lcm, n)
     /\ Op = "pow" =>
          IF w \in 0..MaxWord
          THEN UpToWidth(PowerModulo(v, w, 3^n), FALSE)
               /\ (2 * w * Significant(x) <= n => value # Overflowed /\ IntValue(value) = IF w = 0 THEN 1 ELSE v^w)
          ELSE value = Overflowed
     /\ Op = "less" => value = (v < w)
     /\ Op = "to_int64" => value = IF v \in MinWord..MaxWord THEN <<v>> ELSE Overflowed
     /\ Op = "narrow" => IF Absolute(v) <= MaxValue(2) THEN IntValue(value) = v /\ Len(value) = 2
                         ELSE value = Overflowed
     /\ Op = "big" => BigValue(value) = v

WordExact ==
  /\ Op = "int" => IF Absolute(x) <= MaxValue(y) THEN IntValue(value) = x ELSE value = Overflowed
  /\ Op = "big" => BigValue(value) = x
  /\ Op = "fixed" => IF Absolute(x) <= MaxValue(y)
                     THEN Congruent(IntValue(value), x * 3^FractionTrits, y)
                     ELSE value = Overflowed

LimbExact ==
  LET n == Len(x) * TryteTrits
      v == LimbValue(x)
      w == LimbValue(y)
      narrow == \A k \in 1..n : Absolute(ColumnSums(ToTrits(x), ToTrits(y))[k]) <= 4
  IN /\ Op \in {"add48", "add54", "add27"} => LimbValue(value.sum) + value.carry * 3^n = v + w
     /\ Op = "sub54" => Congruent(LimbValue(value), v - w, n)
     /\ Op = "mul_wide" => LimbValue(value[1]) + LimbValue(value[2]) * 3^n = v * w
     /\ Op \in {"booth48", "reference48"} => Congruent(LimbValue(value), v * w, n)
     /\ (Op = "booth54" /\ narrow) => Congruent(LimbValue(value), v * w, n)

(* Numbers of a fixed width.  The operations of T81Int (T81Int.hpp) give    *)
(* the integer they stand for, or throw when it has no room, a product and  *)
(* what is made of products when the trits of the factors fit the width     *)
(* together; a machine word becomes the number it is wherever it has room.  *)
(* The adders of T81Limb.hpp give the sum and the carry although their      *)
(* passes work in place, for the strides of all three classes; the product  *)
(* of T81Limb is exact with all its trytes, and its Booth and its reference *)
(* multiplication agree.  Departures: a product of T81Ints without room may *)
(* throw or keep only its lowest trits; T81Limb54's multiplications are     *)
(* right where no column of the product asks for a carry of more than one,  *)
(* and that of halves (Karatsuba) is not the product.                       *)
FixedWidthExact ==
  /\ Did("int") => IntExact
  /\ Did("word") => WordExact
  /\ Did("limb") => LimbExact

Is(b, v) == BigValue(b) = v
(* The text of such a number begins with the digit "+". *)
LosesDigit(b) == ~b.neg /\ ~BigIsZero(b) /\ Head(DigitsIn(b, Base81)) = PlusDigit
BigExact ==
  LET v == BigValue(x)
      w == BigValue(y)
  IN /\ Op = "add" => Is(value, v + w)
     /\ Op = "sub" => Is(value, v - w)
     /\ Op = "mul" => Is(value, v * w)
     /\ Op = "div_mod" =>
          IF w = 0 THEN value = Failure
          ELSE LET q == BigValue(value[1])
                   r == BigValue(value[2])
               IN q * w + r = v /\ r \in 0..(Absolute(w) - 1)
     /\ Op = "gcd" => Is(value, GreatestCommon(v, w))
     /\ Op = "less" => value = (v < w)

OneBigExact ==
  LET v == BigValue(x)
  IN /\ Op = "sqrt" =>
          IF v < 0 THEN value = Failure
          ELSE LET r == BigValue(value[1]) IN r >= 0 /\ r * r <= v /\ v < (r + 1) * (r + 1)
     /\ Op = "to_int64" => value = IF v \in MinWord..MaxWord THEN <<v>> ELSE Failure
     /\ Op = "to_int" => IF Absolute(v) <= MaxValue(3) THEN IntValue(value) = v ELSE value = Overflowed
     /\ Op = "decimal" =>
          LET digits == IF v < 0 THEN Tail(value) ELSE value
          IN /\ (v < 0) = (Head(value) = MinusSign)
             /\ Numeral(Reverse(digits), Decimal) = Absolute(v)
             /\ Head(digits) = 0 => v = 0
     /\ Op = "base81" => LosesDigit(x) \/ (value # Failure /\ Is(value[1], v))
     /\ Op = "digits" => IF v = 0 THEN value = Failure ELSE Is(value[1], v)
     /\ Op = "base243" => value # Failure /\ Is(value[1], v)

(* Numbers up to this one may fill a limb. *)
Crowded(b) == Len(b.limbs) > 1 \/ Significant(b.limbs[1]) = LimbTrits
InverseExact ==
  LET v == BigValue(x)
      e == BigValue(y)
      m == BigValue(z)
      Inverts == IF m <= 1 \/ GreatestCommon(v, m) # 1 THEN value = Failure
                 ELSE IF value = Failure THEN Crowded(z)
                 ELSE BigValue(value[1]) \in 0..(m - 1) /\ (BigValue(value[1]) * v) % m = 1
  IN /\ Op = "pow" => IF e < 0 THEN value = Failure ELSE Is(value[1], IF e = 0 THEN 1 ELSE v^e)
     /\ Op = "pow_mod" => IF e < 0 \/ m = 0 THEN value = Failure
                          ELSE Is(value[1], PowerModulo(v, e, Absolute(m)))
     /\ Op = "extended_gcd" =>
          LET g == BigValue(value[1])
          IN /\ Absolute(g) = GreatestCommon(v, m)
             /\ g = BigValue(value[2]) * v + BigValue(value[3]) * m
     /\ Op = "modular_inverse" => Inverts
     /\ Op = "modular_inverse_stein" => Inverts

(* operator+ leaves the sign of such a sum in its limb. *)
KeepsSign(b, c) ==
  LET sum == Plus(SignedLimb(b), SignedLimb(c))
  IN /\ Single(b, c) /\ ~BigIsZero(b) /\ ~BigIsZero(c)
     /\ Larger(Significant(b.limbs[1]), Significant(c.limbs[1])) = LimbTrits
     /\ SignTrit(sum) = -1
BigResults ==
  CASE Did("big") /\ Op \in {"add", "sub", "mul", "gcd"} -> {value}
    [] Did("big") /\ Op = "div_mod" -> Range(value)
    [] Did("one_big") /\ Op \in {"sqrt", "base81", "digits", "base243"} -> Range(value)
    [] Did("modular") /\ Op # "extended_gcd" -> Range(value)
    [] Did("some_floats") /\ Op = "big" -> Range(value)
    [] OTHER -> {}

(* Every T81BigInt that comes out satisfies verify_invariants               *)
(* (T81BigInt.hpp 148-172).  Departure: operator+ (1018-1028) keeps a       *)
(* negative sum of two single limbs, one of which uses all its trits, with  *)
(* its sign in the limb.                                                    *)
BigsWellFormed ==
  \/ \A b \in BigResults : WellFormed(b)
  \/ Op = "add" /\ KeepsSign(x, y)
  \/ Op = "sub" /\ KeepsSign(x, BigNeg(y))

(* The value of a finite float, in the smallest unit. *)
FValue(f) == f.sign * IntValue(f.mant) * 3^(f.exp + Bias)
FUnit(f) == 3^(f.exp + Bias)
OneIn == 3^(M - 1 + Bias)
SpecialAmong(fs) == \E f \in fs : ~Finite(f)

(* The float is the nearest one to num / den of the smallest unit, within   *)
(* halves halves of its own; infinite only beyond the largest.              *)
Nears(f, num, den, halves) ==
  IF IsFInf(f)
  THEN (num > 0) = (f.sign = 1) /\ 2 * Absolute(num) >= den * 3^M * 3^(2 * Bias - 1)
  ELSE 2 * Absolute(FValue(f) * den - num) <= halves * FUnit(f) * den

FloatNear ==
  /\ (Did("float") /\ Op \in {"add", "sub", "mul", "div"} /\ ~SpecialAmong({x, y})) =>
       LET v == FValue(x)
           w == FValue(y)
       IN /\ Op = "add" => Nears(value, v + w, 1, 1)
          /\ Op = "sub" => Nears(value, v - w, 1, 1)
          /\ Op = "mul" => Nears(value, v * w, OneIn, 1)
          /\ Op = "div" => IF w = 0 THEN ~Finite(value) /\ (IsNaE(value) = (v = 0))
                           ELSE Nears(value, (IF w < 0 THEN -v ELSE v) * OneIn, Absolute(w), 3)
  /\ (Did("some_floats") /\ Finite(x)) =>
       LET v == FValue(x)
       IN /\ Op = "floor" => Nears(value, OneIn * (v \div OneIn), 1, 3)
          /\ Op = "ceil" => Nears(value, -(OneIn * ((-v) \div OneIn)), 1, 3)
          /\ Op = "round" => Nears(value, v, 1, OneIn + 3 * FUnit(value))
          /\ Op = "big" => 2 * Absolute(BigValue(value[1]) * OneIn - v) <= OneIn
  /\ (Did("one_big") /\ Op = "to_float") => Nears(value, BigValue(x) * OneIn, 1, 1)

Place(f) == IF IsFInf(f) THEN f.sign * 3^(2 * Bias + M) ELSE FValue(f)
Misplaced(f, g) == f.sign = g.sign /\ (IsFZero(f) # IsFZero(g)) /\ (f.exp < 0 \/ g.exp < 0)
FloatOrdered ==
  /\ (Did("float") /\ Op = "less") =>
       IF IsNaE(x) \/ IsNaE(y) THEN ~value
       ELSE Misplaced(x, y) \/ value = (Place(x) < Place(y))
  /\ (Did("float") /\ Op = "equal") =>
       value = (~IsNaE(x) /\ ~IsNaE(y) /\ Place(x) = Place(y))
  /\ (Did("some_floats") /\ Op = "clamp" /\ ~FLess(z, y) /\ ~IsNaE(x) /\ ~IsNaE(y) /\ ~IsNaE(z)) =>
       ~FLess(value, y) /\ ~FLess(z, value)

(* Sums and products of T81Float are the nearest floats, since dropping     *)
(* trits rounds, and its order is the order of the numbers.  Departures:    *)
(* division, floor, ceil and round go through from_double, which may leave  *)
(* the highest trit of the mantissa unused, so that up to three halves of a *)
(* unit are lost; operator<=> compares exponents first, and the exponent of *)
(* zero is that of one, so that zero is above the positive numbers below    *)
(* one third.                                                               *)
FloatsExact == FloatNear /\ FloatOrdered

InLowest(num, den, f) == f[2] > 0 /\ GreatestCommon(f[1], f[2]) = 1 /\ f[1] * den = num * f[2]
Crossed(f, g) ==
  CASE Op = "add" -> <<f[1] * g[2] + g[1] * f[2], f[2] * g[2]>>
    [] Op = "sub" -> <<f[1] * g[2] - g[1] * f[2], f[2] * g[2]>>
    [] Op = "mul" -> <<f[1] * g[1], f[2] * g[2]>>
    [] Op = "div" -> <<f[1] * g[2], f[2] * g[1]>>
    [] OTHER -> <<-f[1], f[2]>>
(* Fractions keep their value and lowest terms with a positive denominator, *)
(* in T81Ints when no product leaves the width, in T81BigInts always; fixed *)
(* point is exact up to the last trit when the operands leave room.         *)
(* Departures: a sum of T81BigInts that KeepsSign cannot be brought to      *)
(* lowest terms, a text loses a leading "+", a fraction of T81Ints divided  *)
(* by zero is zero, and what has no room may throw or be wrong.             *)
RatiosExact ==
  LET Bigs(f) == [i \in 1..2 |-> BigValue(f[i])]
      Ints(f) == [i \in 1..2 |-> IntValue(f[i])]
  IN /\ Did("ratio") =>
          LET f == Bigs(x)
              g == Bigs(y)
              exact == Crossed(f, g)
              left == BigMul(x[1], y[2])
              right == BigMul(y[1], x[2])
              KeepsTogether == \/ Op = "add" /\ KeepsSign(left, right)
                               \/ Op = "sub" /\ KeepsSign(left, BigNeg(right))
          IN /\ Op \in {"add", "sub", "mul", "div", "neg"} =>
                  IF exact[2] = 0 \/ KeepsTogether THEN value = Failure
                  ELSE InLowest(exact[1], exact[2], Bigs(value))
             /\ Op = "less" => value = (f[1] * g[2] < g[1] * f[2])
             /\ Op = "serialize" =>
                  (\E i \in 1..2 : LosesDigit(x[i])) \/ (value # Failure /\ Bigs(value) = f)
     /\ (Did("narrow") /\ \A i, j \in 1..2 : Significant(x[i]) + Significant(y[j]) < Len(x[1])) =>
          LET exact == Crossed(Ints(x), Ints(y))
          IN IF exact[2] = 0 THEN Ints(value) = <<0, 1>>
             ELSE InLowest(exact[1], exact[2], Ints(value))
     /\ Did("fixed") =>
          LET v == IntValue(x)
              w == IntValue(y)
              scale == 3^FractionTrits
          IN /\ (Op = "mul" /\ Significant(x) + Significant(y) <= Len(x)) =>
                  2 * Absolute(scale * IntValue(value) - v * w) < scale
             /\ (Op = "div" /\ Significant(x) + FractionTrits <= Len(x)) =>
                  IF w = 0 THEN value = Overflowed
                  ELSE LET quotient == Absolute(v * scale) \div Absolute(w)
                       IN IntValue(value) = IF (v < 0) = (w < 0) THEN quotient ELSE -quotient

(* The operations of T81BigInt give the integers they stand for, division   *)
(* the Euclidean quotient and rest, the square root its integer part; the   *)
(* limbs, the chunks, Karatsuba's and Knuth's algorithms do not show.       *)
(* Powers and inverses modulo a number, and Bezout's coefficients, are what *)
(* they are said to be; the two algorithms for the inverse, Euclid's and    *)
(* the one that divides by 3 (T81BigInt.hpp 1344-1456), agree; an inverse   *)
(* is denied exactly when there is none.  Departures: a text that begins    *)
(* with the digit "+" is read without it; with a modulus that fills a limb  *)
(* or needs several the computation may come to a number that KeepsSign,    *)
(* and throw although there is an inverse.  What comes out is well formed;  *)
(* and pairs of them are the fractions they stand for (RatiosExact).        *)
BigsExact ==
  /\ Did("big") => BigExact
  /\ Did("one_big") => OneBigExact
  /\ Did("modular") => InverseExact
  /\ BigsWellFormed
  /\ RatiosExact

(***************************** codecs **************************************)
Holds(v) == value = Ok(v)
Fails(e) == value = Err(e)

(* As many digits as the trits need, and each trit in its place.            *)
Holding(digits, trits, width) ==
  /\ Len(digits) = Groups(Len(trits), width)
  /\ \A i \in DOMAIN trits :
       (digits[((i - 1) \div width) + 1] \div 3^((i - 1) % width)) % 3 = trits[i] + 1
StreamExact ==
  IF ~AreTrits(x) THEN value.error \in {"INVALID_TRIT", "InvalidTritValue"}
  ELSE /\ Op = "pack_pt5" => Holding(value.value, x, Pt5Trits)
       /\ Op \in {"pack_base81", "pack_vector"} => Holding(value.value, x, B81Trits)
       /\ Op = "packed" => PackedToTrits(value.value) = Ok(x)
       /\ Op = "compute" => ComputeToTrits(value.value) = Ok(x)

(* A conversion has one digit after the other in its hands, and does not    *)
(* look at those that hold no trit that is asked for.                       *)
BytesExact ==
  LET Needed(width) == SubSeq(x, 1, Min({Len(x), Groups(y, width)}))
      Within(digits, width) == \A i \in DOMAIN digits : digits[i] < 3^width
      Unpacks(digits, width, short, fault, Right(_)) ==
        IF Len(x) < Groups(y, width) THEN Fails(short)
        ELSE IF ~Within(digits, width) THEN Fails(fault)
        ELSE IsOk(value) /\ Right(value.value)
      Trits(v, width) ==
        /\ Len(v) = y
        /\ \A k \in 1..Groups(y, width) :
             LET n == Min({width, y - (k - 1) * width})
             IN Digit(SubSeq(v, (k - 1) * width + 1, (k - 1) * width + n)) = x[k] % 3^n
  IN /\ Op = "unpack_pt5" =>
          Unpacks(x, Pt5Trits, "InsufficientData", "InvalidPT5Byte", LAMBDA v : Trits(v, Pt5Trits))
     /\ Op = "unpack_base81" =>
          Unpacks(x, B81Trits, "InsufficientData", "InvalidBase81Digit", LAMBDA v : Trits(v, B81Trits))
     /\ Op = "unpack_vector" =>
          Unpacks(Needed(B81Trits), B81Trits, "INSUFFICIENT_DATA", "INVALID_DIGIT",
                  LAMBDA v : Trits(v, B81Trits))
     /\ Op = "from_packed" =>
          Unpacks(x, Pt5Trits, "InsufficientData", "InvalidPT5Byte", LAMBDA v : v = PackedVector(x, y))
     /\ Op = "pt5_to_b81" =>
          Unpacks(Needed(Pt5Trits), Pt5Trits, "InsufficientData", "InvalidPT5Byte",
                  LAMBDA v : v = pack_base81(unpack_pt5(Needed(Pt5Trits), y).value).value)
     /\ Op = "b81_to_pt5" =>
          Unpacks(Needed(B81Trits), B81Trits, "InsufficientData", "InvalidBase81Digit",
                  LAMBDA v : v = pack_pt5(unpack_base81(Needed(B81Trits), y).value).value)

RecodeExact ==
  /\ Op = "string" => IF AreDigits(x) THEN Holds(x) ELSE Fails("InvalidBase81Digit")
  /\ Op = "stream" => Holds(x)
  /\ Op \in {"encode_bytes", "encode_bytes_be"} =>
       Holds(IF x = <<>> THEN <<>> ELSE SubSeq(x, Min({i \in DOMAIN x : x[i] # 0} \cup {Len(x)}), Len(x)))
TextExact ==
  /\ (Op = "digits" /\ IsOk(value)) => b81_digits_to_string(value.value) = x
  /\ (Op = "bytes" /\ IsOk(value)) => encode_bytes(value.value) = x

(* A sign, and numbers below the base with a dot between two of them.       *)
DottedExact ==
  LET start == IF Head(x) \in {MinusSign, PlusSign} THEN 2 ELSE 1
      dots == {i \in start..Len(x) : x[i] = Dot} \cup {start - 1, Len(x) + 1}
      Piece(i) == SubSeq(x, i + 1, Min({j \in dots : j > i}) - 1)
      pieces == {Piece(i) : i \in dots \ {Len(x) + 1}}
  IN (value # Failure) =
       (start <= Len(x) /\ \A piece \in pieces :
          /\ piece # <<>> /\ Range(piece) \subseteq 0..(Decimal - 1)
          /\ Numeral(Reverse(piece), Decimal) < Base243)
InsnExact ==
  LET Fits(v) == Absolute(v) <= MaxValue(OperandTrits)
      cut == [k \in 1..3 |-> Operand32(x.operands[k])]
  IN IF \A v \in Range(cut) : Fits(v)
     THEN IsOk(value) /\ value.value.opcode = x.opcode
            /\ \A k \in 1..3 : IF Fits(x.operands[k]) THEN value.value.operands[k] = x.operands[k]
                               ELSE (value.value.operands[k] - x.operands[k]) % 2^OperandBits = 0
     ELSE Fails("overflow_error")

(* What an operation on two vectors gives, trit by trit.                    *)
Is3(op, t, a, b) ==
  CASE op = "not" -> t = -a
    [] op = "and" -> t \in {a, b} /\ t <= a /\ t <= b
    [] op = "or" -> t \in {a, b} /\ t >= a /\ t >= b
    [] op = "xor" -> (t - (a - b)) % 3 = 0
TritByTrit(result, Trits(_), FromTrits(_)) ==
  LET trits == Trits(result.value).value
  IN IF Op # "not" /\ Len(x) # Len(y) THEN result = Mismatch
     ELSE /\ IsOk(result) /\ Len(trits) = Len(x)
          /\ \A i \in DOMAIN trits : trits[i] \in -1..1 /\ Is3(Op, trits[i], x[i], IF Op = "not" THEN 0 ELSE y[i])
          /\ result = FromTrits(trits)
VectorExact == TritByTrit(value, ComputeToTrits, ComputeFromTrits)
PackedVectorExact ==
  /\ Op \notin {"there", "back"} => TritByTrit(value, PackedToTrits, PackedFromTrits)
  /\ Op = "there" => value = ComputeFromTrits(x)
  /\ Op = "back" => value = PackedFromTrits(x)

(* Packing and unpacking, writing and reading are inverse, and what is no   *)
(* packing, no digit or no character is refused; the conversions between    *)
(* bytes of 5 trits and digits of 4, which keep up to 8 trits in a buffer   *)
(* (trit_packing.cpp 177-267), give what unpacking and packing gives.  An   *)
(* operation on vectors gives the same bytes, trit by trit and with clear   *)
(* padding, on every way: through trits, tables, words, or the kernel for   *)
(* the length and the machine, of which tests run the one they are compiled *)
(* for (packed_trit_vector.hpp 254-1040).  Departures: a conversion and     *)
(* unpack_vector accept what unpack_pt5 and unpack_base81 refuse, where the *)
(* byte holds no trit that is asked for; leading zero bytes are lost        *)
(* although base81.hpp:13 says invertible; an instruction whose operand     *)
(* needs more than 20 trits throws, and an immediate of more than 32 bits   *)
(* is cut (base81_view.cpp 15-24).                                          *)
CodecsExact ==
  /\ Did("stream") => StreamExact
  /\ Did("bytes") => BytesExact
  /\ Did("recode") => RecodeExact
  /\ Did("text") => TextExact
  /\ Did("dotted") => DottedExact
  /\ Did("insn") => InsnExact
  /\ Did("vectors") => VectorExact
  /\ Did("packed_vectors") => PackedVectorExact
=============================================================================
