------------------------------ MODULE BigInts -------------------------------
(***************************************************************************)
(* Integers of any size, T81BigInt (include/t81/types/T81BigInt.hpp): a     *)
(* sign and a magnitude in limbs, each a T81Int, the lowest first.  The     *)
(* arithmetic splits limbs into chunks, numbers of ChunkTrits trits; a      *)
(* chunk is balanced, between -HalfBase and HalfBase, but for division,     *)
(* which takes chunks between 0 and Base - 1.  What throws yields Failure.  *)
(* In a build without assertions an ill-formed result is returned.          *)
(*                                                                         *)
(* Then the fractions: of T81BigInts, which the virtual machine keeps in    *)
(* its pool (include/t81/fraction.hpp), of T81Ints of one width             *)
(* (include/t81/types/T81Fraction.hpp), and fixed-point numbers             *)
(* (include/t81/types/T81Fixed.hpp).                                        *)
(***************************************************************************)
EXTENDS TritInts

CONSTANTS
  ChunkTrits,      \* trits of a chunk (27)
  ChunksPerLimb,   \* chunks of a limb (3)
  Schoolbook,      \* the number of chunks from which Karatsuba is used (32)
  Decimal,         \* the base of to_decimal_string (10)
  Base81,          \* the base of the texts with one character a digit (81)
  PlusDigit,       \* the digit that is written "+" (62)
  FractionTrits    \* trits of a fixed-point number after the point (9)

ASSUME ChunkAssumption ==
  /\ {ChunkTrits, ChunksPerLimb, Schoolbook, Decimal, Base81, FractionTrits} \subseteq Nat \ {0}
  /\ PlusDigit \in 1..(Base81 - 1)
  /\ Base81 <= MaxWord

Base == 3^ChunkTrits
HalfBase == (Base - 1) \div 2
LimbTrits == ChunkTrits * ChunksPerLimb
Failure == <<>>

Big(neg, limbs) == [neg |-> neg, limbs |-> limbs]
Magnitude(b) == Numeral([i \in DOMAIN b.limbs |-> IntValue(b.limbs[i])], 3^LimbTrits)
BigValue(b) == IF b.neg THEN -Magnitude(b) ELSE Magnitude(b)

(* What verify_invariants demands in builds with assertions.                *)
WellFormed(b) ==
  /\ b.limbs # <<>>
  /\ Len(b.limbs) > 1 => ~IsZero(Last(b.limbs))
  /\ b.limbs = <<Zeros(LimbTrits)>> => ~b.neg
  /\ SignTrit(Last(b.limbs)) # -1

(* s without the zeros at its end, but with at least one item. *)
RECURSIVE Trimmed(_, _)
Trimmed(s, zero) == IF Len(s) > 1 /\ Last(s) = zero THEN Trimmed(Front(s), zero) ELSE s

Normalized(neg, limbs) ==
  LET trimmed == Trimmed(limbs, Zeros(LimbTrits))
  IN Big(neg /\ trimmed # <<Zeros(LimbTrits)>>, trimmed)

BigFromWord(v) == Normalized(v < 0, <<FromWord(Absolute(v), LimbTrits)>>)
BigZero == Big(FALSE, <<Zeros(LimbTrits)>>)
BigOne == Big(FALSE, <<One(LimbTrits)>>)

BigIsZero(b) == b.limbs = <<Zeros(LimbTrits)>> /\ ~b.neg
BigIsNegative(b) == b.neg /\ ~BigIsZero(b)
BigAbs(b) == [b EXCEPT !.neg = FALSE]
BigNeg(b) == IF BigIsZero(b) THEN b ELSE [b EXCEPT !.neg = ~b.neg]

MagnitudeBelow(p, q) ==
  \/ Len(p) < Len(q)
  \/ Len(p) = Len(q) /\ \E i \in DOMAIN p : Below(p[i], q[i]) /\ \A j \in DOMAIN p : j > i => p[j] = q[j]

BigEqual(a, b) == (BigIsZero(a) /\ BigIsZero(b)) \/ a = b

BigLess(a, b) ==
  IF a.neg # b.neg THEN a.neg
  ELSE IF BigIsZero(a) THEN ~BigIsZero(b) /\ ~b.neg
  ELSE IF BigIsZero(b) THEN a.neg
  ELSE IF a.neg THEN MagnitudeBelow(b.limbs, a.limbs)
  ELSE MagnitudeBelow(a.limbs, b.limbs)

BigSign(b) == IF b.neg THEN -1 ELSE 1

(************************** chunks *****************************************)
ToChunks(b) ==
  FlattenSeq([l \in DOMAIN b.limbs |->
    [c \in 1..ChunksPerLimb |->
      BigSign(b) * Numeral(SubSeq(b.limbs[l], (c - 1) * ChunkTrits + 1, c * ChunkTrits), 3)]])

ChunkTrit(v, i) == (((v + HalfBase) \div 3^(i - 1)) % 3) - 1
PackedLimb(chunks, l) ==
  [t \in 1..LimbTrits |->
    LET c == (l - 1) * ChunksPerLimb + (t - 1) \div ChunkTrits + 1
    IN IF c <= Len(chunks) THEN ChunkTrit(chunks[c], ((t - 1) % ChunkTrits) + 1) ELSE 0]

(* A carry that leaves the last chunk makes new ones. *)
RECURSIVE Extended(_)
Extended(r) ==
  IF r.carry = 0 THEN r.digits
  ELSE Extended(Kept(r.digits, r.carry, FullCarry(r.carry, Base), Base))
Settled(chunks, rule) == Extended(Ripple(chunks, rule, Base))

Packed(neg, chunks) ==
  Normalized(neg, [l \in 1..((Len(chunks) + ChunksPerLimb - 1) \div ChunksPerLimb) |-> PackedLimb(chunks, l)])
WithSign(settled) ==
  IF SignTrit(settled) < 0 THEN Packed(TRUE, Ripple(Negated(settled), "unit", Base).digits)
  ELSE Packed(FALSE, settled)

FromChunks(chunks) == WithSign(Settled(chunks, "unit"))

(* to_std_chunks: each negative chunk borrows from the next; when there is  *)
(* nothing left to borrow from, the number was negative.                    *)
Whole(r) == IF r.carry > 0 THEN Append(r.digits, r.carry) ELSE r.digits
NotNegative(r) == IF r.carry < 0 THEN Failure ELSE Trimmed(Whole(r), 0)
StdChunks(chunks) == NotNegative(Ripple(chunks, "floor", Base))

(************************** division ***************************************)
ShortDivision(u, divisor) ==
  LET Done[i \in 1..(Len(u) + 1)] ==
        IF i > Len(u) THEN [q |-> <<>>, rem |-> 0]
        ELSE LET above == Done[i + 1]
                 cur == above.rem * Base + u[i]
             IN [q |-> <<cur \div divisor>> \o above.q, rem |-> cur % divisor]
  IN Done[1]

Scaled(u, factor) == Whole(Ripple([i \in DOMAIN u |-> u[i] * factor], "floor", Base))

(* The estimate of a digit is lowered while the next chunk of the divisor   *)
(* shows that it is too large; one stops when the rest reaches the base.    *)
RECURSIVE Corrected(_, _, _, _)
Corrected(qhat, rhat, v, next) ==
  IF qhat = Base \/ qhat * v[Len(v) - 1] > rhat * Base + next
  THEN IF rhat + Last(v) >= Base THEN qhat - 1 ELSE Corrected(qhat - 1, rhat + Last(v), v, next)
  ELSE qhat

(* One digit of Knuth's algorithm D, at place j: estimate, subtract and, if *)
(* that went below zero, add the divisor back.                              *)
DivisionStepNoBack(st, v, j) ==  \* mutant: the divisor is not added back
  LET n == Len(v)
      num == st.u[j + n + 1] * Base + st.u[j + n]
      qhat == num \div Last(v)
      less == Ripple([i \in 1..n |-> st.u[j + i] - qhat * v[i]], "floor", Base)
      window == Append(less.digits, st.u[j + n + 1] + less.carry)
  IN [u |-> [k \in DOMAIN st.u |-> IF k \in (j + 1)..(j + n + 1) THEN window[k - j] ELSE st.u[k]],
      q |-> <<qhat>> \o st.q]

DivisionStep(st, v, j) ==
  LET n == Len(v)
      num == st.u[j + n + 1] * Base + st.u[j + n]
      qhat == Corrected(num \div Last(v), num % Last(v), v, st.u[j + n - 1])
      less == Ripple([i \in 1..n |-> st.u[j + i] - qhat * v[i]], "floor", Base)
      top == st.u[j + n + 1] + less.carry
      back == Ripple([i \in 1..n |-> less.digits[i] + v[i]], "floor", Base)
      window == IF top < 0 THEN Append(back.digits, top + back.carry) ELSE Append(less.digits, top)
  IN [u |-> [k \in DOMAIN st.u |-> IF k \in (j + 1)..(j + n + 1) THEN window[k - j] ELSE st.u[k]],
      q |-> <<IF top < 0 THEN qhat - 1 ELSE qhat>> \o st.q]

ScaledDivision(dividend, divisor, factor) ==
  LET m == Len(dividend) - Len(divisor)
      Done[j \in 0..(m + 1)] == IF j > m THEN [u |-> Append(dividend, 0), q |-> <<>>]
                                ELSE DivisionStep(Done[j + 1], divisor, j)
      done == Done[0]
  IN <<Trimmed(done.q, 0),
       Trimmed(ShortDivision(SubSeq(done.u, 1, Len(divisor)), factor).q, 0)>>
LongDivision(u, v) ==
  LET factor == Base \div (Last(v) + 1)
  IN ScaledDivision(Scaled(u, factor), Scaled(v, factor), factor)

DivModStd(u, v) ==
  IF Len(v) = 1
  THEN LET short == ShortDivision(u, v[1]) IN <<Trimmed(short.q, 0), <<short.rem>>>>
  ELSE IF Len(u) < Len(v) THEN <<<<0>>, u>>
  ELSE LongDivision(u, v)

(************************** sums *******************************************)
SignedLimb(b) == IF b.neg THEN Negated(b.limbs[1]) ELSE b.limbs[1]
Single(a, b) == Len(a.limbs) = 1 /\ Len(b.limbs) = 1
At(chunks, i) == IF i <= Len(chunks) THEN chunks[i] ELSE 0

ChunkSum(a, b) ==
  LET p == ToChunks(a)
      q == ToChunks(b)
  IN FromChunks([i \in 1..(Larger(Len(p), Len(q)) + 1) |-> At(p, i) + At(q, i)])

(* Two single limbs are added as T81Ints.  When one of them uses all its    *)
(* trits the sum is kept as it is, with its own sign, as the magnitude.     *)
SingleSum(a, b, sum) ==
  IF Larger(Significant(a.limbs[1]), Significant(b.limbs[1])) < LimbTrits
  THEN Normalized(SignTrit(sum) = -1, <<AbsoluteTrits(sum)>>)
  ELSE IF sum # Overflowed THEN Normalized(FALSE, <<sum>>)
  ELSE ChunkSum(a, b)
BigAdd(a, b) ==
  IF BigIsZero(a) THEN b
  ELSE IF BigIsZero(b) THEN a
  ELSE IF ~Single(a, b) THEN ChunkSum(a, b)
  ELSE SingleSum(a, b, Plus(SignedLimb(a), SignedLimb(b)))

Flipped(b) == [b EXCEPT !.neg = ~b.neg]
BigSub(a, b) ==
  IF BigIsZero(b) THEN a
  ELSE IF BigIsZero(a) THEN Flipped(b)
  ELSE BigAdd(a, Flipped(b))

(************************** products ***************************************)
SchoolbookProduct(p, q) ==
  [k \in 1..(Len(p) + Len(q)) |->
    MapThenSumSet(LAMBDA i : p[i] * At(q, k + 1 - i),
                  {i \in DOMAIN p : k + 1 - i >= 1})]

ChunkwiseSum(p, q) == [i \in 1..Larger(Len(p), Len(q)) |-> At(p, i) + At(q, i)]
ChunkwiseLess(p, q) == [i \in 1..Larger(Len(p), Len(q)) |-> At(p, i) - At(q, i)]

RECURSIVE KaratsubaMul(_, _)
KaratsubaMul(p, q) ==
  LET n == Larger(Len(p), Len(q))
      k == n \div 2
      Low(s) == SubSeq(s, 1, IF Len(s) <= k THEN Len(s) ELSE k)
      High(s) == SubSeq(s, k + 1, Len(s))
      z0 == KaratsubaMul(Low(p), Low(q))
      z2 == KaratsubaMul(High(p), High(q))
      z1 == KaratsubaMul(Settled(ChunkwiseSum(Low(p), High(p)), "full"),
                         Settled(ChunkwiseSum(Low(q), High(q)), "full"))
      middle == ChunkwiseLess(ChunkwiseLess(z1, z0), z2)
  IN IF n <= Schoolbook THEN SchoolbookProduct(p, q)
     ELSE ChunkwiseSum(z0, ChunkwiseSum(Zeros(k) \o middle, Zeros(2 * k) \o z2))

BigMul(a, b) ==
  LET trits == Significant(a.limbs[1]) + Significant(b.limbs[1])
      product == Times(a.limbs[1], b.limbs[1])
  IN IF BigIsZero(a) \/ BigIsZero(b) THEN BigZero
     ELSE IF /\ Single(a, b)
             /\ trits <= LimbTrits \/ (trits = LimbTrits + 1 /\ product # Overflowed)
          THEN Normalized(a.neg # b.neg, <<product>>)
     ELSE FromChunks(Settled(KaratsubaMul(ToChunks(a), ToChunks(b)), "full"))

(************************** division ***************************************)
(* Euclidean: the rest is between 0 and the magnitude of the divisor; q and *)
(* r, u and v are of the magnitudes.                                        *)
NegatedIf(yes, b) == IF yes THEN BigNeg(b) ELSE b
Euclidean(a, b, q, r) ==
  IF BigIsNegative(a) /\ ~BigIsZero(r)
  THEN <<NegatedIf(~BigIsNegative(b), BigAdd(q, BigOne)), BigSub(BigAbs(b), r)>>
  ELSE <<NegatedIf(BigIsNegative(a) # BigIsNegative(b), q), r>>
FromStd(a, b, qr) == Euclidean(a, b, FromChunks(qr[1]), FromChunks(qr[2]))
OfChunks(a, b, u, v) == IF Failure \in {u, v} THEN Failure ELSE FromStd(a, b, DivModStd(u, v))
BigDivMod(a, b) ==
  IF BigIsZero(b) THEN Failure
  ELSE IF BigIsZero(a) THEN <<BigZero, BigZero>>
  ELSE OfChunks(a, b, StdChunks(ToChunks(BigAbs(a))), StdChunks(ToChunks(BigAbs(b))))

Quot(a, b) == BigDivMod(a, b)[1]
Rest(a, b) == BigDivMod(a, b)[2]

RECURSIVE BigEuclid(_, _)
BigEuclid(a, b) == IF BigIsZero(b) THEN a ELSE BigEuclid(b, Rest(a, b))
BigGcd(a, b) == BigEuclid(BigAbs(a), BigAbs(b))

(* Square and multiply, with the operation that reduces a product. *)
RECURSIVE SquareMultiply(_, _, _, _)
ProductModulo(a, b, mod) == IF mod = Failure THEN BigMul(a, b) ELSE Rest(BigMul(a, b), mod[1])
SquareStep(result, b, half, mod) ==
  SquareMultiply(IF BigIsZero(half[2]) THEN result ELSE ProductModulo(result, b, mod),
                 ProductModulo(b, b, mod), half[1], mod)
SquareMultiply(result, b, e, mod) ==
  IF BigIsZero(e) THEN result ELSE SquareStep(result, b, BigDivMod(e, BigFromWord(2)), mod)

BigPow(b, e) ==
  IF BigIsNegative(e) THEN Failure
  ELSE IF BigIsZero(e) THEN <<BigOne>>
  ELSE IF BigIsZero(b) THEN <<BigZero>>
  ELSE <<SquareMultiply(BigOne, b, e, Failure)>>

BigPowMod(b, e, mod) ==
  IF BigIsZero(mod) \/ BigIsNegative(e) THEN Failure
  ELSE <<SquareMultiply(Rest(BigOne, mod), Rest(b, mod), e, <<mod>>)>>

(* Newton's iteration from above, until it no longer falls. *)
RECURSIVE Newton(_, _, _)
Newton(a, b, x) ==
  IF BigLess(b, a) THEN Newton(b, Quot(BigAdd(b, Quot(x, b)), BigFromWord(2)), x) ELSE a
BigSqrt(x) ==
  IF BigIsNegative(x) THEN Failure
  ELSE IF BigIsZero(x) THEN <<BigZero>>
  ELSE <<Newton(x, Quot(BigAdd(x, BigOne), BigFromWord(2)), x)>>

(************************** inverses ***************************************)
(* p and q are triples <<r, s, t>> with r = s * a + t * b. *)
RECURSIVE Bezout(_, _)
BezoutStep(p, q, qr) ==
  LET Next3(i) == BigSub(p[i], BigMul(qr[1], q[i]))
  IN Bezout(q, <<qr[2], Next3(2), Next3(3)>>)
Bezout(p, q) == IF BigIsZero(q[1]) THEN p ELSE BezoutStep(p, q, BigDivMod(p[1], q[1]))
ExtendedGcd(a, b) == Bezout(<<a, BigOne, BigZero>>, <<b, BigZero, BigOne>>)

Wrapped(qr, m) ==
  IF qr = Failure THEN Failure
  ELSE IF BigIsNegative(qr[2]) THEN <<BigAdd(qr[2], m)>> ELSE <<qr[2]>>
InRange(x, m) == Wrapped(BigDivMod(x, m), m)

InverseFrom(g, m) == IF BigEqual(BigAbs(g[1]), BigOne) THEN InRange(g[2], m) ELSE Failure
ModularInverse(a, m) ==
  IF ~BigLess(BigOne, m) THEN Failure ELSE InverseFrom(ExtendedGcd(a, m), m)

LowestTritMagnitude(b) == IF BigIsZero(b) THEN 0 ELSE b.limbs[1][1]
LowestTrit(b) == BigSign(b) * LowestTritMagnitude(b)

(* All the trits move down by one, across the limbs. *)
Div3(b) ==
  LET all == Append(FlattenSeq(b.limbs), 0)
  IN Normalized(b.neg, [l \in DOMAIN b.limbs |->
                          [t \in 1..LimbTrits |-> all[(l - 1) * LimbTrits + t + 1]]])

(* A multiple of 3 is reached by adding or taking away the modulus. *)
Div3Mod(x, m) ==
  LET t == LowestTrit(x)
      mt == LowestTritMagnitude(m)
  IN Div3(IF t = 0 THEN x ELSE IF t = mt THEN BigSub(x, m) ELSE BigAdd(x, m))

RECURSIVE WithoutThrees(_, _, _)
WithoutThrees(u, x, m) ==
  IF LowestTritMagnitude(u) # 0 THEN <<u, x>> ELSE WithoutThrees(Div3(u), Div3Mod(x, m), m)

RECURSIVE Stein(_, _, _)
Joined(y, z) ==
  LET same == LowestTritMagnitude(y[1]) = LowestTritMagnitude(z[1])
  IN [i \in 1..2 |-> IF same THEN BigSub(y[i], z[i]) ELSE BigAdd(y[i], z[i])]
SteinStep(u, v, m) == IF BigLess(u[1], v[1]) THEN Stein(u, Joined(v, u), m) ELSE Stein(Joined(u, v), v, m)
Stein(p, q, m) ==
  IF BigIsZero(p[1]) THEN q
  ELSE IF BigIsZero(q[1]) THEN p
  ELSE SteinStep(WithoutThrees(p[1], p[2], m), WithoutThrees(q[1], q[2], m), m)

ModularInverseStein(a, m) ==
  LET g == Stein(<<BigAbs(a), BigOne>>, <<BigAbs(m), BigZero>>, BigAbs(m))
  IN IF ~BigLess(BigOne, m) THEN Failure
     ELSE IF LowestTritMagnitude(BigAbs(m)) = 0 THEN ModularInverse(a, m)
     ELSE IF ~BigEqual(g[1], BigOne) THEN Failure
     ELSE InRange(IF BigIsNegative(a) THEN BigNeg(g[2]) ELSE g[2], BigAbs(m))

(************************** conversions ************************************)
BigToWord(b) ==
  LET word == ToWord(b.limbs[1])
  IN IF Len(b.limbs) > 1 THEN Failure
     ELSE IF word # Overflowed THEN <<BigSign(b) * word[1]>>
     ELSE IF b.neg /\ b.limbs[1] = Negated(FromWord(MinWord, LimbTrits)) THEN <<MinWord>>
     ELSE Failure

BigFromTrits(x) ==
  IF Len(x) <= WordTrits THEN BigFromWord(ToWord(x)[1])
  ELSE LET size == AbsoluteTrits(x)
       IN Normalized(SignTrit(x) = -1,
                     [l \in 1..((Len(x) + LimbTrits - 1) \div LimbTrits) |->
                       [t \in 1..LimbTrits |-> At(size, (l - 1) * LimbTrits + t)]])

BigToTrits(b, n) ==
  LET all == FlattenSeq(b.limbs)
      x == Resized(all, n)
  IN IF Significant(all) > n THEN Overflowed ELSE IF b.neg THEN Negated(x) ELSE x

(* The digits in a base, the highest first. *)
RECURSIVE DigitsIn(_, _)
DigitsOf(qr, base) == DigitsIn(qr[1], base) \o BigToWord(qr[2])
DigitsIn(b, base) == IF BigIsZero(b) THEN <<>> ELSE DigitsOf(BigDivMod(b, BigFromWord(base)), base)

FromDigits(digits, base) ==
  LET Value[i \in 0..Len(digits)] ==
        IF i = 0 THEN BigZero ELSE BigAdd(BigMul(Value[i - 1], BigFromWord(base)), BigFromWord(digits[i]))
  IN Value[Len(digits)]

(* A text is a sequence of digits, each one character.  The minus sign is a *)
(* character of its own; the plus sign is the character of PlusDigit.       *)
MinusSign == -1
ToText(b, base) ==
  IF BigIsZero(b) THEN <<0>>
  ELSE (IF b.neg THEN <<MinusSign>> ELSE <<>>) \o DigitsIn(BigAbs(b), base)
ToDecimalText(b) == ToText(b, Decimal)
ToBase81Text(b) == ToText(b, Base81)

FromBase81Text(text) ==
  LET signed == text # <<>> /\ Head(text) \in {MinusSign, PlusDigit}
      digits == IF signed THEN Tail(text) ELSE text
  IN IF \/ digits = <<>>
        \/ \E i \in DOMAIN digits : digits[i] = MinusSign
        \/ Len(digits) > 1 /\ Head(digits) = 0
     THEN Failure
     ELSE <<NegatedIf(signed /\ Head(text) = MinusSign, FromDigits(digits, Base81))>>

(* Digits written in decimal with dots between them: here the numbers       *)
(* themselves; the signs are read before the first.                         *)
FromDigitText(sign, digits) ==
  IF digits = <<>> \/ \E i \in DOMAIN digits : digits[i] \notin 0..(Base81 - 1) THEN Failure
  ELSE <<NegatedIf(sign = -1, FromDigits(digits, Base81))>>

(************************** fractions **************************************)
(********************** of T81BigInts **************************************)
Over(f, g) == IF BigEqual(g, BigOne) THEN f ELSE [i \in 1..2 |-> Quot(f[i], g)]

(* Lowest terms, the sign in the numerator, zero as 0/1; a numerator whose  *)
(* sign operator+ has left in its limb cannot be divided.                   *)
Reduced(num, den) ==
  LET n == IF BigIsNegative(den) THEN BigNeg(num) ELSE num
  IN IF BigIsZero(den) THEN Failure
     ELSE IF BigIsZero(n) THEN <<n, BigOne>>
     ELSE IF StdChunks(ToChunks(BigAbs(n))) = Failure THEN Failure
     ELSE Over(<<n, BigAbs(den)>>, BigGcd(BigAbs(n), BigAbs(den)))

CrossSum(Join(_, _), f, g) == Join(BigMul(f[1], g[2]), BigMul(g[1], f[2]))
RatioAdd(f, g) == Reduced(CrossSum(BigAdd, f, g), BigMul(f[2], g[2]))
RatioSub(f, g) == Reduced(CrossSum(BigSub, f, g), BigMul(f[2], g[2]))
RatioMul(f, g) == Reduced(BigMul(f[1], g[1]), BigMul(f[2], g[2]))
RatioDiv(f, g) == IF BigIsZero(g[1]) THEN Failure ELSE Reduced(BigMul(f[1], g[2]), BigMul(f[2], g[1]))
RatioNeg(f) == Reduced(BigNeg(f[1]), f[2])
RatioLess(f, g) == BigLess(BigMul(f[1], g[2]), BigMul(g[1], f[2]))

(* What is written of a fraction, and what is read back. *)
RatioText(f) == [i \in 1..2 |-> ToBase81Text(f[i])]
BothRead(parts) == IF Failure \in {parts[1], parts[2]} THEN Failure ELSE <<parts[1][1], parts[2][1]>>
RatioFromText(texts) ==
  BothRead([i \in 1..2 |-> FromBase81Text(texts[i])])

(************************ of T81Ints ***************************************)
(* A product that loses trits is taken as it is; one that overflows ends    *)
(* the program, since the operations promise to throw nothing.              *)
Lowest(num, den) ==
  LET n == IF SignTrit(den) = -1 THEN Negated(num) ELSE num
      d == AbsoluteTrits(den)
      g == Gcd(n, d)
  IN IF Overflowed \in {num, den} THEN Overflowed
     ELSE IF IsZero(den) \/ IsZero(num) THEN <<Zeros(Len(num)), One(Len(num))>>
     ELSE <<Divided(n, g)[1], Divided(d, g)[1]>>

NarrowAdd(f, g) == Lowest(Plus(Times(f[1], g[2]), Times(g[1], f[2])), Times(f[2], g[2]))
NarrowSub(f, g) ==
  LET right == Times(g[1], f[2])
  IN Lowest(IF right = Overflowed THEN Overflowed ELSE Plus(Times(f[1], g[2]), Negated(right)),
            Times(f[2], g[2]))
NarrowMul(f, g) == Lowest(Times(f[1], g[1]), Times(f[2], g[2]))
NarrowDiv(f, g) == Lowest(Times(f[1], g[2]), Times(f[2], g[1]))

(*********************** fixed point ***************************************)
FixedMul(x, y) ==
  LET product == Times(x, y)
  IN IF product = Overflowed THEN Overflowed ELSE ShiftedRight(product, FractionTrits)
FixedDiv(x, y) ==
  IF IsZero(y) THEN Overflowed ELSE Divided(ShiftedLeft(x, FractionTrits), y)[1]
FixedFromWord(v, n) ==
  LET whole == FromWord(v, n)
  IN IF whole = Overflowed THEN Overflowed ELSE ShiftedLeft(whole, FractionTrits)
=============================================================================
