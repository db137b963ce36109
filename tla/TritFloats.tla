---------------------------- MODULE TritFloats ------------------------------
(***************************************************************************)
(* Floating-point numbers in balanced ternary, T81Float<M, E>               *)
(* (include/t81/types/T81Float.hpp), and their conversion from and to       *)
(* T81BigInt.  A number has a sign, an exponent between -Bias and Bias and  *)
(* a mantissa of M trits, whose highest stands for 3^exponent.  Doubles,    *)
(* which division and rounding go through, are taken as exact: the ratio of *)
(* two integers.                                                            *)
(***************************************************************************)
EXTENDS BigInts

CONSTANTS
  M,     \* trits of the mantissa
  E      \* trits of the exponent

ASSUME FloatAssumption == M \in Nat \ {0, 1} /\ E \in Nat \ {0}

Bias == (3^E - 1) \div 2
InfExponent == Bias

Float(sign, exp, mant) == [sign |-> sign, exp |-> exp, mant |-> mant]
SignOf(positive) == IF positive THEN 1 ELSE -1
FZero(positive) == Float(SignOf(positive), 0, Zeros(M))
FInf(positive) == Float(SignOf(positive), InfExponent, Zeros(M))
NaE == Float(1, InfExponent, One(M))

IsFZero(f) == f.exp = 0 /\ IsZero(f.mant)
IsFInf(f) == f.exp = InfExponent /\ IsZero(f.mant)
IsNaE(f) == f.exp = InfExponent /\ ~IsZero(f.mant)
Finite(f) == f.exp # InfExponent

FNeg(f) == IF IsFZero(f) THEN f ELSE [f EXCEPT !.sign = -f.sign]
FAbs(f) == [f EXCEPT !.sign = 1]

(* Zeros are equal; else the sign decides, then the exponent, then the      *)
(* mantissa.                                                                *)
FLess(f, g) ==
  LET Smaller(x, y) == x.exp < y.exp \/ (x.exp = y.exp /\ Below(x.mant, y.mant))
  IN /\ ~IsNaE(f) /\ ~IsNaE(g)
     /\ ~(IsFZero(f) /\ IsFZero(g))
     /\ IF f.sign # g.sign THEN f.sign < g.sign
        ELSE IF f.sign = -1 THEN Smaller(g, f) ELSE Smaller(f, g)
FEqual(f, g) == ~IsNaE(f) /\ ~IsNaE(g) /\ (f = g \/ (IsFZero(f) /\ IsFZero(g)))

Clamp(f, low, high) ==
  IF \E x \in {f, low, high} : IsNaE(x) THEN NaE
  ELSE IF FLess(f, low) THEN low
  ELSE IF FLess(high, f) THEN high
  ELSE f

(* The number mant * 3^(exp - (M - 1)), mant being wider than M trits: its  *)
(* highest trit moves to the top, what is below is dropped; too large a     *)
(* number is infinite, too small a one loses trits down to zero.            *)
NormalizeLow(positive, exp, mant) ==  \* mutant: a number that underflows keeps its trits in place
  LET shift == Significant(mant) - M
      top == exp + shift
      final == [i \in 1..M |-> IF i + shift \in DOMAIN mant THEN mant[i + shift] ELSE 0]
  IN IF IsZero(mant) \/ top <= -InfExponent - M THEN FZero(positive)
     ELSE IF top >= InfExponent THEN FInf(positive)
     ELSE Float(SignOf(positive), Larger(top, -InfExponent), final)

Normalize(positive, exp, mant) ==
  LET shift == Significant(mant) - M
      top == exp + shift
      final == [i \in 1..M |-> IF i + shift \in DOMAIN mant THEN mant[i + shift] ELSE 0]
      under == -InfExponent - top
  IN IF IsZero(mant) THEN FZero(positive)
     ELSE IF top >= InfExponent THEN FInf(positive)
     ELSE IF top > -InfExponent THEN Float(SignOf(positive), top, final)
     ELSE IF under >= M THEN FZero(positive)
     ELSE Float(SignOf(positive), -InfExponent, ShiftedRight(final, under))

(* The mantissa of the larger exponent gets M trits below its point, where  *)
(* the other one is moved.                                                  *)
FAdd(f, g) ==
  LET a == IF f.exp < g.exp THEN g ELSE f
      b == IF f.exp < g.exp THEN f ELSE g
      diff == a.exp - b.exp
      wa == ShiftedLeft(Resized(a.mant, 2 * M + 4), M)
      wide == Resized(b.mant, 2 * M + 4)
      wb == IF diff > M + 2 THEN Zeros(2 * M + 4)
            ELSE IF diff <= M THEN ShiftedLeft(wide, M - diff)
            ELSE ShiftedRight(wide, diff - M)
      Signed(x, w) == IF x.sign = -1 THEN Negated(w) ELSE w
      sum == Plus(Signed(a, wa), Signed(b, wb))
  IN IF IsNaE(f) \/ IsNaE(g) THEN NaE
     ELSE IF IsFInf(f) /\ IsFInf(g) /\ f.sign # g.sign THEN NaE
     ELSE IF IsFInf(f) \/ IsFInf(g) THEN IF IsFInf(f) THEN f ELSE g
     ELSE IF IsFZero(f) THEN g
     ELSE IF IsFZero(g) THEN f
     ELSE IF IsZero(sum) THEN FZero(TRUE)
     ELSE Normalize(SignTrit(sum) = 1, a.exp - M, AbsoluteTrits(sum))
FSub(f, g) == FAdd(f, FNeg(g))

FMul(f, g) ==
  IF IsNaE(f) \/ IsNaE(g) THEN NaE
  ELSE IF IsFInf(f) \/ IsFInf(g)
       THEN IF IsFZero(f) \/ IsFZero(g) THEN NaE ELSE FInf(f.sign = g.sign)
  ELSE IF IsFZero(f) \/ IsFZero(g) THEN FZero(TRUE)
  ELSE Normalize(f.sign = g.sign, f.exp + g.exp - M + 1,
                 Times(Resized(f.mant, 2 * M), Resized(g.mant, 2 * M)))
Fma(f, g, h) == FAdd(FMul(f, g), h)

(************************ through doubles **********************************)
(* The double n / d * 3^k, d > 0.  from_double rounds the mantissa to an    *)
(* integer below 3^(M-1), halves away from zero, so that it often does not  *)
(* use its highest trit.                                                    *)
AtLeast(n, d, k) == IF k >= 0 THEN n >= d * 3^k ELSE n * 3^(-k) >= d
Log3(n, d) == CHOOSE k \in (-M)..M : AtLeast(n, d, k) /\ ~AtLeast(n, d, k + 1)
Nearest(n, d) == (2 * n + d) \div (2 * d)
RoundedTimes(n, d, k) == IF k >= 0 THEN Nearest(n * 3^k, d) ELSE Nearest(n, d * 3^(-k))

FromReal(n, d, k) ==
  LET log == Log3(Absolute(n), d)
      mant == RoundedTimes(Absolute(n), d, M - 2 - log)
  IN IF n = 0 THEN FZero(TRUE)
     ELSE Normalize(n > 0, log + k + 1, Resized(FromWord(mant, M), M + 4))

FDiv(f, g) ==
  LET same == f.sign = g.sign
  IN IF IsNaE(f) \/ IsNaE(g) THEN NaE
     ELSE IF IsFZero(g) THEN IF IsFZero(f) \/ IsFInf(f) THEN NaE ELSE FInf(same)
     ELSE IF IsFInf(f) THEN IF IsFInf(g) THEN NaE ELSE FInf(same)
     ELSE IF IsFInf(g) \/ IsFZero(f) THEN FZero(TRUE)
     ELSE FromReal((IF same THEN 1 ELSE -1) * IntValue(f.mant), IntValue(g.mant), f.exp - g.exp)

(* floor, ceil and round: Integral takes the mantissa and the power of 3    *)
(* that divides it.                                                         *)
ThroughDouble(f, Integral(_, _)) ==
  LET n == f.sign * IntValue(f.mant)
      k == f.exp - (M - 1)
  IN IF IsNaE(f) \/ IsFInf(f) THEN f
     ELSE IF k >= 0 THEN FromReal(n, 1, k)
     ELSE FromReal(Integral(n, 3^(-k)), 1, 0)
FFloor(f) == ThroughDouble(f, LAMBDA n, d : n \div d)
FCeil(f) == ThroughDouble(f, LAMBDA n, d : -((-n) \div d))
FRound(f) == ThroughDouble(f, LAMBDA n, d : IF n < 0 THEN -Nearest(-n, d) ELSE Nearest(n, d))

(*********************** from and to T81BigInt *****************************)
(* The highest M + 4 trits go to Normalize. *)
BigToFloat(b) ==
  LET all == FlattenSeq(b.limbs)
      drop == Larger(Significant(all) - (M + 4), 0)
  IN IF BigIsZero(b) \/ IsZero(Last(b.limbs)) THEN FZero(TRUE)
     ELSE Normalize(~b.neg, drop + M - 1, [i \in 1..(M + 4) |-> At(all, i + drop)])

(* The mantissa times or over a power of 3, to the nearest. *)
NearestQuot(qr, d) ==
  IF ~BigLess(BigMul(BigFromWord(2), qr[2]), d) THEN BigAdd(qr[1], BigOne) ELSE qr[1]
Scaled3(m, shift, power, negative) ==
  LET Signed(b) == IF negative THEN BigNeg(b) ELSE b
  IN IF shift >= 0 THEN BigMul(Signed(m), power) ELSE Signed(NearestQuot(BigDivMod(m, power), power))
BigFromFloat(f) ==
  LET shift == f.exp - M + 1
  IN IF IsFZero(f) THEN <<BigZero>>
     ELSE IF ~Finite(f) THEN Failure
     ELSE <<Scaled3(BigFromTrits(f.mant), shift,
                    BigPow(BigFromWord(3), BigFromWord(Absolute(shift)))[1], f.sign = -1)>>
=============================================================================
