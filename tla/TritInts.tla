------------------------------ MODULE TritInts ------------------------------
(***************************************************************************)
(* Balanced ternary integers of a fixed width, T81Int<N>                    *)
(* (include/t81/types/T81Int.hpp).  An integer is the sequence of its trits, *)
(* the lowest first; the width N is the length.  An operation that throws   *)
(* has no value: it yields Overflowed, which an operation on it passes on,  *)
(* as the exception passes the rest of the expression by.                   *)
(***************************************************************************)
EXTENDS Integers, SequencesExt

CONSTANTS
  WordTrits,  \* kPow3AccumTrits: as many trits as surely fit a machine word (40)
  WordBits    \* the width of a machine word (64)

(* What the code says of 40 trits and 64 bits. *)
ASSUME WordAssumption ==
  /\ WordTrits \in Nat \ {0} /\ WordBits \in Nat \ {0}
  /\ (3^WordTrits - 1) \div 2 < 2^(WordBits - 1)
  /\ 2^(WordBits - 1) < 3^WordTrits
  /\ 3^WordTrits < 2^WordBits

MaxWord == 2^(WordBits - 1) - 1
MinWord == -(2^(WordBits - 1))
Overflowed == <<>>

Absolute(n) == IF n < 0 THEN -n ELSE n
Larger(m, n) == IF m > n THEN m ELSE n

(* Division of the machine, which drops the fraction. *)
Towards(n, d) == IF n < 0 THEN -((-n) \div d) ELSE n \div d

(* The number that digits, the lowest first, stand for. *)
Numeral(digits, base) ==
  LET From[i \in 1..(Len(digits) + 1)] == IF i > Len(digits) THEN 0 ELSE digits[i] + base * From[i + 1]
  IN From[1]

(* Going through sums from the lowest, one keeps a digit and carries the    *)
(* rest on to the next: what is carried depends on the algorithm.           *)
UnitCarry(s, base) ==
  LET half == (base - 1) \div 2 IN IF s > half THEN 1 ELSE IF s < -half THEN -1 ELSE 0
FullCarry(s, base) ==
  LET half == (base - 1) \div 2 IN Towards(IF s >= 0 THEN s + half ELSE s - half, base)
TwoCarry(s) == IF s = 2 THEN 1 ELSE IF s = -2 THEN -1 ELSE 0
Carry(rule, s, base) ==
  CASE rule = "unit" -> UnitCarry(s, base)
    [] rule = "full" -> FullCarry(s, base)
    [] rule = "floor" -> s \div base
    [] rule = "two" -> TwoCarry(s)

Kept(digits, sum, carry, base) == [digits |-> Append(digits, sum - base * carry), carry |-> carry]
CarriedInto(before, s, rule, base) ==
  LET sum == s + before.carry IN Kept(before.digits, sum, Carry(rule, sum, base), base)
Ripple(sums, rule, base) ==
  LET Done[i \in 0..Len(sums)] == IF i = 0 THEN [digits |-> <<>>, carry |-> 0]
                                  ELSE CarriedInto(Done[i - 1], sums[i], rule, base)
  IN Done[Len(sums)]

(************************** trits ******************************************)
Zeros(n) == [i \in 1..n |-> 0]
Negated(x) == [i \in DOMAIN x |-> -x[i]]
Used(x) == {i \in DOMAIN x : x[i] # 0}
Significant(x) == IF Used(x) = {} THEN 0 ELSE Max(Used(x))
SignTrit(x) == IF Used(x) = {} THEN 0 ELSE x[Max(Used(x))]
IsZero(x) == Used(x) = {}
AbsoluteTrits(x) == IF SignTrit(x) = -1 THEN Negated(x) ELSE x
IntValue(x) == Numeral(x, 3)
MaxValue(n) == IntValue([i \in 1..n |-> 1])

Resized(x, n) == [i \in 1..n |-> IF i <= Len(x) THEN x[i] ELSE 0]
Narrowed(x, n) == IF Significant(x) > n THEN Overflowed ELSE Resized(x, n)

(* operator<=> looks at the trits from the highest. *)
Below(x, y) ==
  \E i \in DOMAIN x : x[i] < y[i] /\ \A j \in DOMAIN x : j > i => x[j] = y[j]

ShiftedLeft(x, k) == [i \in DOMAIN x |-> IF i > k THEN x[i - k] ELSE 0]
ShiftedRight(x, k) == [i \in DOMAIN x |-> IF i + k <= Len(x) THEN x[i + k] ELSE 0]

(********************** words and trits ************************************)
(* A word is divided by 3; the remainder 2 becomes -1 and a carry.          *)
FromWord(v, n) ==
  LET Left[i \in 0..n] ==
        IF i = 0 THEN Absolute(v)
        ELSE LET u == Left[i - 1] IN u \div 3 + (IF u % 3 = 2 THEN 1 ELSE 0)
      Digit(i) == IF Left[i - 1] % 3 = 2 THEN -1 ELSE Left[i - 1] % 3
  IN IF Left[n] # 0 THEN Overflowed
     ELSE [i \in 1..n |-> IF v < 0 THEN -Digit(i) ELSE Digit(i)]

One(n) == FromWord(1, n)

(* to_int64: trits above the special one must be zero; the special one is   *)
(* worth more than the largest word, so what is below must make up for it.  *)
ToWordWrapped(x) ==  \* mutant: the largest word is taken to be one more
  LET v == Numeral(x, 3)
  IN IF v > MaxWord + 1 \/ v < MinWord THEN Overflowed ELSE <<v>>

ToWord(x) ==
  LET low == Numeral(SubSeq(x, 1, IF Len(x) < WordTrits THEN Len(x) ELSE WordTrits), 3)
      special == IF Len(x) > WordTrits THEN x[WordTrits + 1] ELSE 0
  IN IF \/ \E i \in DOMAIN x : i > WordTrits + 1 /\ x[i] # 0
        \/ special = 1 /\ low > -(3^WordTrits - MaxWord)
        \/ special = -1 /\ low < 3^WordTrits + MinWord
     THEN Overflowed
     ELSE <<low + special * 3^WordTrits>>

(************************** arithmetic *************************************)
WithoutCarry(sum) == IF sum.carry # 0 THEN Overflowed ELSE sum.digits
Plus(x, y) ==
  IF Overflowed \in {x, y} THEN Overflowed
  ELSE WithoutCarry(Ripple([i \in DOMAIN x |-> x[i] + y[i]], "unit", 3))

Minus(x, y) == Plus(x, Negated(y))

(* Each trit of y adds x shifted, or takes it away: the shift drops the     *)
(* trits that leave the width.                                              *)
Times(x, y) ==
  IF Overflowed \in {x, y} THEN Overflowed
  ELSE LET Sum[i \in 0..Len(y)] ==
             IF i = 0 THEN Zeros(Len(x))
             ELSE IF y[i] = 0 THEN Sum[i - 1]
             ELSE Plus(Sum[i - 1], ShiftedLeft(IF y[i] = 1 THEN x ELSE Negated(x), i - 1))
       IN Sum[Len(y)]

(************************** division ***************************************)
(* q counts how often v is taken from r, or given back to it, while the     *)
(* condition of the loop holds; no loop goes round more often than v fits.  *)
Lowered(qr, v) ==
  LET rounds == 0..MaxValue(Len(v))
      After[k \in rounds] ==
        IF k = 0 THEN qr ELSE <<Plus(After[k - 1][1], One(Len(v))), Minus(After[k - 1][2], v)>>
      Ends(k) == Below(After[k][2], v)
  IN After[CHOOSE k \in rounds : Ends(k) /\ \A j \in rounds : j < k => ~Ends(j)]
Lifted(qr, v) ==
  LET rounds == 0..MaxValue(Len(v))
      After[k \in rounds] ==
        IF k = 0 THEN qr ELSE <<Minus(After[k - 1][1], One(Len(v))), Plus(After[k - 1][2], v)>>
      Ends(k) == SignTrit(After[k][2]) # -1
  IN After[CHOOSE k \in rounds : Ends(k) /\ \A j \in rounds : j < k => ~Ends(j)]

(* Restoring division: q and r grow by one trit of the dividend at a time,  *)
(* and r is brought back between 0 and the divisor.                         *)
BroughtDown(qr, trit, n) ==
  LET r == ShiftedLeft(qr[2], 1)
  IN <<ShiftedLeft(qr[1], 1),
       IF trit = 1 THEN Plus(r, One(n)) ELSE IF trit = -1 THEN Minus(r, One(n)) ELSE r>>
Restored(qr, v) == Lifted(Lowered(qr, v), v)
Signs(x, y, qr) ==
  <<IF (SignTrit(x) = -1) # (SignTrit(y) = -1) THEN Negated(qr[1]) ELSE qr[1],
    IF SignTrit(x) = -1 THEN Negated(qr[2]) ELSE qr[2]>>
Divided(x, y) ==
  IF Overflowed \in {x, y} \/ IsZero(y) THEN Overflowed
  ELSE LET n == Len(x)
           u == AbsoluteTrits(x)
           v == AbsoluteTrits(y)
           Down[i \in 1..(n + 1)] ==
             IF i > n THEN <<Zeros(n), Zeros(n)>>
             ELSE Restored(BroughtDown(Down[i + 1], u[i], n), v)
       IN Signs(x, y, Down[1])

(* Square and multiply; the base is squared once more after its last use.   *)
(* An exponent has fewer bits than a word.                                  *)
Raised(x, exponent) ==
  LET Loop[k \in 0..WordBits] ==
        IF k = 0 THEN [result |-> One(Len(x)), base |-> x, e |-> exponent]
        ELSE LET l == Loop[k - 1]
             IN IF l.e = 0 \/ l.result = Overflowed THEN l
                ELSE LET squared == Times(l.base, l.base)
                         grown == IF l.e % 2 = 1 THEN Times(l.result, l.base) ELSE l.result
                     IN [result |-> IF squared = Overflowed THEN Overflowed ELSE grown,
                         base |-> squared, e |-> l.e \div 2]
  IN Loop[WordBits].result

Power(x, e) ==
  IF SignTrit(e) = -1 THEN Overflowed
  ELSE IF IsZero(e) THEN One(Len(x))
  ELSE IF ToWord(e) = Overflowed THEN Overflowed
  ELSE Raised(x, ToWord(e)[1])

Gcd(x, y) ==
  LET Euclid[p \in Seq(Int) \X Seq(Int)] ==
        IF IsZero(p[2]) THEN p[1] ELSE Euclid[<<p[2], Divided(p[1], p[2])[2]>>]
  IN Euclid[<<AbsoluteTrits(x), AbsoluteTrits(y)>>]

Lcm(x, y) ==
  IF IsZero(x) \/ IsZero(y) THEN Zeros(Len(x))
  ELSE LET product == Times(Divided(x, Gcd(x, y))[1], y)
       IN IF product = Overflowed THEN Overflowed ELSE AbsoluteTrits(product)
=============================================================================
