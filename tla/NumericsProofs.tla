--------------------------- MODULE NumericsProofs ---------------------------
(***************************************************************************)
(* Proofs that the arithmetic of T81Int<N> (TritInts) is exact for every   *)
(* width N: sums, negations, comparisons and conversions give the number   *)
(* they stand for, or say that there is no room for it.                    *)
(*                                                                         *)
(* A number is followed from its highest trit down: the tail V[i] is what  *)
(* the trits from i on stand for, in units of the i-th place.              *)
(*                                                                         *)
(* And that vectors of packed trits (TritVectors) give, through tables, in *)
(* words and by every kernel, what their operations give trit by trit, for *)
(* vectors of every length, bytes and words of every size.                 *)
(***************************************************************************)
EXTENDS TritInts, TritVectors, Induction, SequenceTheorems

Trit == {-1, 0, 1}
Trits(n) == [1 .. n -> Trit]
Ones(n) == [i \in 1 .. n |-> 1]

Tails(V, x, n) ==
  /\ V[n + 1] = 0
  /\ \A i \in 1 .. n : V[i] = x[i] + 3 * V[i + 1]
  /\ \A i \in 1 .. n + 1 : V[i] \in Int

LEMMA DigitsAreSeq ==
  ASSUME NEW n \in Nat, NEW S, NEW x \in [1 .. n -> S]
  PROVE  x \in Seq(S) /\ Len(x) = n /\ DOMAIN x = 1 .. n
OBVIOUS

(* A numeral has its tails, and is the longest of them.                    *)
LEMMA NumeralTails ==
  ASSUME NEW n \in Nat, NEW x \in [1 .. n -> Int]
  PROVE  \E V : Tails(V, x, n) /\ IntValue(x) = V[1]
<1> DEFINE step == [q \in (1 .. n) \X Int |-> x[n + 1 - q[1]] + 3 * q[2]]
           Body(f) == [i \in 1 .. n + 1 |-> IF i > n THEN 0 ELSE x[i] + 3 * f[i + 1]]
           V == CHOOSE f : f = Body(f)
<1>1. \A i \in 1 .. n : x[i] \in Int
  OBVIOUS
<1>2. StepsIn(step, n, Int)
  <2>1. SUFFICES ASSUME NEW k \in 1 .. n, NEW s \in Int
                 PROVE  x[n + 1 - k] + 3 * s \in Int
    BY DEF StepsIn
  <2>2. n + 1 - k \in 1 .. n
    OBVIOUS
  <2>3. x[n + 1 - k] \in Int
    BY <1>1, <2>2
  <2> QED
    BY <2>3
<1> HIDE DEF step, Body, V
<1>3. PICK h : IsRun(h, 0, step, n, Int)
  <2>1. 0 \in Int
    OBVIOUS
  <2> QED
    BY <1>2, <2>1, Iterates, Zenon
<1> DEFINE g == [i \in 1 .. n + 1 |-> h[n + 1 - i]]
<1>4. ASSUME NEW i \in 1 .. n + 1
      PROVE  g[i] = IF i > n THEN 0 ELSE x[i] + 3 * g[i + 1]
  <2>1. CASE i > n
    <3>1. i = n + 1 /\ n + 1 - i = 0
      BY <2>1
    <3> QED
      BY <1>3, <3>1 DEF IsRun
  <2>2. CASE i \in 1 .. n
    <3>1. /\ n + 1 - i \in 1 .. n /\ n + 1 - i - 1 = n + 1 - (i + 1) /\ i + 1 \in 1 .. n + 1
          /\ n + 1 - (n + 1 - i) = i /\ n + 1 - (i + 1) \in 0 .. n
      BY <2>2
    <3> DEFINE k == n + 1 - i
    <3>2. h[k] = step[<<k, h[k - 1]>>] /\ h[k - 1] \in Int
      BY <1>3, <3>1 DEF IsRun
    <3>3. step[<<k, h[k - 1]>>] = x[n + 1 - k] + 3 * h[k - 1]
      BY <3>1, <3>2 DEF step
    <3>4. g[i] = h[k] /\ g[i + 1] = h[k - 1]
      BY <2>2, <3>1
    <3> QED
      BY <2>2, <3>1, <3>2, <3>3, <3>4
  <2> QED
    BY <2>1, <2>2
<1>5. g = Body(g)
  <2> HIDE DEF g
  <2>1. g = [i \in 1 .. n + 1 |-> g[i]]
    BY DEF g
  <2> QED
    BY <1>4, <2>1 DEF Body
<1> HIDE DEF g
<1>6. V = Body(V)
  BY <1>5 DEF V
<1>7. IntValue(x) = V[1]
  <2>1. Len(x) = n
    BY DigitsAreSeq
  <2> QED
    BY <2>1 DEF IntValue, Numeral, V, Body
<1>8. V[n + 1] = 0 /\ \A i \in 1 .. n : V[i] = x[i] + 3 * V[i + 1]
  <2>1. V[n + 1] = 0
    BY <1>6 DEF Body
  <2>2. ASSUME NEW i \in 1 .. n
        PROVE  V[i] = x[i] + 3 * V[i + 1]
    <3>1. i \in 1 .. n + 1 /\ ~(i > n)
      OBVIOUS
    <3> QED
      BY <1>6, <3>1 DEF Body
  <2> QED
    BY <2>1, <2>2
<1> DEFINE T == {i \in 1 .. n + 1 : V[i] \in Int}
<1>9. n + 1 \in T
  BY <1>8
<1>10. ASSUME NEW i \in 1 .. n, i + 1 \in T
       PROVE  i \in T
  BY <1>1, <1>8, <1>10
<1> HIDE DEF T
<1>11. 1 .. n + 1 \subseteq T
  BY <1>9, <1>10, DownTo
<1> QED
  BY <1>7, <1>8, <1>11 DEF Tails, T

LEMMA TritsAreInts ==
  ASSUME NEW n \in Nat, NEW x \in Trits(n)
  PROVE  x \in [1 .. n -> Int] /\ \A i \in 1 .. n : x[i] \in Trit
BY DEF Trits, Trit

(* Half the weight of a place is what ones below it stand for: no tail is  *)
(* larger than that of ones.                                               *)
LEMMA TailBounds ==
  ASSUME NEW n \in Nat, NEW x \in Trits(n), NEW V, NEW H,
         Tails(V, x, n), Tails(H, Ones(n), n)
  PROVE  \A i \in 1 .. n + 1 : -H[i] <= V[i] /\ V[i] <= H[i]
<1> DEFINE T == {i \in 1 .. n + 1 : -H[i] <= V[i] /\ V[i] <= H[i]}
<1>1. n + 1 \in T
  BY DEF Tails
<1>2. ASSUME NEW i \in 1 .. n, i + 1 \in T
      PROVE  i \in T
  <2>1. H[i] = 1 + 3 * H[i + 1] /\ V[i] = x[i] + 3 * V[i + 1] /\ x[i] \in {-1, 0, 1}
        /\ H[i + 1] \in Int /\ V[i + 1] \in Int
    <3>1. i + 1 \in 1 .. n + 1 /\ Ones(n)[i] = 1
      BY DEF Ones
    <3> QED
      BY <3>1, TritsAreInts DEF Tails, Trit
  <2>2. -H[i + 1] <= V[i + 1] /\ V[i + 1] <= H[i + 1]
    BY <1>2
  <2>3. -H[i] <= V[i] /\ V[i] <= H[i]
    BY <2>1, <2>2
  <2> QED
    BY <2>3
<1> HIDE DEF T
<1>3. 1 .. n + 1 \subseteq T
  BY <1>1, <1>2, DownTo
<1> QED
  BY <1>3 DEF T

LEMMA MaxTails ==
  ASSUME NEW n \in Nat
  PROVE  \E H : Tails(H, Ones(n), n) /\ MaxValue(n) = H[1]
<1>1. Ones(n) \in [1 .. n -> Int]
  BY DEF Ones
<1> QED
  BY <1>1, NumeralTails DEF MaxValue, Ones

(* What a width has room for. *)
LEMMA ValueBounds ==
  ASSUME NEW n \in Nat, NEW x \in Trits(n)
  PROVE  /\ IntValue(x) \in Int /\ MaxValue(n) \in Nat
         /\ Absolute(IntValue(x)) <= MaxValue(n)
<1>1. PICK V : Tails(V, x, n) /\ IntValue(x) = V[1]
  BY NumeralTails, TritsAreInts
<1>2. PICK H : Tails(H, Ones(n), n) /\ MaxValue(n) = H[1]
  BY MaxTails
<1>3. 1 \in 1 .. n + 1
  OBVIOUS
<1>4. -H[1] <= V[1] /\ V[1] <= H[1] /\ V[1] \in Int /\ H[1] \in Int
  BY <1>1, <1>2, <1>3, TailBounds DEF Tails
<1> QED
  BY <1>1, <1>2, <1>4 DEF Absolute

-----------------------------------------------------------------------------
(* Signs and comparisons *)

LEMMA NegatedValue ==
  ASSUME NEW n \in Nat, NEW x \in Trits(n)
  PROVE  Negated(x) \in Trits(n) /\ IntValue(Negated(x)) = -IntValue(x)
<1> DEFINE y == Negated(x)
<1>1. y \in Trits(n) /\ \A i \in 1 .. n : y[i] = -x[i]
  <2>1. DOMAIN x = 1 .. n /\ \A i \in 1 .. n : x[i] \in {-1, 0, 1} /\ -x[i] \in {-1, 0, 1}
    BY DEF Trits, Trit
  <2> QED
    BY <2>1 DEF Negated, Trits, Trit
<1> HIDE DEF y
<1>2. PICK V : Tails(V, x, n) /\ IntValue(x) = V[1]
  BY NumeralTails, TritsAreInts
<1>3. PICK W : Tails(W, y, n) /\ IntValue(y) = W[1]
  BY <1>1, NumeralTails, TritsAreInts
<1> DEFINE T == {i \in 1 .. n + 1 : W[i] = -V[i]}
<1>4. n + 1 \in T
  BY <1>2, <1>3 DEF Tails
<1>5. ASSUME NEW i \in 1 .. n, i + 1 \in T
      PROVE  i \in T
  <2>1. /\ V[i] = x[i] + 3 * V[i + 1] /\ W[i] = y[i] + 3 * W[i + 1]
        /\ y[i] = -x[i] /\ x[i] \in Int /\ V[i + 1] \in Int /\ W[i + 1] = -V[i + 1]
    <3>1. i + 1 \in 1 .. n + 1
      OBVIOUS
    <3> QED
      BY <1>1, <1>2, <1>3, <1>5, <3>1, TritsAreInts DEF Tails, Trit
  <2> QED
    BY <2>1
<1> HIDE DEF T
<1>6. 1 .. n + 1 \subseteq T
  BY <1>4, <1>5, DownTo
<1>7. 1 \in 1 .. n + 1
  OBVIOUS
<1> QED
  BY <1>1, <1>2, <1>3, <1>6, <1>7 DEF T, y

(* The trit at the highest place where two numbers differ decides: below   *)
(* it nothing weighs as much.                                              *)
LEMMA HighestDecides ==
  ASSUME NEW n \in Nat, NEW x \in Trits(n), NEW y \in Trits(n), NEW k \in 1 .. n,
         x[k] < y[k], \A i \in 1 .. n : i > k => x[i] = y[i]
  PROVE  IntValue(x) < IntValue(y)
<1>1. PICK V : Tails(V, x, n) /\ IntValue(x) = V[1]
  BY NumeralTails, TritsAreInts
<1>2. PICK W : Tails(W, y, n) /\ IntValue(y) = W[1]
  BY NumeralTails, TritsAreInts
<1> DEFINE T == {i \in 1 .. n + 1 : IF i > k THEN V[i] = W[i] ELSE V[i] < W[i]}
<1>3. n + 1 \in T
  BY <1>1, <1>2 DEF Tails
<1>4. ASSUME NEW i \in 1 .. n, i + 1 \in T
      PROVE  i \in T
  <2>1. /\ V[i] = x[i] + 3 * V[i + 1] /\ W[i] = y[i] + 3 * W[i + 1]
        /\ x[i] \in {-1, 0, 1} /\ y[i] \in {-1, 0, 1} /\ V[i + 1] \in Int /\ W[i + 1] \in Int
        /\ i > k => x[i] = y[i]
    <3>1. i + 1 \in 1 .. n + 1
      OBVIOUS
    <3> QED
      BY <1>1, <1>2, <3>1, TritsAreInts DEF Tails, Trit
  <2>2. IF i + 1 > k THEN V[i + 1] = W[i + 1] ELSE V[i + 1] < W[i + 1]
    BY <1>4
  <2>3. CASE i > k
    BY <2>1, <2>2, <2>3
  <2>4. CASE i = k
    BY <2>1, <2>2, <2>4
  <2>5. CASE i < k
    <3>1. V[i + 1] + 1 <= W[i + 1]
      BY <2>1, <2>2, <2>5
    <3>2. V[i] < W[i]
      BY <2>1, <3>1
    <3> QED
      BY <2>5, <3>2
  <2> QED
    BY <2>3, <2>4, <2>5
<1> HIDE DEF T
<1>5. 1 .. n + 1 \subseteq T
  BY <1>3, <1>4, DownTo
<1>6. 1 \in 1 .. n + 1 /\ ~(1 > k)
  OBVIOUS
<1> QED
  BY <1>1, <1>2, <1>5, <1>6 DEF T

(* Two different numbers differ at a highest place.                        *)
LEMMA HighestDifference ==
  ASSUME NEW n \in Nat, NEW x \in Trits(n), NEW y \in Trits(n), x # y
  PROVE  \E k \in 1 .. n : x[k] # y[k] /\ \A i \in 1 .. n : i > k => x[i] = y[i]
<1> DEFINE T == {m \in 0 .. n : n - m \in 1 .. n /\ x[n - m] # y[n - m]}
<1>1. PICK k \in 1 .. n : x[k] # y[k]
  BY DEF Trits
<1>2. n - k \in T /\ T \in SUBSET Nat
  <2>1. n - k \in 0 .. n /\ n - (n - k) = k
    OBVIOUS
  <2> QED
    BY <1>1, <2>1
<1> HIDE DEF T
<1>3. PICK m \in T : \A j \in T : m <= j
  BY <1>2, LeastOf
<1>4. m \in 0 .. n /\ n - m \in 1 .. n /\ x[n - m] # y[n - m]
  BY <1>3 DEF T
<1>5. ASSUME NEW i \in 1 .. n, i > n - m, x[i] # y[i]
      PROVE  FALSE
  <2>1. n - i \in 0 .. n /\ n - (n - i) = i /\ ~(m <= n - i)
    BY <1>4, <1>5
  <2>2. n - i \in T
    BY <1>5, <2>1 DEF T
  <2> QED
    BY <1>3, <2>1, <2>2
<1> QED
  BY <1>4, <1>5

(* operator<=> orders numbers by what they stand for.                      *)
THEOREM BelowExact ==
  ASSUME NEW n \in Nat, NEW x \in Trits(n), NEW y \in Trits(n)
  PROVE  Below(x, y) <=> IntValue(x) < IntValue(y)
<1>1. DOMAIN x = 1 .. n /\ \A i \in 1 .. n : x[i] \in Int /\ y[i] \in Int
  BY DEF Trits, Trit
<1>2. ASSUME Below(x, y)
      PROVE  IntValue(x) < IntValue(y)
  <2>1. PICK k \in DOMAIN x : x[k] < y[k] /\ \A i \in DOMAIN x : i > k => x[i] = y[i]
    BY <1>2 DEF Below
  <2>2. k \in 1 .. n
    BY <1>1, <2>1
  <2>3. ASSUME NEW i \in 1 .. n, i > k
        PROVE  x[i] = y[i]
    BY <1>1, <2>1, <2>3
  <2> QED
    BY <2>1, <2>2, <2>3, HighestDecides
<1>3. ASSUME ~Below(x, y), x # y
      PROVE  IntValue(y) < IntValue(x)
  <2>1. PICK k \in 1 .. n : x[k] # y[k] /\ \A i \in 1 .. n : i > k => x[i] = y[i]
    BY <1>3, HighestDifference
  <2>2. ~(x[k] < y[k])
    BY <1>1, <1>3, <2>1 DEF Below
  <2>3. y[k] < x[k]
    BY <1>1, <2>1, <2>2
  <2>4. \A i \in 1 .. n : i > k => y[i] = x[i]
    BY <2>1
  <2> QED
    BY <2>3, <2>4, HighestDecides
<1>4. IntValue(x) \in Int /\ IntValue(y) \in Int
  BY ValueBounds
<1> QED
  BY <1>2, <1>3, <1>4

(* A number has one form only.                                             *)
THEOREM OneForm ==
  ASSUME NEW n \in Nat, NEW x \in Trits(n), NEW y \in Trits(n), IntValue(x) = IntValue(y)
  PROVE  x = y
<1>1. SUFFICES ASSUME x # y
               PROVE  FALSE
  OBVIOUS
<1>2. PICK k \in 1 .. n : x[k] # y[k] /\ \A i \in 1 .. n : i > k => x[i] = y[i]
  BY <1>1, HighestDifference
<1>3. x[k] \in Int /\ y[k] \in Int
  BY DEF Trits, Trit
<1>4. \A i \in 1 .. n : i > k => y[i] = x[i]
  BY <1>2
<1>5. IntValue(x) < IntValue(y) \/ IntValue(y) < IntValue(x)
  BY <1>2, <1>3, <1>4, HighestDecides
<1>6. IntValue(x) \in Int
  BY ValueBounds
<1> QED
  BY <1>5, <1>6

LEMMA ZerosValue ==
  ASSUME NEW n \in Nat
  PROVE  Zeros(n) \in Trits(n) /\ IntValue(Zeros(n)) = 0
<1>1. Zeros(n) \in Trits(n) /\ \A i \in 1 .. n : Zeros(n)[i] = 0
  BY DEF Zeros, Trits, Trit
<1>2. PICK V : Tails(V, Zeros(n), n) /\ IntValue(Zeros(n)) = V[1]
  BY <1>1, NumeralTails, TritsAreInts
<1> DEFINE T == {i \in 1 .. n + 1 : V[i] = 0}
<1>3. n + 1 \in T
  BY <1>2 DEF Tails
<1>4. ASSUME NEW i \in 1 .. n, i + 1 \in T
      PROVE  i \in T
  <2>1. V[i] = Zeros(n)[i] + 3 * V[i + 1] /\ Zeros(n)[i] = 0
    BY <1>1, <1>2 DEF Tails
  <2> QED
    BY <1>4, <2>1
<1> HIDE DEF T
<1>5. 1 .. n + 1 \subseteq T /\ 1 \in 1 .. n + 1
  BY <1>3, <1>4, DownTo
<1> QED
  BY <1>1, <1>2, <1>5 DEF T

(* The highest trit that is not zero. *)
LEMMA SignificantFacts ==
  ASSUME NEW n \in Nat, NEW x \in Trits(n), ~IsZero(x)
  PROVE  /\ Significant(x) \in 1 .. n /\ Max(Used(x)) = Significant(x)
         /\ x[Significant(x)] # 0 /\ \A i \in 1 .. n : i > Significant(x) => x[i] = 0
<1> DEFINE U == Used(x)
<1>1. /\ DOMAIN x = 1 .. n /\ U # {} /\ U \in SUBSET (1 .. n)
      /\ \A i \in 1 .. n : i \in U <=> x[i] # 0
  BY DEF IsZero, Trits, Used
<1> HIDE DEF U
<1> DEFINE T == {m \in 0 .. n : n - m \in U}
<1>2. T \in SUBSET Nat /\ T # {}
  <2>1. PICK i \in U : TRUE
    BY <1>1
  <2>2. n - i \in 0 .. n /\ n - (n - i) = i
    BY <1>1
  <2> QED
    BY <2>1, <2>2
<1> HIDE DEF T
<1>3. PICK m \in T : \A j \in T : m <= j
  BY <1>2, LeastOf
<1>4. n - m \in U /\ m \in 0 .. n
  BY <1>3 DEF T
<1>5. ASSUME NEW i \in U
      PROVE  n - m >= i
  <2>1. n - i \in 0 .. n /\ n - (n - i) = i
    BY <1>1
  <2>2. n - i \in T
    BY <2>1 DEF T
  <2>3. m <= n - i
    BY <1>3, <2>2
  <2> QED
    BY <1>1, <1>4, <2>1, <2>3
<1>6. Max(U) \in U /\ \A i \in U : Max(U) >= i
  BY <1>4, <1>5 DEF Max
<1>7. Significant(x) = Max(U)
  BY <1>1 DEF Significant, U
<1>8. ASSUME NEW i \in 1 .. n, i > Max(U)
      PROVE  x[i] = 0
  <2>1. Max(U) \in 1 .. n
    BY <1>1, <1>6
  <2>2. i \notin U
    BY <1>6, <1>8, <2>1
  <2> QED
    BY <1>1, <2>2
<1> QED
  BY <1>1, <1>6, <1>7, <1>8 DEF U

LEMMA ZeroIs ==
  ASSUME NEW n \in Nat, NEW x \in Trits(n), IsZero(x)
  PROVE  x = Zeros(n) /\ IntValue(x) = 0 /\ Significant(x) = 0 /\ SignTrit(x) = 0
<1>1. x = Zeros(n)
  BY DEF IsZero, Used, Trits, Zeros
<1> QED
  BY <1>1, ZerosValue DEF IsZero, Significant, SignTrit

(* sign_trit is the sign of the number, and the magnitude its absolute     *)
(* value.                                                                  *)
THEOREM SignExact ==
  ASSUME NEW n \in Nat, NEW x \in Trits(n)
  PROVE  /\ SignTrit(x) = 1 <=> IntValue(x) > 0
         /\ SignTrit(x) = -1 <=> IntValue(x) < 0
         /\ IsZero(x) <=> IntValue(x) = 0
         /\ AbsoluteTrits(x) \in Trits(n)
         /\ IntValue(AbsoluteTrits(x)) = Absolute(IntValue(x))
<1>1. IntValue(x) \in Int
  BY ValueBounds
<1>2. /\ SignTrit(x) = 1 <=> IntValue(x) > 0
      /\ SignTrit(x) = -1 <=> IntValue(x) < 0
      /\ IsZero(x) <=> IntValue(x) = 0
  <2>1. CASE IsZero(x)
    BY <2>1, ZeroIs
  <2>2. CASE ~IsZero(x)
    <3> DEFINE k == Significant(x)
               z == Zeros(n)
    <3>1. k \in 1 .. n /\ x[k] # 0 /\ SignTrit(x) = x[k] /\ \A i \in 1 .. n : i > k => x[i] = 0
      BY <2>2, SignificantFacts DEF SignTrit, IsZero
    <3>2. \A i \in 1 .. n : z[i] = 0
      BY DEF Zeros
    <3>3. x[k] = 1 \/ x[k] = -1
      BY <3>1 DEF Trits, Trit
    <3>4. z \in Trits(n) /\ IntValue(z) = 0
      BY ZerosValue
    <3> HIDE DEF k, z
    <3>5. CASE x[k] = 1
      <4>1. z[k] < x[k] /\ \A i \in 1 .. n : i > k => z[i] = x[i]
        BY <3>1, <3>2, <3>5
      <4>2. IntValue(z) < IntValue(x)
        BY <3>1, <3>4, <4>1, HighestDecides
      <4> QED
        BY <1>1, <2>2, <3>1, <3>4, <3>5, <4>2
    <3>6. CASE x[k] = -1
      <4>1. x[k] < z[k] /\ \A i \in 1 .. n : i > k => x[i] = z[i]
        BY <3>1, <3>2, <3>6
      <4>2. IntValue(x) < IntValue(z)
        BY <3>1, <3>4, <4>1, HighestDecides
      <4> QED
        BY <1>1, <2>2, <3>1, <3>4, <3>6, <4>2
    <3> QED
      BY <3>3, <3>5, <3>6
  <2> QED
    BY <2>1, <2>2
<1>3. /\ AbsoluteTrits(x) \in Trits(n)
      /\ IntValue(AbsoluteTrits(x)) = IF SignTrit(x) = -1 THEN -IntValue(x) ELSE IntValue(x)
  BY NegatedValue DEF AbsoluteTrits
<1> QED
  BY <1>1, <1>2, <1>3 DEF Absolute

-----------------------------------------------------------------------------
(* Another width *)

LEMMA ResizedValue ==
  ASSUME NEW n \in Nat, NEW m \in Nat, NEW x \in Trits(n), \A i \in 1 .. n : i > m => x[i] = 0
  PROVE  Resized(x, m) \in Trits(m) /\ IntValue(Resized(x, m)) = IntValue(x)
<1> DEFINE y == Resized(x, m)
           least == IF n < m THEN n ELSE m
<1>1. \A i \in 1 .. n : x[i] \in Trit
  BY TritsAreInts
<1>2. y \in Trits(m) /\ \A i \in 1 .. m : y[i] = IF i <= n THEN x[i] ELSE 0
  <2>1. Len(x) = n
    BY DigitsAreSeq DEF Trits
  <2>2. \A i \in 1 .. m : (IF i <= n THEN x[i] ELSE 0) \in Trit
    BY <1>1 DEF Trit
  <2> QED
    BY <2>1, <2>2 DEF Resized, Trits
<1> HIDE DEF y
<1>3. PICK V : Tails(V, x, n) /\ IntValue(x) = V[1]
  BY NumeralTails, TritsAreInts
<1>4. PICK W : Tails(W, y, m) /\ IntValue(y) = W[1]
  BY <1>2, NumeralTails, TritsAreInts
<1>5. \A i \in 1 .. n + 1 : i > m => V[i] = 0
  <2> DEFINE T == {i \in 1 .. n + 1 : i > m => V[i] = 0}
  <2>1. n + 1 \in T
    BY <1>3 DEF Tails
  <2>2. ASSUME NEW i \in 1 .. n, i + 1 \in T
        PROVE  i \in T
    <3>1. V[i] = x[i] + 3 * V[i + 1]
      BY <1>3 DEF Tails
    <3>2. i > m => x[i] = 0 /\ V[i + 1] = 0
      BY <2>2
    <3> QED
      BY <3>1, <3>2
  <2> HIDE DEF T
  <2>3. 1 .. n + 1 \subseteq T
    BY <2>1, <2>2, DownTo
  <2> QED
    BY <2>3 DEF T
<1>6. \A i \in 1 .. m + 1 : i > n => W[i] = 0
  <2> DEFINE T == {i \in 1 .. m + 1 : i > n => W[i] = 0}
  <2>1. m + 1 \in T
    BY <1>4 DEF Tails
  <2>2. ASSUME NEW i \in 1 .. m, i + 1 \in T
        PROVE  i \in T
    <3>1. W[i] = y[i] + 3 * W[i + 1]
      BY <1>4 DEF Tails
    <3>2. i > n => y[i] = 0 /\ W[i + 1] = 0
      BY <1>2, <2>2
    <3> QED
      BY <3>1, <3>2
  <2> HIDE DEF T
  <2>3. 1 .. m + 1 \subseteq T
    BY <2>1, <2>2, DownTo
  <2> QED
    BY <2>3 DEF T
<1>7. least \in Nat /\ (least = n \/ least = m) /\ least <= n /\ least <= m
  OBVIOUS
<1> HIDE DEF least
<1> DEFINE T == {i \in 1 .. least + 1 : V[i] = W[i]}
<1>8. least + 1 \in T
  <2>1. least + 1 \in 1 .. n + 1 /\ least + 1 \in 1 .. m + 1 /\ (least + 1 > n \/ least + 1 > m)
    BY <1>7
  <2>2. V[least + 1] = 0
    BY <1>3, <1>5, <1>7, <2>1 DEF Tails
  <2>3. W[least + 1] = 0
    BY <1>4, <1>6, <1>7, <2>1 DEF Tails
  <2> QED
    BY <1>7, <2>2, <2>3
<1>9. ASSUME NEW i \in 1 .. least, i + 1 \in T
      PROVE  i \in T
  <2>1. i \in 1 .. n /\ i \in 1 .. m
    BY <1>7
  <2>2. V[i] = x[i] + 3 * V[i + 1] /\ W[i] = y[i] + 3 * W[i + 1] /\ y[i] = x[i]
    BY <1>2, <1>3, <1>4, <2>1 DEF Tails
  <2> QED
    BY <1>7, <1>9, <2>2
<1> HIDE DEF T
<1>10. 1 .. least + 1 \subseteq T
  BY <1>7, <1>8, <1>9, DownTo
<1>11. 1 \in 1 .. least + 1
  BY <1>7
<1> QED
  BY <1>2, <1>3, <1>4, <1>10, <1>11 DEF T, y

(* try_to_int gives the same number wherever the width has room for it.    *)
THEOREM NarrowedExact ==
  ASSUME NEW n \in Nat, NEW m \in Nat, NEW x \in Trits(n)
  PROVE  IF Absolute(IntValue(x)) <= MaxValue(m)
         THEN Narrowed(x, m) \in Trits(m) /\ IntValue(Narrowed(x, m)) = IntValue(x)
         ELSE Narrowed(x, m) = Overflowed
<1> DEFINE s == Significant(x)
<1>1. s \in 0 .. n /\ \A i \in 1 .. n : i > s => x[i] = 0
  <2>1. CASE IsZero(x)
    BY <2>1, ZeroIs DEF Zeros
  <2>2. CASE ~IsZero(x)
    BY <2>2, SignificantFacts
  <2> QED
    BY <2>1, <2>2
<1>2. CASE s <= m
  <2>1. \A i \in 1 .. n : i > m => x[i] = 0
    BY <1>1, <1>2
  <2>2. Resized(x, m) \in Trits(m) /\ IntValue(Resized(x, m)) = IntValue(x)
    BY <2>1, ResizedValue
  <2>3. Narrowed(x, m) = Resized(x, m)
    BY <1>1, <1>2 DEF Narrowed
  <2>4. Absolute(IntValue(x)) <= MaxValue(m)
    BY <2>2, ValueBounds
  <2> QED
    BY <2>2, <2>3, <2>4
<1>3. CASE s > m
  <2> DEFINE o == Resized(Ones(m), n)
  <2>1. Narrowed(x, m) = Overflowed
    BY <1>3 DEF Narrowed
  <2>2. ~IsZero(x)
    BY <1>3, ZeroIs
  <2>3. s \in 1 .. n /\ x[s] # 0 /\ x[s] \in Trit
    BY <2>2, SignificantFacts, TritsAreInts
  <2> HIDE DEF s
  <2>4. Ones(m) \in Trits(m) /\ \A i \in 1 .. m : i > n => Ones(m)[i] = 0
    BY <1>3, <2>3 DEF Ones, Trits, Trit
  <2>5. o \in Trits(n) /\ IntValue(o) = MaxValue(m)
    <3>1. o \in Trits(n) /\ IntValue(o) = IntValue(Ones(m))
      BY <2>4, ResizedValue
    <3> QED
      BY <3>1 DEF MaxValue, Ones
  <2>6. \A i \in 1 .. n : i > m => o[i] = 0
    <3>1. Len(Ones(m)) = m
      BY DigitsAreSeq DEF Ones
    <3> QED
      BY <3>1 DEF Resized
  <2>7. Negated(o) \in Trits(n) /\ IntValue(Negated(o)) = -MaxValue(m)
        /\ \A i \in 1 .. n : i > m => Negated(o)[i] = 0
    <3>1. DOMAIN o = 1 .. n
      BY <2>5 DEF Trits
    <3>2. \A i \in 1 .. n : i > m => Negated(o)[i] = 0
      BY <2>6, <3>1 DEF Negated
    <3> QED
      BY <2>5, <3>2, NegatedValue
  <2> HIDE DEF o
  <2>8. ASSUME x[s] = 1
        PROVE  MaxValue(m) < IntValue(x)
    <3>1. o[s] < x[s] /\ \A i \in 1 .. n : i > s => o[i] = x[i]
      BY <1>1, <1>3, <2>3, <2>6, <2>8
    <3> QED
      BY <2>3, <2>5, <3>1, HighestDecides
  <2>9. ASSUME x[s] = -1
        PROVE  IntValue(x) < -MaxValue(m)
    <3>1. x[s] < Negated(o)[s] /\ \A i \in 1 .. n : i > s => x[i] = Negated(o)[i]
      BY <1>1, <1>3, <2>3, <2>7, <2>9
    <3> QED
      BY <2>3, <2>7, <3>1, HighestDecides
  <2>10. x[s] = 1 \/ x[s] = -1
    BY <2>3 DEF Trit
  <2>11. IntValue(x) \in Int /\ MaxValue(m) \in Nat
    BY <2>4, ValueBounds
  <2>12. Absolute(IntValue(x)) > MaxValue(m)
    BY <2>8, <2>9, <2>10, <2>11 DEF Absolute
  <2> QED
    BY <2>1, <2>11, <2>12 DEF Absolute
<1> QED
  BY <1>1, <1>2, <1>3

-----------------------------------------------------------------------------
(* Sums *)

(* What the carry leaves at each place.                                    *)
Rippled(d, C, s, n) ==
  /\ d \in Trits(n) /\ C[0] = 0
  /\ \A i \in 0 .. n : C[i] \in Trit
  /\ \A i \in 1 .. n : d[i] = s[i] + C[i - 1] - 3 * C[i]

(* One place: the sum of two trits and a carry is a trit and a carry.      *)
LEMMA UnitCarryFacts ==
  ASSUME NEW s \in -2 .. 2, NEW c \in Trit
  PROVE  /\ Carry("unit", s + c, 3) \in Trit
         /\ s + c - 3 * Carry("unit", s + c, 3) \in Trit
<1>1. (3 - 1) \div 2 = 1
  OBVIOUS
<1>2. Carry("unit", s + c, 3) = IF s + c > 1 THEN 1 ELSE IF s + c < -1 THEN -1 ELSE 0
  BY <1>1 DEF Carry, UnitCarry
<1> QED
  BY <1>2 DEF Trit

Places == [digits : Seq(Trit), carry : Trit]

CarryFrom(p, t) == Carry("unit", t + p.carry, 3)
DigitLeft(p, t) == (t + p.carry) - 3 * CarryFrom(p, t)

LEMMA CarriedIntoIs ==
  ASSUME NEW p, NEW t
  PROVE  CarriedInto(p, t, "unit", 3)
           = [digits |-> Append(p.digits, DigitLeft(p, t)), carry |-> CarryFrom(p, t)]
<1>1. CarriedInto(p, t, "unit", 3) = Kept(p.digits, t + p.carry, CarryFrom(p, t), 3)
  BY Zenon DEF CarriedInto, CarryFrom
<1> QED
  BY <1>1, Zenon DEF DigitLeft, Kept

LEMMA RippleFacts ==
  ASSUME NEW n \in Nat, NEW s \in [1 .. n -> -2 .. 2]
  PROVE  \E C : Rippled(Ripple(s, "unit", 3).digits, C, s, n) /\ Ripple(s, "unit", 3).carry = C[n]
<1> DEFINE start == [digits |-> <<>>, carry |-> 0]
           step == [q \in (1 .. n) \X Places |-> CarriedInto(q[2], s[q[1]], "unit", 3)]
           Body(g) == [i \in 0 .. n |-> IF i = 0 THEN start ELSE CarriedInto(g[i - 1], s[i], "unit", 3)]
           Done == CHOOSE g : g = Body(g)
<1>1. ASSUME NEW p \in Places, NEW t \in -2 .. 2
      PROVE  LET c == Carry("unit", t + p.carry, 3)
             IN  /\ CarriedInto(p, t, "unit", 3)
                      = [digits |-> Append(p.digits, t + p.carry - 3 * c), carry |-> c]
                 /\ c \in Trit /\ t + p.carry - 3 * c \in Trit
                 /\ CarriedInto(p, t, "unit", 3) \in Places
  <2> DEFINE c == Carry("unit", t + p.carry, 3)
             r == t + p.carry - 3 * c
  <2>1. p.carry \in Trit /\ p.digits \in Seq(Trit)
    BY DEF Places
  <2>2. c \in Trit /\ r \in Trit
    BY <2>1, UnitCarryFacts
  <2>3. CarriedInto(p, t, "unit", 3) = [digits |-> Append(p.digits, r), carry |-> c]
    <3>1. CarryFrom(p, t) = c
      BY DEF CarryFrom
    <3> HIDE DEF c
    <3>2. p.carry \in Int /\ c \in Int
      BY <2>1, <2>2 DEF Trit
    <3>3. DigitLeft(p, t) = r
      BY <3>1, <3>2 DEF DigitLeft
    <3> QED
      BY <3>1, <3>3, CarriedIntoIs, Zenon
  <2> HIDE DEF c, r
  <2>4. Append(p.digits, r) \in Seq(Trit)
    BY <2>1, <2>2, AppendProperties
  <2>5. [digits |-> Append(p.digits, r), carry |-> c] \in Places
    BY <2>2, <2>4 DEF Places
  <2> QED
    BY <2>2, <2>3, <2>5 DEF c, r
<1>2. start \in Places
  BY EmptySeq DEF Places, Trit
<1>3. \A i \in 1 .. n : s[i] \in -2 .. 2
  OBVIOUS
<1>4. StepsIn(step, n, Places)
  BY <1>1, <1>3 DEF StepsIn
<1>5. Len(s) = n
  BY DigitsAreSeq
<1>6. Ripple(s, "unit", 3) = Done[n]
  BY <1>5 DEF Ripple
<1> HIDE DEF step, Body, Done, start
<1>7. PICK g : IsRun(g, start, step, n, Places)
  BY <1>2, <1>4, Iterates
<1>8. g = Body(g)
  <2>1. ASSUME NEW i \in 1 .. n
        PROVE  g[i] = CarriedInto(g[i - 1], s[i], "unit", 3)
    <3>1. g[i] = step[<<i, g[i - 1]>>] /\ g[i - 1] \in Places
      BY <1>7 DEF IsRun
    <3> QED
      BY <3>1 DEF step
  <2> QED
    BY <1>7, <2>1 DEF Body, IsRun
<1>9. Done = Body(Done)
  BY <1>8 DEF Done
<1>10. Done[0] = start /\ \A i \in 1 .. n : Done[i] = CarriedInto(Done[i - 1], s[i], "unit", 3)
  BY <1>9 DEF Body
<1> DEFINE C == [i \in 0 .. n |-> Done[i].carry]
           Upto(p, i) == /\ p \in Places /\ Len(p.digits) = i
                         /\ \A j \in 1 .. i : p.digits[j] = s[j] + C[j - 1] - 3 * C[j]
           T == {i \in 0 .. n : Upto(Done[i], i)}
<1>11. \A i \in 0 .. n : C[i] = Done[i].carry
  OBVIOUS
<1> HIDE DEF C
<1>12. 0 \in T
  BY <1>2, <1>10 DEF start
<1>13. ASSUME NEW i \in 0 .. n - 1, i \in T
       PROVE  i + 1 \in T
  <2> DEFINE p == Done[i]
             q == Done[i + 1]
             c == Carry("unit", s[i + 1] + p.carry, 3)
  <2>1. i + 1 \in 1 .. n /\ (i + 1) - 1 = i /\ i \in 0 .. n /\ i + 1 \in 0 .. n
    OBVIOUS
  <2>2. q = CarriedInto(p, s[i + 1], "unit", 3)
    BY <1>10, <2>1
  <2>3. Upto(p, i)
    BY <1>13
  <2>4. /\ q = [digits |-> Append(p.digits, s[i + 1] + p.carry - 3 * c), carry |-> c]
        /\ s[i + 1] + p.carry - 3 * c \in Trit /\ q \in Places
    BY <1>1, <1>3, <2>1, <2>2, <2>3
  <2>5. C[i] = p.carry /\ C[i + 1] = q.carry
    BY <1>11, <2>1
  <2> HIDE DEF p, q, c
  <2>6. /\ Len(q.digits) = i + 1 /\ q.digits[i + 1] = s[i + 1] + C[i] - 3 * C[i + 1]
        /\ \A j \in 1 .. i : q.digits[j] = p.digits[j]
    <3>1. p.digits \in Seq(Trit) /\ Len(p.digits) = i
      BY <2>3 DEF Places
    <3>2. q.digits = Append(p.digits, s[i + 1] + p.carry - 3 * c) /\ q.carry = c
      BY <2>4
    <3>3. /\ Len(q.digits) = i + 1 /\ q.digits[i + 1] = s[i + 1] + p.carry - 3 * c
          /\ \A j \in 1 .. i : q.digits[j] = p.digits[j]
      BY <2>4, <3>1, <3>2, AppendProperties
    <3> QED
      BY <2>5, <3>2, <3>3
  <2>7. ASSUME NEW j \in 1 .. i + 1
        PROVE  q.digits[j] = s[j] + C[j - 1] - 3 * C[j]
    <3>1. CASE j = i + 1
      BY <2>1, <2>6, <3>1
    <3>2. CASE j \in 1 .. i
      BY <2>3, <2>6, <3>2
    <3> QED
      BY <3>1, <3>2
  <2> QED
    BY <2>1, <2>4, <2>6, <2>7 DEF q
<1> HIDE DEF T
<1>14. 0 .. n \subseteq T
  BY <1>12, <1>13, UpTo
<1>15. \A i \in 0 .. n : Upto(Done[i], i)
  BY <1>14 DEF T
<1>16. C[0] = 0 /\ C[n] = Done[n].carry /\ \A i \in 0 .. n : C[i] \in Trit
  <2>1. \A i \in 0 .. n : Done[i].carry \in Trit
    BY <1>15 DEF Places
  <2>2. Done[0].carry = 0
    BY <1>10 DEF start
  <2>3. 0 \in 0 .. n /\ n \in 0 .. n
    OBVIOUS
  <2> QED
    BY <1>11, <2>1, <2>2, <2>3
<1>17. Done[n].digits \in Trits(n)
  <2>1. Upto(Done[n], n)
    BY <1>15
  <2>2. Done[n].digits \in Seq(Trit) /\ Len(Done[n].digits) = n
    BY <2>1 DEF Places
  <2> QED
    BY <2>2 DEF Trits
<1>18. \A i \in 1 .. n : Done[n].digits[i] = s[i] + C[i - 1] - 3 * C[i]
  BY <1>15
<1> QED
  BY <1>6, <1>16, <1>17, <1>18 DEF Rippled

(* A carry out of the highest place means that there is no room.           *)
LEMMA RippledValue ==
  ASSUME NEW n \in Nat, NEW x \in Trits(n), NEW y \in Trits(n), NEW s, NEW d, NEW C,
         \A i \in 1 .. n : s[i] = x[i] + y[i], Rippled(d, C, s, n)
  PROVE  IF C[n] = 0 THEN IntValue(d) = IntValue(x) + IntValue(y)
                     ELSE Absolute(IntValue(x) + IntValue(y)) > MaxValue(n)
<1>1. PICK V : Tails(V, x, n) /\ IntValue(x) = V[1]
  BY NumeralTails, TritsAreInts
<1>2. PICK W : Tails(W, y, n) /\ IntValue(y) = W[1]
  BY NumeralTails, TritsAreInts
<1>3. PICK D : Tails(D, d, n) /\ IntValue(d) = D[1]
  BY NumeralTails, TritsAreInts DEF Rippled
<1>4. PICK H : Tails(H, Ones(n), n) /\ MaxValue(n) = H[1]
  BY MaxTails
<1>5. C[n] \in {-1, 0, 1} /\ C[0] = 0
  BY DEF Rippled, Trit
<1> DEFINE T == {i \in 1 .. n + 1 :
                   V[i] + W[i] + C[i - 1] = D[i] + C[n] * (2 * H[i] + 1)}
<1>6. n + 1 \in T
  <2>1. V[n + 1] = 0 /\ W[n + 1] = 0 /\ D[n + 1] = 0 /\ H[n + 1] = 0 /\ (n + 1) - 1 = n
    BY <1>1, <1>2, <1>3, <1>4 DEF Tails
  <2> QED
    BY <1>5, <2>1
<1>7. ASSUME NEW i \in 1 .. n, i + 1 \in T
      PROVE  i \in T
  <2>1. i + 1 \in 1 .. n + 1 /\ i - 1 \in 0 .. n /\ (i + 1) - 1 = i /\ i \in 0 .. n /\ Ones(n)[i] = 1
    BY DEF Ones
  <2>2. /\ V[i] = x[i] + 3 * V[i + 1] /\ W[i] = y[i] + 3 * W[i + 1]
        /\ D[i] = d[i] + 3 * D[i + 1] /\ H[i] = 1 + 3 * H[i + 1]
        /\ V[i + 1] \in Int /\ W[i + 1] \in Int /\ D[i + 1] \in Int /\ H[i + 1] \in Int
    BY <1>1, <1>2, <1>3, <1>4, <2>1 DEF Tails
  <2>3. d[i] = x[i] + y[i] + C[i - 1] - 3 * C[i] /\ x[i] \in Int /\ y[i] \in Int
        /\ C[i] \in Int /\ C[i - 1] \in Int
    <3>1. x[i] \in Trit /\ y[i] \in Trit
      BY TritsAreInts
    <3>2. /\ C[i] \in Trit /\ C[i - 1] \in Trit
          /\ d[i] = s[i] + C[i - 1] - 3 * C[i] /\ s[i] = x[i] + y[i]
      BY <2>1 DEF Rippled
    <3> QED
      BY <3>1, <3>2 DEF Trit
  <2>4. V[i + 1] + W[i + 1] + C[i] = D[i + 1] + C[n] * (2 * H[i + 1] + 1)
    BY <1>7, <2>1
  <2>5. V[i] + W[i] + C[i - 1] = d[i] + 3 * (V[i + 1] + W[i + 1] + C[i])
    BY <2>2, <2>3
  <2>6. V[i] + W[i] + C[i - 1] = D[i] + 3 * (C[n] * (2 * H[i + 1] + 1))
    BY <1>5, <2>2, <2>3, <2>4, <2>5
  <2>7. 3 * (C[n] * (2 * H[i + 1] + 1)) = C[n] * (2 * H[i] + 1)
    BY <1>5, <2>2
  <2> QED
    BY <2>6, <2>7
<1> HIDE DEF T
<1>8. 1 .. n + 1 \subseteq T /\ 1 \in 1 .. n + 1 /\ 1 - 1 = 0
  BY <1>6, <1>7, DownTo
<1>9. V[1] + W[1] + 0 = D[1] + C[n] * (2 * H[1] + 1)
  BY <1>5, <1>8 DEF T
<1>10. /\ D[1] \in Int /\ V[1] \in Int /\ W[1] \in Int /\ H[1] \in Nat
       /\ -H[1] <= D[1] /\ D[1] <= H[1]
  <2>1. D[1] \in Int /\ MaxValue(n) \in Nat /\ Absolute(D[1]) <= MaxValue(n)
    BY <1>3, ValueBounds DEF Rippled
  <2> QED
    BY <1>1, <1>2, <1>4, <1>8, <2>1 DEF Tails, Absolute
<1> QED
  BY <1>1, <1>2, <1>3, <1>4, <1>5, <1>9, <1>10 DEF Absolute

(* operator+ gives the sum, or throws when the width has no room for it,   *)
(* and only then; likewise the difference.                                 *)
THEOREM PlusExact ==
  ASSUME NEW n \in Nat \ {0}, NEW x \in Trits(n), NEW y \in Trits(n)
  PROVE  LET sum == IntValue(x) + IntValue(y)
         IN  IF Absolute(sum) <= MaxValue(n)
             THEN Plus(x, y) \in Trits(n) /\ IntValue(Plus(x, y)) = sum
             ELSE Plus(x, y) = Overflowed
<1> DEFINE s == [i \in DOMAIN x |-> x[i] + y[i]]
           r == Ripple(s, "unit", 3)
<1>1. DOMAIN x = 1 .. n /\ Overflowed \notin {x, y}
  <2>1. DOMAIN x = 1 .. n /\ DOMAIN y = 1 .. n /\ 1 \in 1 .. n
    BY DEF Trits
  <2>2. DOMAIN Overflowed = {}
    BY DEF Overflowed
  <2> QED
    BY <2>1, <2>2
<1>2. s \in [1 .. n -> -2 .. 2] /\ \A i \in 1 .. n : s[i] = x[i] + y[i]
  <2>1. ASSUME NEW i \in 1 .. n
        PROVE  x[i] + y[i] \in -2 .. 2
    <3>1. x[i] \in {-1, 0, 1} /\ y[i] \in {-1, 0, 1}
      BY DEF Trits, Trit
    <3> QED
      BY <3>1
  <2> QED
    BY <1>1, <2>1
<1>3. Plus(x, y) = IF r.carry # 0 THEN Overflowed ELSE r.digits
  BY <1>1 DEF Plus, WithoutCarry
<1> HIDE DEF s, r
<1>4. PICK C : Rippled(r.digits, C, s, n) /\ r.carry = C[n]
  BY <1>2, RippleFacts DEF r
<1>5. IF C[n] = 0 THEN IntValue(r.digits) = IntValue(x) + IntValue(y)
                  ELSE Absolute(IntValue(x) + IntValue(y)) > MaxValue(n)
  BY <1>2, <1>4, RippledValue
<1>6. r.digits \in Trits(n)
  BY <1>4 DEF Rippled
<1>7. /\ MaxValue(n) \in Nat /\ IntValue(x) \in Int /\ IntValue(y) \in Int
      /\ Absolute(IntValue(r.digits)) <= MaxValue(n)
  BY <1>6, ValueBounds
<1> QED
  BY <1>3, <1>4, <1>5, <1>6, <1>7 DEF Absolute

(* operator- adds the negation: the difference is exact, or has no room.   *)
THEOREM MinusExact ==
  ASSUME NEW n \in Nat \ {0}, NEW x \in Trits(n), NEW y \in Trits(n)
  PROVE  LET difference == IntValue(x) - IntValue(y)
         IN  IF Absolute(difference) <= MaxValue(n)
             THEN Minus(x, y) \in Trits(n) /\ IntValue(Minus(x, y)) = difference
             ELSE Minus(x, y) = Overflowed
<1>1. Negated(y) \in Trits(n) /\ IntValue(Negated(y)) = -IntValue(y)
  BY NegatedValue
<1>2. IntValue(x) + (-IntValue(y)) = IntValue(x) - IntValue(y)
  BY ValueBounds
<1> QED
  BY <1>1, <1>2, PlusExact DEF Minus

(***************************************************************************)
(* Words *)

LeftAfter(u) == u \div 3 + (IF u % 3 = 2 THEN 1 ELSE 0)
DigitOf(u) == IF u % 3 = 2 THEN -1 ELSE u % 3

(* What one division by 3 takes away and leaves.                           *)
LEMMA DividedByThree ==
  ASSUME NEW u \in Nat
  PROVE  DigitOf(u) \in Trit /\ LeftAfter(u) \in Nat /\ u = DigitOf(u) + 3 * LeftAfter(u)
<1>1. u % 3 \in {0, 1, 2} /\ u \div 3 \in Nat /\ u = 3 * (u \div 3) + (u % 3)
  OBVIOUS
<1> QED
  BY <1>1 DEF DigitOf, LeftAfter, Trit

LEMMA DivisionFacts ==
  ASSUME NEW n \in Nat, NEW v \in Int
  PROVE  \E G : /\ G \in [0 .. n -> Nat] /\ G[0] = Absolute(v)
                /\ \A i \in 1 .. n : G[i] = LeftAfter(G[i - 1])
                /\ FromWord(v, n)
                     = IF G[n] # 0 THEN Overflowed
                       ELSE [i \in 1 .. n |-> IF v < 0 THEN -DigitOf(G[i - 1]) ELSE DigitOf(G[i - 1])]
<1> DEFINE step == [q \in (1 .. n) \X Nat |-> LeftAfter(q[2])]
           Body(g) == [i \in 0 .. n |-> IF i = 0 THEN Absolute(v) ELSE LeftAfter(g[i - 1])]
           Left == CHOOSE g : g = Body(g)
<1>1. Absolute(v) \in Nat
  BY DEF Absolute
<1>2. StepsIn(step, n, Nat)
  BY DividedByThree DEF StepsIn
<1>3. FromWord(v, n)
        = IF Left[n] # 0 THEN Overflowed
          ELSE [i \in 1 .. n |-> IF v < 0 THEN -DigitOf(Left[i - 1]) ELSE DigitOf(Left[i - 1])]
  BY Zenon DEF FromWord, LeftAfter, DigitOf
<1> HIDE DEF step, Body, Left
<1>4. PICK g : IsRun(g, Absolute(v), step, n, Nat)
  BY <1>1, <1>2, Iterates
<1>5. g = Body(g)
  <2>1. ASSUME NEW i \in 1 .. n
        PROVE  g[i] = LeftAfter(g[i - 1])
    <3>1. g[i] = step[<<i, g[i - 1]>>] /\ g[i - 1] \in Nat
      BY <1>4 DEF IsRun
    <3> QED
      BY <3>1 DEF step
  <2> QED
    BY <1>4, <2>1 DEF Body, IsRun
<1>6. Left = Body(Left)
  BY <1>5 DEF Left
<1>7. Left[0] = Absolute(v) /\ \A i \in 1 .. n : Left[i] = LeftAfter(Left[i - 1])
  BY <1>6 DEF Body
<1> DEFINE T == {i \in 0 .. n : Left[i] \in Nat}
<1>8. 0 \in T
  BY <1>1, <1>7
<1>9. ASSUME NEW i \in 0 .. n - 1, i \in T
      PROVE  i + 1 \in T
  <2>1. i + 1 \in 1 .. n /\ (i + 1) - 1 = i /\ Left[i] \in Nat
    BY <1>9
  <2> QED
    BY <1>7, <2>1, DividedByThree
<1> HIDE DEF T
<1>10. 0 .. n \subseteq T
  BY <1>8, <1>9, UpTo
<1>11. \A i \in 0 .. n : Left[i] \in Nat
  BY <1>10 DEF T
<1>12. Left \in [0 .. n -> Nat]
  BY <1>6, <1>11 DEF Body
<1> QED
  BY <1>3, <1>7, <1>12

(* The modulus of one place more.                                          *)
LEMMA Tripled ==
  ASSUME NEW k \in Int, NEW h \in Int, NEW g, g = 1 + 3 * h
  PROVE  /\ 3 * (k * (2 * h + 1)) = k * (2 * g + 1)
         /\ k * (2 * h + 1) \in Int /\ k * (2 * g + 1) \in Int
<1> DEFINE e == 2 * h + 1
<1>1. e \in Int /\ 2 * g + 1 = 3 * e
  OBVIOUS
<1> HIDE DEF e
<1>2. k * e \in Int /\ 3 * (k * e) = k * (3 * e)
  BY <1>1
<1> QED
  BY <1>1, <1>2 DEF e

(* The digits found, and what is left over, make up the word.              *)
LEMMA DivisionValue ==
  ASSUME NEW n \in Nat, NEW v \in Nat, NEW G, \A i \in 0 .. n : G[i] \in Nat, G[0] = v,
         \A i \in 1 .. n : G[i] = LeftAfter(G[i - 1]),
         NEW x \in Trits(n), \A i \in 1 .. n : x[i] = DigitOf(G[i - 1])
  PROVE  v = IntValue(x) + G[n] * (2 * MaxValue(n) + 1)
<1>1. PICK V : Tails(V, x, n) /\ IntValue(x) = V[1]
  BY NumeralTails, TritsAreInts
<1>2. PICK H : Tails(H, Ones(n), n) /\ MaxValue(n) = H[1]
  BY MaxTails
<1> DEFINE L == G[n]
           T == {i \in 1 .. n + 1 : G[i - 1] = V[i] + L * (2 * H[i] + 1)}
<1>3. L \in Nat
  OBVIOUS
<1> HIDE DEF L
<1>4. n + 1 \in T
  <2>1. V[n + 1] = 0 /\ H[n + 1] = 0 /\ (n + 1) - 1 = n
    BY <1>1, <1>2 DEF Tails
  <2>2. L * (2 * 0 + 1) = L
    BY <1>3
  <2> QED
    BY <1>3, <2>1, <2>2 DEF L
<1>5. ASSUME NEW i \in 1 .. n, i + 1 \in T
      PROVE  i \in T
  <2>1. i + 1 \in 1 .. n + 1 /\ i - 1 \in 0 .. n /\ (i + 1) - 1 = i /\ Ones(n)[i] = 1
    BY DEF Ones
  <2>2. /\ V[i] = x[i] + 3 * V[i + 1] /\ H[i] = 1 + 3 * H[i + 1]
        /\ V[i + 1] \in Int /\ H[i + 1] \in Int
    BY <1>1, <1>2, <2>1 DEF Tails
  <2>3. G[i - 1] = x[i] + 3 * G[i] /\ x[i] \in Int /\ G[i] \in Int
    <3>1. G[i - 1] \in Nat /\ G[i] = LeftAfter(G[i - 1]) /\ x[i] = DigitOf(G[i - 1])
      BY <2>1
    <3>2. G[i - 1] = DigitOf(G[i - 1]) + 3 * LeftAfter(G[i - 1])
      BY <3>1, DividedByThree
    <3> QED
      BY <3>1, <3>2, TritsAreInts
  <2>4. G[i] = V[i + 1] + L * (2 * H[i + 1] + 1)
    BY <1>5, <2>1
  <2> DEFINE a == L * (2 * H[i + 1] + 1)
             b == L * (2 * H[i] + 1)
  <2>5. 3 * a = b /\ a \in Int /\ b \in Int
    <3>1. L \in Int
      BY <1>3
    <3>2. H[i + 1] \in Int /\ H[i] = 1 + 3 * H[i + 1]
      BY <2>2
    <3> QED
      BY ONLY <3>1, <3>2, Tripled
  <2> HIDE DEF a, b
  <2>6. G[i] = V[i + 1] + a
    BY <2>4 DEF a
  <2>7. G[i - 1] = V[i] + L * (2 * H[i] + 1)
    <3>1. G[i - 1] = V[i] + b
      BY ONLY <2>2, <2>3, <2>5, <2>6
    <3> QED
      BY <3>1 DEF b
  <2> QED
    BY <2>7
<1> HIDE DEF T
<1>6. 1 .. n + 1 \subseteq T
  <2>1. n \in Nat
    OBVIOUS
  <2> QED
    BY ONLY <1>4, <1>5, <2>1, DownTo
<1>7. 1 \in T
  BY <1>6
<1> QED
  BY <1>1, <1>2, <1>7 DEF T, L

(* A machine word becomes the integer it stands for, or is refused: it is  *)
(* refused exactly when N trits have no room for it.                       *)
THEOREM FromWordExact ==
  ASSUME NEW n \in Nat, NEW v \in Int
  PROVE  IF Absolute(v) <= MaxValue(n)
         THEN FromWord(v, n) \in Trits(n) /\ IntValue(FromWord(v, n)) = v
         ELSE FromWord(v, n) = Overflowed
<1>1. PICK G : /\ G \in [0 .. n -> Nat] /\ G[0] = Absolute(v)
               /\ \A i \in 1 .. n : G[i] = LeftAfter(G[i - 1])
               /\ FromWord(v, n)
                    = IF G[n] # 0 THEN Overflowed
                      ELSE [i \in 1 .. n |-> IF v < 0 THEN -DigitOf(G[i - 1]) ELSE DigitOf(G[i - 1])]
  BY DivisionFacts
<1> DEFINE x == [i \in 1 .. n |-> DigitOf(G[i - 1])]
           h == MaxValue(n)
<1>2. \A i \in 1 .. n : G[i - 1] \in Nat
  BY <1>1
<1>3. x \in Trits(n) /\ \A i \in 1 .. n : x[i] = DigitOf(G[i - 1])
  BY <1>2, DividedByThree DEF Trits
<1>4. FromWord(v, n) = IF G[n] # 0 THEN Overflowed ELSE IF v < 0 THEN Negated(x) ELSE x
  BY <1>1, Zenon DEF Negated
<1> HIDE DEF x
<1>5. Absolute(v) \in Nat /\ G[n] \in Nat
  BY <1>1 DEF Absolute
<1>6. Absolute(v) = IntValue(x) + G[n] * (2 * h + 1)
  BY <1>1, <1>3, <1>5, DivisionValue
<1>7. h \in Nat /\ IntValue(x) \in Int /\ Absolute(IntValue(x)) <= h
  BY <1>3, ValueBounds
<1> HIDE DEF h
<1>8. CASE G[n] = 0
  <2>1. IntValue(x) = Absolute(v)
    BY <1>6, <1>7, <1>8
  <2>2. Absolute(v) <= h
    BY <1>5, <1>7, <2>1 DEF Absolute
  <2>3. Negated(x) \in Trits(n) /\ IntValue(Negated(x)) = -IntValue(x)
    BY <1>3, NegatedValue
  <2> QED
    BY <1>3, <1>4, <1>8, <2>1, <2>2, <2>3 DEF Absolute, h
<1>9. CASE G[n] # 0
  <2>1. G[n] - 1 \in Nat /\ 2 * h + 1 \in Nat
    BY <1>5, <1>7, <1>9
  <2>2. (G[n] - 1) * (2 * h + 1) \in Nat
    BY <2>1
  <2>3. G[n] * (2 * h + 1) = (G[n] - 1) * (2 * h + 1) + 2 * h + 1
    BY <1>5, <1>7
  <2>4. -h <= IntValue(x)
    BY <1>7 DEF Absolute
  <2>5. Absolute(v) > h
    BY <1>5, <1>6, <1>7, <2>1, <2>2, <2>3, <2>4
  <2> QED
    BY <1>4, <1>5, <1>7, <1>9, <2>5 DEF h
<1> QED
  BY <1>8, <1>9

(***************************************************************************)
(* Products *)

(* a and b differ by a multiple of m.                                      *)
Congruent(a, b, m) == \E k \in Int : a = b + k * m
Modulus(n) == 2 * MaxValue(n) + 1

(* A shift by one place makes three times the number, but for the highest  *)
(* trit, which is lost.                                                    *)
LEMMA ShiftedByOne ==
  ASSUME NEW n \in Nat \ {0}, NEW z \in Trits(n)
  PROVE  /\ ShiftedLeft(z, 1) \in Trits(n)
         /\ IntValue(ShiftedLeft(z, 1)) = 3 * IntValue(z) - z[n] * Modulus(n)
<1> DEFINE u == ShiftedLeft(z, 1)
           c == z[n]
<1>1. /\ u \in Trits(n) /\ u[1] = 0 /\ \A i \in 1 .. n : i > 1 => u[i] = z[i - 1]
      /\ c \in {-1, 0, 1}
  <2>1. DOMAIN z = 1 .. n /\ 1 \in 1 .. n /\ n \in 1 .. n /\ \A i \in 1 .. n : z[i] \in Trit
    BY DEF Trits
  <2>2. u = [i \in 1 .. n |-> IF i > 1 THEN z[i - 1] ELSE 0]
    BY <2>1 DEF ShiftedLeft
  <2>3. \A i \in 1 .. n : i > 1 => i - 1 \in 1 .. n
    OBVIOUS
  <2>4. \A i \in 1 .. n : (IF i > 1 THEN z[i - 1] ELSE 0) \in Trit
    BY <2>1, <2>3 DEF Trit
  <2> QED
    BY <2>1, <2>2, <2>4 DEF Trits, Trit
<1> HIDE DEF u, c
<1>2. PICK V : Tails(V, z, n) /\ IntValue(z) = V[1]
  BY NumeralTails, TritsAreInts
<1>3. PICK U : Tails(U, u, n) /\ IntValue(u) = U[1]
  BY <1>1, NumeralTails, TritsAreInts
<1>4. PICK H : Tails(H, Ones(n), n) /\ MaxValue(n) = H[1]
  BY MaxTails
<1> DEFINE Above(i) == IF i > 1 THEN V[i - 1] ELSE 3 * V[1]
           T == {i \in 1 .. n + 1 : U[i] = Above(i) - c * (2 * H[i] + 1)}
<1>5. n + 1 \in T
  <2>1. U[n + 1] = 0 /\ H[n + 1] = 0 /\ V[n] = c + 3 * V[n + 1] /\ V[n + 1] = 0
    BY <1>2, <1>3, <1>4 DEF Tails, c
  <2>2. Above(n + 1) = c /\ c * (2 * 0 + 1) = c
    BY <1>1, <2>1
  <2> QED
    BY <1>1, <2>1, <2>2
<1>6. ASSUME NEW i \in 1 .. n, i + 1 \in T
      PROVE  i \in T
  <2>1. i + 1 \in 1 .. n + 1 /\ Ones(n)[i] = 1 /\ (i + 1) - 1 = i
    BY DEF Ones
  <2>2. /\ V[i] \in Int /\ U[i] = u[i] + 3 * U[i + 1] /\ H[i] = 1 + 3 * H[i + 1] /\ H[i + 1] \in Int
        /\ U[i + 1] = V[i] - c * (2 * H[i + 1] + 1)
    BY <1>2, <1>3, <1>4, <1>6, <2>1 DEF Tails
  <2> DEFINE a == c * (2 * H[i + 1] + 1)
             b == c * (2 * H[i] + 1)
  <2>3. 3 * a = b /\ a \in Int /\ b \in Int
    <3>1. c \in Int
      BY <1>1
    <3> QED
      BY <3>1, <2>2, Tripled
  <2> HIDE DEF a, b
  <2>4. Above(i) = u[i] + 3 * V[i]
    <3>1. CASE i > 1
      <4>1. i - 1 \in 1 .. n /\ (i - 1) + 1 = i /\ u[i] = z[i - 1]
        BY <1>1, <3>1
      <4>2. V[i - 1] = z[i - 1] + 3 * V[(i - 1) + 1]
        BY <1>2, <4>1 DEF Tails
      <4> QED
        BY <3>1, <4>1, <4>2
    <3>2. CASE i = 1
      BY <1>1, <2>2, <3>2
    <3> QED
      BY <3>1, <3>2
  <2>5. u[i] \in Int /\ U[i + 1] = V[i] - a
    BY <1>1, <2>2, TritsAreInts DEF a
  <2>6. U[i] = Above(i) - c * (2 * H[i] + 1)
    <3> HIDE DEF Above
    <3>1. U[i] = Above(i) - b
      BY <2>2, <2>3, <2>4, <2>5
    <3> QED
      BY <3>1 DEF b
  <2> QED
    BY <2>6
<1>7. Above(1) = 3 * V[1]
  OBVIOUS
<1> HIDE DEF T, Above
<1>8. 1 .. n + 1 \subseteq T /\ 1 \in 1 .. n + 1
  BY <1>5, <1>6, DownTo
<1> QED
  BY <1>1, <1>2, <1>3, <1>4, <1>7, <1>8 DEF T, u, c, Modulus

LEMMA ShiftedFacts ==
  ASSUME NEW n \in Nat, NEW x \in Trits(n)
  PROVE  /\ ShiftedLeft(x, 0) = x
         /\ \A k \in Nat :
              /\ ShiftedLeft(x, k) \in Trits(n)
              /\ ShiftedLeft(Negated(x), k) = Negated(ShiftedLeft(x, k))
              /\ ShiftedLeft(x, k + 1) = ShiftedLeft(ShiftedLeft(x, k), 1)
<1>1. DOMAIN x = 1 .. n /\ \A i \in 1 .. n : x[i] \in Int /\ x[i] \in Trit
  BY TritsAreInts DEF Trits
<1>2. ShiftedLeft(x, 0) = x
  <2>1. ShiftedLeft(x, 0) = [i \in 1 .. n |-> x[i]]
    BY <1>1 DEF ShiftedLeft
  <2> QED
    BY <2>1 DEF Trits
<1>3. ASSUME NEW k \in Nat
      PROVE  /\ ShiftedLeft(x, k) \in Trits(n)
             /\ ShiftedLeft(Negated(x), k) = Negated(ShiftedLeft(x, k))
             /\ ShiftedLeft(x, k + 1) = ShiftedLeft(ShiftedLeft(x, k), 1)
  <2> DEFINE u == ShiftedLeft(x, k)
  <2>1. u = [i \in 1 .. n |-> IF i > k THEN x[i - k] ELSE 0]
    BY <1>1 DEF ShiftedLeft
  <2>2. \A i \in 1 .. n : i > k => i - k \in 1 .. n
    OBVIOUS
  <2>3. u \in Trits(n)
    <3>1. \A i \in 1 .. n : (IF i > k THEN x[i - k] ELSE 0) \in Trit
      BY <1>1, <2>2 DEF Trit
    <3> QED
      BY <2>1, <3>1 DEF Trits
  <2>4. ShiftedLeft(Negated(x), k) = [i \in 1 .. n |-> IF i > k THEN -x[i - k] ELSE 0]
    <3>1. DOMAIN Negated(x) = 1 .. n /\ \A i \in 1 .. n : Negated(x)[i] = -x[i]
      BY <1>1 DEF Negated
    <3> QED
      BY <2>2, <3>1 DEF ShiftedLeft
  <2>5. Negated(u) = [i \in 1 .. n |-> -u[i]]
    BY <2>1 DEF Negated
  <2>6. ASSUME NEW i \in 1 .. n
        PROVE  -u[i] = IF i > k THEN -x[i - k] ELSE 0
    BY <2>1
  <2>7. ShiftedLeft(u, 1) = [i \in 1 .. n |-> IF i > 1 THEN u[i - 1] ELSE 0]
    BY <2>1 DEF ShiftedLeft
  <2>8. ShiftedLeft(x, k + 1) = [i \in 1 .. n |-> IF i > k + 1 THEN x[i - (k + 1)] ELSE 0]
    BY <1>1 DEF ShiftedLeft
  <2>9. ASSUME NEW i \in 1 .. n
        PROVE  (IF i > 1 THEN u[i - 1] ELSE 0) = IF i > k + 1 THEN x[i - (k + 1)] ELSE 0
    <3>1. CASE i > 1
      <4>1. i - 1 \in 1 .. n /\ (i - 1) - k = i - (k + 1) /\ ((i - 1) > k <=> i > k + 1)
        BY <3>1
      <4> QED
        BY <2>1, <3>1, <4>1
    <3>2. CASE ~(i > 1)
      BY <3>2
    <3> QED
      BY <3>1, <3>2
  <2> HIDE DEF u
  <2>10. Negated(u) = ShiftedLeft(Negated(x), k)
    BY <2>4, <2>5, <2>6
  <2>11. ShiftedLeft(u, 1) = ShiftedLeft(x, k + 1)
    BY <2>7, <2>8, <2>9
  <2> QED
    BY <2>3, <2>10, <2>11 DEF u
<1> QED
  BY <1>2, <1>3

Outcomes(n) == Trits(n) \cup {Overflowed}
AddedShift(x, y, p, i) ==
  IF y[i] = 0 THEN p ELSE Plus(p, ShiftedLeft(IF y[i] = 1 THEN x ELSE Negated(x), i - 1))

(* One trit of the second operand adds that many times the first, shifted. *)
LEMMA AddedShiftFacts ==
  ASSUME NEW n \in Nat \ {0}, NEW x \in Trits(n), NEW y \in Trits(n), NEW i \in 1 .. n
  PROVE  /\ AddedShift(x, y, Overflowed, i) = Overflowed
         /\ \A p \in Trits(n) :
              LET q == AddedShift(x, y, p, i)
              IN  \/ q = Overflowed
                  \/ /\ q \in Trits(n)
                     /\ IntValue(q) = IntValue(p) + y[i] * IntValue(ShiftedLeft(x, i - 1))
<1>1. AddedShift(x, y, Overflowed, i) = Overflowed
  BY DEF AddedShift, Plus
<1>2. ASSUME NEW p \in Trits(n)
      PROVE  LET q == AddedShift(x, y, p, i)
             IN  \/ q = Overflowed
                 \/ /\ q \in Trits(n)
                    /\ IntValue(q) = IntValue(p) + y[i] * IntValue(ShiftedLeft(x, i - 1))
  <2> DEFINE q == AddedShift(x, y, p, i)
             u == ShiftedLeft(x, i - 1)
  <2>1. i - 1 \in Nat /\ y[i] \in {-1, 0, 1}
    BY DEF Trits, Trit
  <2>2. u \in Trits(n) /\ ShiftedLeft(Negated(x), i - 1) = Negated(u)
    BY <2>1, ShiftedFacts
  <2>3. q = IF y[i] = 0 THEN p ELSE IF y[i] = 1 THEN Plus(p, u) ELSE Plus(p, Negated(u))
    BY <2>2 DEF AddedShift
  <2> HIDE DEF q, u
  <2>4. IntValue(p) \in Int /\ IntValue(u) \in Int
    BY <2>2, ValueBounds
  <2>5. CASE y[i] = 0
    <3>1. y[i] * IntValue(u) = 0
      BY <2>4, <2>5
    <3> QED
      BY <2>3, <2>4, <2>5, <3>1 DEF q, u
  <2>6. CASE y[i] = 1
    <3>1. y[i] * IntValue(u) = IntValue(u)
      BY <2>4, <2>6
    <3>2. q = Plus(p, u)
      BY <2>3, <2>6
    <3> QED
      BY <2>2, <3>1, <3>2, PlusExact DEF q, u
  <2>7. CASE y[i] = -1
    <3>1. y[i] * IntValue(u) = -IntValue(u)
      BY <2>4, <2>7
    <3>2. q = Plus(p, Negated(u))
      BY <2>3, <2>7
    <3>3. Negated(u) \in Trits(n) /\ IntValue(Negated(u)) = -IntValue(u)
      BY <2>2, NegatedValue
    <3> QED
      BY <3>1, <3>2, <3>3, PlusExact DEF q, u
  <2> QED
    BY <2>1, <2>5, <2>6, <2>7
<1> QED
  BY <1>1, <1>2

LEMMA TimesSums ==
  ASSUME NEW n \in Nat \ {0}, NEW x \in Trits(n), NEW y \in Trits(n)
  PROVE  \E Sum : /\ Times(x, y) = Sum[n] /\ Sum[0] = Zeros(n)
                  /\ \A i \in 1 .. n : Sum[i] = AddedShift(x, y, Sum[i - 1], i)
<1> DEFINE S == Outcomes(n)
           step == [q \in (1 .. n) \X S |-> AddedShift(x, y, q[2], q[1])]
           Body(g) == [i \in 0 .. n |-> IF i = 0 THEN Zeros(n) ELSE AddedShift(x, y, g[i - 1], i)]
           Sum == CHOOSE g : g = Body(g)
<1>1. Zeros(n) \in S
  BY ZerosValue DEF Outcomes
<1>2. StepsIn(step, n, S)
  <2>1. ASSUME NEW i \in 1 .. n, NEW p \in S
        PROVE  AddedShift(x, y, p, i) \in S
    BY AddedShiftFacts DEF Outcomes
  <2> QED
    BY <2>1 DEF StepsIn
<1>3. Len(x) = n /\ Len(y) = n /\ Overflowed \notin {x, y}
  <2>1. Len(x) = n /\ Len(y) = n
    BY DigitsAreSeq DEF Trits
  <2>2. Len(Overflowed) = 0
    BY DEF Overflowed
  <2> QED
    BY <2>1, <2>2
<1>4. Times(x, y) = Sum[n]
  BY <1>3, Zenon DEF Times, AddedShift
<1> HIDE DEF S, step, Body, Sum
<1>5. PICK g : IsRun(g, Zeros(n), step, n, S)
  BY <1>1, <1>2, Iterates
<1>6. g = Body(g)
  <2>1. ASSUME NEW i \in 1 .. n
        PROVE  g[i] = AddedShift(x, y, g[i - 1], i)
    <3>1. g[i] = step[<<i, g[i - 1]>>] /\ g[i - 1] \in S
      BY <1>5 DEF IsRun
    <3> QED
      BY <3>1 DEF step
  <2> QED
    BY <1>5, <2>1 DEF Body, IsRun
<1>7. Sum = Body(Sum)
  BY <1>6 DEF Sum
<1>8. Sum[0] = Zeros(n) /\ \A i \in 1 .. n : Sum[i] = AddedShift(x, y, Sum[i - 1], i)
  BY <1>7 DEF Body
<1> QED
  BY <1>4, <1>8

(* operator* throws, or gives the product but for multiples of 3^N         *)
(* (Modulus is 3^N): the trits that its shifts push out of the width are   *)
(* lost without a word.                                                    *)
THEOREM TimesCongruent ==
  ASSUME NEW n \in Nat \ {0}, NEW x \in Trits(n), NEW y \in Trits(n), Times(x, y) # Overflowed
  PROVE  /\ Times(x, y) \in Trits(n)
         /\ Congruent(IntValue(x) * IntValue(y), IntValue(Times(x, y)), Modulus(n))
<1> DEFINE product == IntValue(x) * IntValue(y)
           m == Modulus(n)
           Shifted(i) == IntValue(ShiftedLeft(x, i))
<1>1. PICK Sum : /\ Times(x, y) = Sum[n] /\ Sum[0] = Zeros(n)
                 /\ \A i \in 1 .. n : Sum[i] = AddedShift(x, y, Sum[i - 1], i)
  BY TimesSums
<1>2. PICK W : Tails(W, y, n) /\ IntValue(y) = W[1]
  BY NumeralTails, TritsAreInts
<1>3. IntValue(x) \in Int /\ IntValue(y) \in Int /\ m \in Int
  BY ValueBounds DEF Modulus
<1>4. \A i \in Nat : /\ Shifted(i) \in Int /\ ShiftedLeft(x, i) \in Trits(n)
                     /\ ShiftedLeft(x, i + 1) = ShiftedLeft(ShiftedLeft(x, i), 1)
  BY ShiftedFacts, ValueBounds
<1>5. product \in Int
  BY <1>3
<1> DEFINE Left(i) == IntValue(Sum[i]) + Shifted(i) * W[i + 1]
           T == {i \in 0 .. n : Sum[i] = Overflowed \/ (Sum[i] \in Trits(n) /\ Congruent(product, Left(i), m))}
<1>6. 0 \in T
  <2>1. Left(0) = 0 + IntValue(x) * W[1]
    BY <1>1, ZerosValue, ShiftedFacts
  <2>2. product = Left(0) + 0 * m
    BY <1>2, <1>3, <1>5, <2>1
  <2> QED
    BY <1>1, <2>2, ZerosValue DEF Congruent
<1> HIDE DEF product, m
<1>7. ASSUME NEW j \in 0 .. n - 1, j \in T
      PROVE  j + 1 \in T
  <2> DEFINE i == j + 1
             q == Sum[i]
             c == ShiftedLeft(x, j)[n]
  <2>1. i \in 1 .. n /\ i - 1 = j /\ j \in Nat /\ q = AddedShift(x, y, Sum[j], i)
    BY <1>1
  <2>2. CASE Sum[j] = Overflowed
    BY <2>1, <2>2, AddedShiftFacts
  <2>3. CASE q = Overflowed
    BY <2>3
  <2>4. CASE Sum[j] # Overflowed /\ q # Overflowed
    <3>1. Sum[j] \in Trits(n) /\ Congruent(product, Left(j), m)
      BY <1>7, <2>4
    <3>2. q \in Trits(n) /\ IntValue(q) = IntValue(Sum[j]) + y[i] * Shifted(j)
      BY <2>1, <2>4, <3>1, AddedShiftFacts
    <3>3. PICK k \in Int : product = Left(j) + k * m
      BY <3>1 DEF Congruent
    <3>4. W[i] = y[i] + 3 * W[i + 1] /\ y[i] \in Int /\ W[i + 1] \in Int
      <4>1. i + 1 \in 1 .. n + 1
        BY <2>1
      <4> QED
        BY <1>2, <2>1, <4>1, TritsAreInts DEF Tails
    <3>5. Shifted(i) = 3 * Shifted(j) - c * m /\ c \in Int
      <4>1. ShiftedLeft(x, j) \in Trits(n) /\ n \in 1 .. n
        BY <1>4, <2>1
      <4>2. c \in Int
        BY <4>1, TritsAreInts
      <4> QED
        BY <1>4, <2>1, <4>1, <4>2, ShiftedByOne DEF m
    <3>6. Shifted(j) \in Int /\ Shifted(i) \in Int /\ IntValue(q) \in Int /\ IntValue(Sum[j]) \in Int
      BY <1>4, <2>1, <3>1, <3>2, ValueBounds
    <3> DEFINE s == Shifted(j)
               w == W[i + 1]
    <3>7. Left(j) = IntValue(Sum[j]) + s * (y[i] + 3 * w) /\ Left(i) = IntValue(q) + (3 * s - c * m) * w
      BY <2>1, <3>4, <3>5
    <3> HIDE DEF s, w, c, q, i
    <3>8. s \in Int /\ w \in Int
      BY <3>4, <3>6 DEF s, w
    <3>9. s * (y[i] + 3 * w) = y[i] * s + 3 * (s * w)
      BY <3>4, <3>8
    <3>10. (3 * s - c * m) * w = 3 * (s * w) - (c * w) * m
      BY <1>3, <3>5, <3>8 DEF m
    <3>11. Left(j) = Left(i) + (c * w) * m
      BY <1>3, <3>2, <3>4, <3>5, <3>6, <3>7, <3>8, <3>9, <3>10 DEF s, m
    <3>12. Left(j) \in Int /\ Left(i) \in Int /\ c * w \in Int /\ k + c * w \in Int
      <4>1. c * w \in Int /\ Shifted(i) * w \in Int
        BY <3>5, <3>6, <3>8
      <4>2. Left(i) = IntValue(q) + Shifted(i) * w
        BY DEF q, w
      <4>3. (c * w) * m \in Int
        BY <1>3, <4>1 DEF m
      <4> QED
        BY <3>6, <3>11, <4>1, <4>2, <4>3
    <3>13. product = Left(i) + (k + c * w) * m
      BY <1>3, <3>3, <3>11, <3>12 DEF m
    <3>14. Congruent(product, Left(i), m)
      BY <3>12, <3>13 DEF Congruent
    <3> QED
      BY <2>1, <3>2, <3>14 DEF q, i
  <2> QED
    BY <2>2, <2>3, <2>4
<1> HIDE DEF T
<1>8. 0 .. n \subseteq T /\ n \in 0 .. n
  BY <1>6, <1>7, UpTo
<1>9. Sum[n] \in Trits(n) /\ Congruent(product, Left(n), m)
  BY <1>1, <1>8 DEF T
<1>10. Left(n) = IntValue(Sum[n])
  <2>1. W[n + 1] = 0 /\ Shifted(n) \in Int /\ IntValue(Sum[n]) \in Int
    BY <1>2, <1>4, <1>9, ValueBounds DEF Tails
  <2> QED
    BY <2>1
<1> QED
  BY <1>1, <1>9, <1>10 DEF product, m

-----------------------------------------------------------------------------
(* Quotients *)

Pairs(n) == Outcomes(n) \X Outcomes(n)

LEMMA OneIs ==
  ASSUME NEW n \in Nat \ {0}
  PROVE  One(n) \in Trits(n) /\ IntValue(One(n)) = 1 /\ MaxValue(n) \in Nat \ {0}
<1>1. PICK H : Tails(H, Ones(n), n) /\ MaxValue(n) = H[1]
  BY MaxTails
<1>2. 1 \in 1 .. n /\ 2 \in 1 .. n + 1 /\ Ones(n)[1] = 1
  BY DEF Ones
<1>3. H[1] = 1 + 3 * H[2] /\ H[2] \in Int
  BY <1>1, <1>2 DEF Tails
<1>4. Ones(n) \in Trits(n)
  BY DEF Ones, Trits, Trit
<1>5. -H[2] <= H[2]
  BY <1>1, <1>2, <1>4, TailBounds
<1>6. MaxValue(n) \in Nat \ {0}
  BY <1>1, <1>3, <1>5
<1>7. Absolute(1) <= MaxValue(n)
  BY <1>6 DEF Absolute
<1> QED
  BY <1>6, <1>7, FromWordExact DEF One

(* Sums stay among the outcomes whatever they are given.                   *)
LEMMA OutcomesKept ==
  ASSUME NEW n \in Nat \ {0}, NEW p \in Outcomes(n), NEW y \in Trits(n)
  PROVE  Plus(p, y) \in Outcomes(n) /\ Minus(p, y) \in Outcomes(n)
<1>1. CASE p = Overflowed
  BY <1>1 DEF Plus, Minus, Outcomes
<1>2. CASE p \in Trits(n)
  BY <1>2, PlusExact, MinusExact DEF Outcomes
<1> QED
  BY <1>1, <1>2 DEF Outcomes

(* How the loops of the division run.                                      *)
Takes(A, v, n) ==
  \A k \in 1 .. MaxValue(n) : A[k] = <<Plus(A[k - 1][1], One(n)), Minus(A[k - 1][2], v)>>
Gives(A, v, n) ==
  \A k \in 1 .. MaxValue(n) : A[k] = <<Minus(A[k - 1][1], One(n)), Plus(A[k - 1][2], v)>>
FirstBelow(A, v, n) ==
  CHOOSE k \in 0 .. MaxValue(n) :
    /\ Below(A[k][2], v)
    /\ \A j \in 0 .. MaxValue(n) : j < k => ~Below(A[j][2], v)
FirstNotNegative(A, n) ==
  CHOOSE k \in 0 .. MaxValue(n) :
    /\ SignTrit(A[k][2]) # -1
    /\ \A j \in 0 .. MaxValue(n) : j < k => ~(SignTrit(A[j][2]) # -1)

LEMMA LoweredRuns ==
  ASSUME NEW n \in Nat \ {0}, NEW v \in Trits(n), NEW qr \in Pairs(n)
  PROVE  \E A : A[0] = qr /\ Takes(A, v, n) /\ Lowered(qr, v) = A[FirstBelow(A, v, n)]
<1> DEFINE m == Len(v)
           N == MaxValue(m)
           S == Pairs(n)
           step == [q \in (1 .. N) \X S |-> <<Plus(q[2][1], One(m)), Minus(q[2][2], v)>>]
           Body(g) == [k \in 0 .. N |->
                         IF k = 0 THEN qr ELSE <<Plus(g[k - 1][1], One(m)), Minus(g[k - 1][2], v)>>]
           After == CHOOSE g : g = Body(g)
<1>1. m = n /\ N \in Nat
  <2>1. m = n
    BY DigitsAreSeq DEF Trits
  <2> QED
    BY <2>1, OneIs
<1>2. StepsIn(step, N, S)
  <2>1. ASSUME NEW p \in S
        PROVE  <<Plus(p[1], One(m)), Minus(p[2], v)>> \in S
    BY <1>1, OneIs, OutcomesKept DEF Pairs
  <2> QED
    BY <2>1 DEF StepsIn
<1>4. Lowered(qr, v) = After[FirstBelow(After, v, m)]
  BY Zenon DEF Lowered, FirstBelow
<1> HIDE DEF m, N, S, step, Body, After
<1>5. PICK g : IsRun(g, qr, step, N, S)
  BY <1>1, <1>2, Iterates DEF S
<1>6. g = Body(g)
  <2>1. ASSUME NEW k \in 1 .. N
        PROVE  g[k] = <<Plus(g[k - 1][1], One(m)), Minus(g[k - 1][2], v)>>
    <3>1. g[k] = step[<<k, g[k - 1]>>] /\ g[k - 1] \in S
      BY <1>1, <1>5 DEF IsRun
    <3> QED
      BY <3>1 DEF step
  <2>2. ASSUME NEW k \in 0 .. N
        PROVE  g[k] = IF k = 0 THEN qr ELSE <<Plus(g[k - 1][1], One(m)), Minus(g[k - 1][2], v)>>
    <3>1. k = 0 \/ k \in 1 .. N
      BY <1>1
    <3> QED
      BY <1>5, <2>1, <3>1 DEF IsRun
  <2>3. g = [k \in 0 .. N |-> g[k]]
    BY <1>5 DEF IsRun
  <2> QED
    BY <2>2, <2>3 DEF Body
<1>7. After = Body(After)
  BY <1>6 DEF After
<1>8. After[0] = qr /\ Takes(After, v, m)
  BY <1>1, <1>7 DEF Body, Takes, N
<1> QED
  BY <1>1, <1>4, <1>8

LEMMA LiftedRuns ==
  ASSUME NEW n \in Nat \ {0}, NEW v \in Trits(n), NEW qr \in Pairs(n)
  PROVE  \E A : A[0] = qr /\ Gives(A, v, n) /\ Lifted(qr, v) = A[FirstNotNegative(A, n)]
<1> DEFINE m == Len(v)
           N == MaxValue(m)
           S == Pairs(n)
           step == [q \in (1 .. N) \X S |-> <<Minus(q[2][1], One(m)), Plus(q[2][2], v)>>]
           Body(g) == [k \in 0 .. N |->
                         IF k = 0 THEN qr ELSE <<Minus(g[k - 1][1], One(m)), Plus(g[k - 1][2], v)>>]
           After == CHOOSE g : g = Body(g)
<1>1. m = n /\ N \in Nat
  <2>1. m = n
    BY DigitsAreSeq DEF Trits
  <2> QED
    BY <2>1, OneIs
<1>2. StepsIn(step, N, S)
  <2>1. ASSUME NEW p \in S
        PROVE  <<Minus(p[1], One(m)), Plus(p[2], v)>> \in S
    BY <1>1, OneIs, OutcomesKept DEF Pairs
  <2> QED
    BY <2>1 DEF StepsIn
<1>4. Lifted(qr, v) = After[FirstNotNegative(After, m)]
  BY Zenon DEF Lifted, FirstNotNegative
<1> HIDE DEF m, N, S, step, Body, After
<1>5. PICK g : IsRun(g, qr, step, N, S)
  BY <1>1, <1>2, Iterates DEF S
<1>6. g = Body(g)
  <2>1. ASSUME NEW k \in 1 .. N
        PROVE  g[k] = <<Minus(g[k - 1][1], One(m)), Plus(g[k - 1][2], v)>>
    <3>1. g[k] = step[<<k, g[k - 1]>>] /\ g[k - 1] \in S
      BY <1>1, <1>5 DEF IsRun
    <3> QED
      BY <3>1 DEF step
  <2>2. ASSUME NEW k \in 0 .. N
        PROVE  g[k] = IF k = 0 THEN qr ELSE <<Minus(g[k - 1][1], One(m)), Plus(g[k - 1][2], v)>>
    <3>1. k = 0 \/ k \in 1 .. N
      BY <1>1
    <3> QED
      BY <1>5, <2>1, <3>1 DEF IsRun
  <2>3. g = [k \in 0 .. N |-> g[k]]
    BY <1>5 DEF IsRun
  <2> QED
    BY <2>2, <2>3 DEF Body
<1>7. After = Body(After)
  BY <1>6 DEF After
<1>8. After[0] = qr /\ Gives(After, v, m)
  BY <1>1, <1>7 DEF Body, Gives, N
<1> QED
  BY <1>1, <1>4, <1>8

(* Taking v away K times, while it fits, is what the first loop does.      *)
LEMMA LoweredValue ==
  ASSUME NEW n \in Nat \ {0}, NEW v \in Trits(n), NEW q \in Trits(n), NEW r \in Trits(n), NEW K \in Nat,
         IntValue(v) >= 1, IntValue(q) >= 0, IntValue(q) + K <= MaxValue(n),
         \A k \in 0 .. K - 1 : IntValue(v) <= IntValue(r) - k * IntValue(v),
         IntValue(r) - K * IntValue(v) < IntValue(v)
  PROVE  \E q2 \in Trits(n), r2 \in Trits(n) :
           /\ Lowered(<<q, r>>, v) = <<q2, r2>>
           /\ IntValue(q2) = IntValue(q) + K
           /\ IntValue(r2) = IntValue(r) - K * IntValue(v)
<1> DEFINE N == MaxValue(n)
           b == IntValue(v)
           Q == IntValue(q)
           R == IntValue(r)
<1>1. /\ N \in Nat /\ b \in Int /\ b >= 1 /\ Q \in Int /\ Q >= 0 /\ R \in Int /\ R <= N
      /\ Q + K <= N /\ K \in 0 .. N
  <2>1. N \in Nat /\ b \in Int /\ Q \in Int /\ R \in Int /\ Absolute(R) <= N
    BY ValueBounds
  <2> HIDE DEF N, b, Q, R
  <2>2. R <= N /\ b >= 1 /\ Q >= 0 /\ Q + K <= N
    BY <2>1 DEF Absolute, N, b, Q
  <2> QED
    BY <2>1, <2>2
<1>2. <<q, r>> \in Pairs(n)
  BY DEF Pairs, Outcomes
<1>3. PICK A : /\ A[0] = <<q, r>> /\ Takes(A, v, n)
               /\ Lowered(<<q, r>>, v) = A[FirstBelow(A, v, n)]
  BY <1>2, LoweredRuns
<1> DEFINE Reached(k, q2, r2) ==
             A[k] = <<q2, r2>> /\ IntValue(q2) = Q + k /\ IntValue(r2) = R - k * b
           At(k) == \E q2 \in Trits(n), r2 \in Trits(n) : Reached(k, q2, r2)
           T == {k \in 0 .. K : At(k)}
<1>4. 0 \in T
  <2>1. Reached(0, q, r)
    BY <1>1, <1>3
  <2> QED
    BY <2>1
<1>5. ASSUME NEW k \in 0 .. K - 1, k \in T
      PROVE  k + 1 \in T
  <2>1. PICK q1 \in Trits(n), r1 \in Trits(n) : Reached(k, q1, r1)
    BY <1>5
  <2>2. k \in Nat /\ k + 1 \in 1 .. N /\ (k + 1) - 1 = k /\ k + 1 \in 0 .. K
    BY <1>1
  <2>3. b <= IntValue(r1) /\ IntValue(r1) \in Int /\ Absolute(IntValue(r1)) <= N
    BY <2>1, ValueBounds
  <2>4. A[k + 1] = <<Plus(q1, One(n)), Minus(r1, v)>>
    BY <1>3, <2>1, <2>2 DEF Takes
  <2>5. Plus(q1, One(n)) \in Trits(n) /\ IntValue(Plus(q1, One(n))) = Q + (k + 1)
    <3>1. IntValue(q1) + 1 = Q + (k + 1) /\ Absolute(Q + (k + 1)) <= N
      BY <1>1, <2>1, <2>2 DEF Absolute
    <3> QED
      BY <3>1, OneIs, PlusExact
  <2>6. Minus(r1, v) \in Trits(n) /\ IntValue(Minus(r1, v)) = IntValue(r1) - b
    <3>1. Absolute(IntValue(r1) - b) <= N
      BY <1>1, <2>3 DEF Absolute
    <3> QED
      BY <3>1, MinusExact
  <2>7. IntValue(r1) - b = R - (k + 1) * b
    <3>1. IntValue(r1) = R - k * b /\ (k + 1) * b = k * b + b /\ k * b \in Int
      BY <1>1, <2>1, <2>2
    <3> QED
      BY <1>1, <3>1
  <2>8. Reached(k + 1, Plus(q1, One(n)), Minus(r1, v))
    BY <2>4, <2>5, <2>6, <2>7
  <2> QED
    BY <2>2, <2>5, <2>6, <2>8
<1> HIDE DEF T
<1>6. 0 .. K \subseteq T
  BY <1>4, <1>5, UpTo
<1>7. ASSUME NEW k \in 0 .. K
      PROVE  Below(A[k][2], v) <=> k = K
  <2>1. PICK q1 \in Trits(n), r1 \in Trits(n) : Reached(k, q1, r1)
    BY <1>6 DEF T
  <2>2. Below(A[k][2], v) <=> IntValue(r1) < b
    BY <2>1, BelowExact
  <2>3. IntValue(r1) = R - k * b /\ R - k * b \in Int
    BY <1>1, <2>1
  <2>4. k \in 0 .. K - 1 => b <= R - k * b
    OBVIOUS
  <2> QED
    BY <1>1, <2>2, <2>3, <2>4
<1>8. FirstBelow(A, v, n) = K
  <2> DEFINE Stops(k) == /\ Below(A[k][2], v)
                         /\ \A j \in 0 .. N : j < k => ~Below(A[j][2], v)
  <2>1. Stops(K)
    BY <1>1, <1>7
  <2>2. ASSUME NEW k \in 0 .. N, Stops(k)
        PROVE  k = K
    <3>1. ~(k < K)
      BY <1>7, <2>2
    <3>2. ~(K < k)
      BY <1>1, <1>7, <2>2
    <3> QED
      BY <1>1, <3>1, <3>2
  <2>3. FirstBelow(A, v, n) = CHOOSE k \in 0 .. N : Stops(k)
    BY DEF FirstBelow
  <2> HIDE DEF Stops
  <2> QED
    BY <1>1, <2>1, <2>2, <2>3
<1>9. At(K)
  BY <1>6 DEF T
<1> QED
  BY <1>3, <1>8, <1>9

(* Giving v back once is what the second loop does to a negative rest.     *)
LEMMA LiftedValue ==
  ASSUME NEW n \in Nat \ {0}, NEW v \in Trits(n), NEW q \in Trits(n), NEW r \in Trits(n),
         IntValue(v) >= 1, IntValue(r) < 0 => IntValue(q) >= 1 /\ IntValue(r) + IntValue(v) >= 0
  PROVE  \E q2 \in Trits(n), r2 \in Trits(n) :
           /\ Lifted(<<q, r>>, v) = <<q2, r2>>
           /\ IF IntValue(r) < 0
              THEN IntValue(q2) = IntValue(q) - 1 /\ IntValue(r2) = IntValue(r) + IntValue(v)
              ELSE IntValue(q2) = IntValue(q) /\ IntValue(r2) = IntValue(r)
<1> DEFINE N == MaxValue(n)
           b == IntValue(v)
           Q == IntValue(q)
           R == IntValue(r)
<1>1. N \in Nat \ {0} /\ b \in Int /\ b <= N /\ Q \in Int /\ Q <= N /\ R \in Int
  <2>1. N \in Nat /\ b \in Int /\ Q \in Int /\ R \in Int /\ Absolute(Q) <= N /\ Absolute(b) <= N
    BY ValueBounds
  <2> HIDE DEF N, b, Q, R
  <2>2. N \in Nat \ {0}
    BY OneIs DEF N
  <2> QED
    BY <2>1, <2>2 DEF Absolute
<1>2. <<q, r>> \in Pairs(n)
  BY DEF Pairs, Outcomes
<1>3. PICK A : /\ A[0] = <<q, r>> /\ Gives(A, v, n)
               /\ Lifted(<<q, r>>, v) = A[FirstNotNegative(A, n)]
  BY <1>2, LiftedRuns
<1> DEFINE Stops(k) == /\ SignTrit(A[k][2]) # -1
                       /\ \A j \in 0 .. N : j < k => ~(SignTrit(A[j][2]) # -1)
<1>4. FirstNotNegative(A, n) = CHOOSE k \in 0 .. N : Stops(k)
  BY DEF FirstNotNegative
<1>5. SignTrit(A[0][2]) = -1 <=> R < 0
  BY <1>3, SignExact
<1>6. CASE R < 0
  <2>1. Minus(q, One(n)) \in Trits(n) /\ IntValue(Minus(q, One(n))) = Q - 1
    <3>1. Absolute(Q - 1) <= N
      BY <1>1, <1>6 DEF Absolute
    <3> QED
      BY <3>1, OneIs, MinusExact
  <2>2. Plus(r, v) \in Trits(n) /\ IntValue(Plus(r, v)) = R + b
    <3>1. Absolute(R + b) <= N
      BY <1>1, <1>6 DEF Absolute
    <3> QED
      BY <3>1, PlusExact
  <2>3. A[1] = <<Minus(q, One(n)), Plus(r, v)>>
    <3>1. 1 \in 1 .. N /\ 1 - 1 = 0
      BY <1>1
    <3>2. A[1] = <<Minus(A[1 - 1][1], One(n)), Plus(A[1 - 1][2], v)>>
      BY <1>3, <3>1 DEF Gives
    <3> QED
      BY <1>3, <3>1, <3>2
  <2>4. SignTrit(A[1][2]) # -1
    <3>1. R + b >= 0
      BY <1>6
    <3> QED
      BY <1>1, <2>2, <2>3, <3>1, SignExact
  <2>5. Stops(1) /\ 0 \in 0 .. N /\ 1 \in 0 .. N
    BY <1>1, <1>5, <1>6, <2>4
  <2>6. ASSUME NEW k \in 0 .. N, Stops(k)
        PROVE  k = 1
    BY <1>1, <1>5, <1>6, <2>4, <2>5, <2>6
  <2> HIDE DEF Stops
  <2>7. FirstNotNegative(A, n) = 1
    BY <1>4, <2>5, <2>6
  <2> QED
    BY <1>3, <1>6, <2>1, <2>2, <2>3, <2>7
<1>7. CASE ~(R < 0)
  <2>1. Stops(0) /\ 0 \in 0 .. N
    BY <1>1, <1>5, <1>7
  <2>2. ASSUME NEW k \in 0 .. N, Stops(k)
        PROVE  k = 0
    BY <1>1, <1>5, <1>7, <2>1, <2>2
  <2> HIDE DEF Stops
  <2>3. FirstNotNegative(A, n) = 0
    BY <1>4, <2>1, <2>2
  <2> QED
    BY <1>3, <1>7, <2>3
<1> QED
  BY <1>6, <1>7

(* A shift that has room loses nothing.                                    *)
LEMMA ShiftHasRoom ==
  ASSUME NEW n \in Nat \ {0}, NEW z \in Trits(n), IntValue(z) >= 0, 3 * IntValue(z) <= MaxValue(n)
  PROVE  ShiftedLeft(z, 1) \in Trits(n) /\ IntValue(ShiftedLeft(z, 1)) = 3 * IntValue(z)
<1> DEFINE u == ShiftedLeft(z, 1)
           m == MaxValue(n)
           Z == IntValue(z)
<1>1. u \in Trits(n) /\ IntValue(u) = 3 * Z - z[n] * (2 * m + 1)
  BY ShiftedByOne DEF Modulus
<1>2. z[n] \in {-1, 0, 1}
  BY DEF Trits, Trit
<1>3. m \in Nat /\ Z \in Int /\ IntValue(u) \in Int /\ Absolute(IntValue(u)) <= m
  BY <1>1, ValueBounds
<1>4. -m <= IntValue(u) /\ IntValue(u) <= m
  BY <1>3 DEF Absolute
<1> HIDE DEF u, m, Z
<1>5. Z >= 0 /\ 3 * Z <= m
  BY DEF Z, m
<1>6. CASE z[n] = 1
  BY <1>1, <1>3, <1>4, <1>5, <1>6
<1>7. CASE z[n] = -1
  BY <1>1, <1>3, <1>4, <1>5, <1>7
<1>8. CASE z[n] = 0
  BY <1>1, <1>3, <1>8 DEF u, Z
<1> QED
  BY <1>2, <1>6, <1>7, <1>8

(* The rest is brought back between zero and the divisor, whatever trit is *)
(* brought down: the loops take the divisor away at most twice, or give it *)
(* back once.                                                              *)
LEMMA DivisionStep ==
  ASSUME NEW n \in Nat \ {0}, NEW v \in Trits(n), NEW q \in Trits(n), NEW r \in Trits(n),
         NEW t \in Trit, NEW w \in Nat,
         IntValue(v) >= 1, IntValue(q) >= 0, IntValue(r) >= 0, IntValue(r) < IntValue(v),
         IntValue(q) * IntValue(v) + IntValue(r) = w,
         3 * w + 1 <= MaxValue(n), 3 * w + t >= 0
  PROVE  \E q2 \in Trits(n), r2 \in Trits(n) :
           /\ Restored(BroughtDown(<<q, r>>, t, n), v) = <<q2, r2>>
           /\ IntValue(q2) >= 0 /\ IntValue(r2) >= 0 /\ IntValue(r2) < IntValue(v)
           /\ IntValue(q2) * IntValue(v) + IntValue(r2) = 3 * w + t
<1> DEFINE N == MaxValue(n)
           b == IntValue(v)
           Q == IntValue(q)
           R == IntValue(r)
           P == Q * b
           R1 == 3 * R + t
<1>1. N \in Nat /\ b \in Int /\ Q \in Int /\ R \in Int /\ t \in {-1, 0, 1}
  BY ValueBounds DEF Trit
<1>2. b >= 1 /\ Q >= 0 /\ R >= 0 /\ R < b /\ P + R = w /\ 3 * w + 1 <= N /\ 3 * w + t >= 0
  OBVIOUS
<1> HIDE DEF N, b, Q, R
<1>3. P \in Int /\ Q <= P
  <2>1. b - 1 \in Nat /\ Q \in Nat
    BY <1>1, <1>2
  <2>2. (b - 1) * Q \in Nat
    BY <2>1
  <2>3. P = (b - 1) * Q + Q /\ P \in Int
    BY <1>1
  <2> QED
    BY <1>1, <2>2, <2>3
<1> HIDE DEF P
<1>4. 3 * Q <= N /\ 3 * R <= N /\ -N <= R1 /\ R1 <= N /\ R1 \in Int
  BY <1>1, <1>2, <1>3
<1> DEFINE qs == ShiftedLeft(q, 1)
           rs == ShiftedLeft(r, 1)
           rt == IF t = 1 THEN Plus(rs, One(n)) ELSE IF t = -1 THEN Minus(rs, One(n)) ELSE rs
<1>5. /\ qs \in Trits(n) /\ IntValue(qs) = 3 * Q
      /\ rs \in Trits(n) /\ IntValue(rs) = 3 * R
  BY <1>2, <1>4, ShiftHasRoom DEF Q, R, N
<1>6. rt \in Trits(n) /\ IntValue(rt) = R1
  <2>1. /\ 3 * R + 1 = R1 \/ t # 1
        /\ 3 * R - 1 = R1 \/ t # -1
        /\ 3 * R = R1 \/ t # 0
        /\ Absolute(R1) <= N
    BY <1>1, <1>4 DEF Absolute
  <2> HIDE DEF rs, R1
  <2>2. CASE t = 1
    BY <1>5, <2>1, <2>2, OneIs, PlusExact DEF N
  <2>3. CASE t = -1
    BY <1>5, <2>1, <2>3, OneIs, MinusExact DEF N
  <2>4. CASE t = 0
    BY <1>5, <2>1, <2>4
  <2> QED
    BY <1>1, <2>2, <2>3, <2>4
<1>7. BroughtDown(<<q, r>>, t, n) = <<qs, rt>>
  BY DEF BroughtDown
<1> HIDE DEF qs, rs, rt
<1>8. PICK K \in 0 .. 2 : \/ K = 0 /\ R1 < b
                          \/ K = 1 /\ b <= R1 /\ R1 < 2 * b
                          \/ K = 2 /\ 2 * b <= R1 /\ R1 < 3 * b
  <2>1. R1 < b \/ (b <= R1 /\ R1 < 2 * b) \/ (2 * b <= R1 /\ R1 < 3 * b)
    BY <1>1, <1>2
  <2>2. 0 \in 0 .. 2 /\ 1 \in 0 .. 2 /\ 2 \in 0 .. 2
    OBVIOUS
  <2> HIDE DEF R1
  <2> QED
    BY <2>1, <2>2
<1> DEFINE e == K * b
<1>9. e \in Int /\ (K = 0 => e = 0) /\ (K = 1 => e = b) /\ (K = 2 => e = 2 * b) /\ K <= e
  <2>1. e \in Int
    BY <1>1
  <2>2. K = 0 => e = 0
    BY <1>1
  <2>3. K = 1 => e = b
    BY <1>1
  <2>4. K = 2 => e = 2 * b
    BY <1>1
  <2> QED
    BY <1>1, <1>2, <2>1, <2>2, <2>3, <2>4
<1> HIDE DEF e, R1
<1>10. /\ e \in Int /\ R1 - e \in Int /\ R1 - e < b /\ R1 - e >= -1 /\ (e = 0 \/ e <= R1)
       /\ R1 = 3 * R + t
  BY <1>1, <1>2, <1>4, <1>8, <1>9 DEF R1
<1>11. PICK q3 \in Trits(n), r3 \in Trits(n) :
         Lowered(<<qs, rt>>, v) = <<q3, r3>> /\ IntValue(q3) = 3 * Q + K /\ IntValue(r3) = R1 - e
  <2>1. 3 * Q >= 0 /\ 3 * Q + K <= N
    BY <1>1, <1>2, <1>3, <1>4, <1>8, <1>9, <1>10
  <2>2. ASSUME NEW k \in 0 .. K - 1
        PROVE  b <= R1 - k * b
    <3>1. CASE k = 0
      <4>1. k * b = 0
        BY <1>1, <3>1
      <4> QED
        BY <1>1, <1>4, <1>8, <3>1, <4>1
    <3>2. CASE k = 1
      <4>1. k * b = b
        BY <1>1, <3>2
      <4> QED
        BY <1>1, <1>4, <1>8, <3>2, <4>1
    <3> QED
      BY <3>1, <3>2
  <2>3. R1 - K * b < b
    BY <1>10 DEF e
  <2>4. K \in Nat
    OBVIOUS
  <2>5. \A k \in 0 .. K - 1 : IntValue(v) <= IntValue(rt) - k * IntValue(v)
    BY <1>6, <2>2 DEF b
  <2>6. IntValue(rt) - K * IntValue(v) < IntValue(v)
    BY <1>6, <2>3 DEF b
  <2>7. IntValue(v) >= 1 /\ IntValue(qs) >= 0 /\ IntValue(qs) + K <= MaxValue(n)
    BY <1>2, <1>5, <2>1 DEF b, N
  <2>8. \E q3 \in Trits(n), r3 \in Trits(n) :
          /\ Lowered(<<qs, rt>>, v) = <<q3, r3>>
          /\ IntValue(q3) = IntValue(qs) + K
          /\ IntValue(r3) = IntValue(rt) - K * IntValue(v)
    BY ONLY <1>5, <1>6, <2>4, <2>5, <2>6, <2>7, LoweredValue, n \in Nat \ {0}, v \in Trits(n)
  <2> QED
    BY <1>5, <1>6, <2>8 DEF b, e
<1>12. R1 - e < 0 => 3 * Q + K >= 1 /\ R1 - e + b >= 0 /\ K = 0 /\ e = 0 /\ R1 = -1
  <2>1. SUFFICES ASSUME R1 - e < 0
                 PROVE  3 * Q + K >= 1 /\ R1 - e + b >= 0 /\ K = 0 /\ e = 0 /\ R1 = -1
    OBVIOUS
  <2>2. K = 0 /\ e = 0 /\ R1 = -1
    BY <1>1, <1>4, <1>8, <1>9, <1>10, <2>1
  <2>3. R = 0 /\ t = -1
    BY <1>1, <1>2, <1>10, <2>2
  <2>4. 3 * P - 1 >= 0
    BY <1>1, <1>2, <1>3, <2>3
  <2>5. Q # 0
    <3>1. Q = 0 => P = 0
      BY <1>1 DEF P
    <3> QED
      BY <1>3, <2>4, <3>1
  <2> QED
    BY <1>1, <1>2, <2>2, <2>5
<1>13. PICK q2 \in Trits(n), r2 \in Trits(n) :
         /\ Lifted(<<q3, r3>>, v) = <<q2, r2>>
         /\ IF R1 - e < 0 THEN IntValue(q2) = (3 * Q + K) - 1 /\ IntValue(r2) = R1 - e + b
                          ELSE IntValue(q2) = 3 * Q + K /\ IntValue(r2) = R1 - e
  <2>1. IntValue(v) >= 1 /\ (IntValue(r3) < 0 => IntValue(q3) >= 1 /\ IntValue(r3) + IntValue(v) >= 0)
    BY <1>2, <1>11, <1>12 DEF b
  <2>2. \E q2 \in Trits(n), r2 \in Trits(n) :
          /\ Lifted(<<q3, r3>>, v) = <<q2, r2>>
          /\ IF IntValue(r3) < 0
             THEN IntValue(q2) = IntValue(q3) - 1 /\ IntValue(r2) = IntValue(r3) + IntValue(v)
             ELSE IntValue(q2) = IntValue(q3) /\ IntValue(r2) = IntValue(r3)
    BY ONLY <2>1, LiftedValue, n \in Nat \ {0}, v \in Trits(n), q3 \in Trits(n), r3 \in Trits(n)
  <2>3. IntValue(q3) = 3 * Q + K /\ IntValue(r3) = R1 - e
    BY <1>11
  <2> QED
    BY <2>2, <2>3 DEF b
<1>14. Restored(BroughtDown(<<q, r>>, t, n), v) = <<q2, r2>>
  BY <1>7, <1>11, <1>13 DEF Restored
<1>15. /\ IntValue(q2) >= 0 /\ IntValue(r2) >= 0 /\ IntValue(r2) < b
       /\ IntValue(q2) * b + IntValue(r2) = 3 * w + t
  <2>1. (3 * Q + K) * b = 3 * P + e
    BY <1>1 DEF P, e
  <2>2. CASE R1 - e < 0
    <3>1. K = 0 /\ e = 0 /\ R1 = -1 /\ 3 * Q >= 1 /\ IntValue(q2) = 3 * Q - 1 /\ IntValue(r2) = b - 1
      BY <1>1, <1>12, <1>13, <2>2
    <3>2. (3 * Q - 1) * b = 3 * P - b
      BY <1>1 DEF P
    <3>3. 3 * P - 1 = 3 * w + t
      BY <1>1, <1>2, <1>3, <1>10, <3>1
    <3> QED
      BY <1>1, <1>2, <1>3, <3>1, <3>2, <3>3
  <2>3. CASE ~(R1 - e < 0)
    <3>1. IntValue(q2) = 3 * Q + K /\ IntValue(r2) = R1 - e
      BY <1>13, <2>3
    <3>2. 3 * P + e + (R1 - e) = 3 * w + t
      BY <1>1, <1>2, <1>3, <1>10
    <3> QED
      BY <1>1, <1>2, <1>10, <2>1, <2>3, <3>1, <3>2
  <2> QED
    BY <2>2, <2>3
<1> QED
  BY <1>14, <1>15 DEF b

LEMMA PrefixFacts ==
  ASSUME NEW n \in Nat \ {0}, NEW u \in Trits(n), IntValue(u) >= 0
  PROVE  \E U : /\ Tails(U, u, n) /\ IntValue(u) = U[1]
                /\ \A i \in 1 .. n + 1 : U[i] \in Nat
                /\ \A i \in 1 .. n : 3 * U[i + 1] + 1 <= MaxValue(n)
<1>1. PICK U : Tails(U, u, n) /\ IntValue(u) = U[1]
  BY NumeralTails, TritsAreInts
<1>2. PICK H : Tails(H, Ones(n), n) /\ MaxValue(n) = H[1]
  BY MaxTails
<1>3. \A i \in 1 .. n + 1 : U[i] \in Int
  BY <1>1 DEF Tails
<1>4. \A i \in 1 .. n : U[i] = u[i] + 3 * U[i + 1] /\ u[i] \in {-1, 0, 1}
  BY <1>1 DEF Tails, Trits, Trit
<1>5. \A i \in 1 .. n : H[i] = 1 + 3 * H[i + 1]
  BY <1>2 DEF Tails, Ones
<1>6. \A i \in 1 .. n + 1 : H[i] \in Int /\ -H[i] <= U[i] /\ U[i] <= H[i]
  BY <1>1, <1>2, TailBounds DEF Tails
<1> DEFINE S == {k \in 0 .. n : U[k + 1] >= 0}
           T == {k \in 0 .. n : k # n => 3 * H[(k + 1) + 1] + 1 <= H[1]}
<1>7. 0 \in S
  BY <1>1
<1>8. ASSUME NEW k \in 0 .. n - 1, k \in S
      PROVE  k + 1 \in S
  <2>1. k + 1 \in 1 .. n /\ k + 1 \in 0 .. n /\ (k + 1) + 1 \in 1 .. n + 1
    OBVIOUS
  <2>2. U[k + 1] = u[k + 1] + 3 * U[(k + 1) + 1] /\ u[k + 1] \in {-1, 0, 1} /\ U[(k + 1) + 1] \in Int
    BY <1>3, <1>4, <2>1
  <2>3. U[k + 1] >= 0
    BY <1>8
  <2> QED
    BY <2>1, <2>2, <2>3
<1>9. 0 \in T
  <2>1. 1 \in 1 .. n /\ (0 + 1) + 1 = 1 + 1
    OBVIOUS
  <2>2. H[1] = 1 + 3 * H[1 + 1] /\ H[1 + 1] \in Int
    BY <1>5, <1>6, <2>1
  <2> QED
    BY <2>1, <2>2
<1>10. ASSUME NEW k \in 0 .. n - 1, k \in T
       PROVE  k + 1 \in T
  <2>1. k # n /\ k + 1 \in 0 .. n /\ (k + 1) + 1 \in 1 .. n + 1
    OBVIOUS
  <2>2. 3 * H[(k + 1) + 1] + 1 <= H[1]
    BY <1>10, <2>1
  <2>3. CASE k + 1 # n
    <3>1. (k + 1) + 1 \in 1 .. n /\ ((k + 1) + 1) + 1 \in 1 .. n + 1 /\ 1 \in 1 .. n + 1
      BY <2>3
    <3>2. H[(k + 1) + 1] = 1 + 3 * H[((k + 1) + 1) + 1]
      BY <1>5, <3>1
    <3>3. /\ H[((k + 1) + 1) + 1] \in Int /\ H[1] \in Int
          /\ -H[((k + 1) + 1) + 1] <= H[((k + 1) + 1) + 1]
      <4> DEFINE j == ((k + 1) + 1) + 1
      <4>1. j \in 1 .. n + 1 /\ 1 \in 1 .. n + 1
        BY <3>1
      <4> HIDE DEF j
      <4>2. H[j] \in Int /\ -H[j] <= U[j] /\ U[j] <= H[j] /\ U[j] \in Int /\ H[1] \in Int
        BY <1>3, <1>6, <4>1
      <4>3. H[j] \in Int /\ H[1] \in Int /\ -H[j] <= H[j]
        BY <4>2
      <4> QED
        BY <4>3 DEF j
    <3>4. 3 * H[((k + 1) + 1) + 1] + 1 <= H[1]
      BY <2>2, <3>2, <3>3
    <3> QED
      BY <2>1, <3>4
  <2> QED
    BY <2>1, <2>3
<1> HIDE DEF S, T
<1>11. 0 .. n \subseteq S /\ 0 .. n \subseteq T
  BY <1>7, <1>8, <1>9, <1>10, UpTo
<1>12. ASSUME NEW i \in 1 .. n + 1
       PROVE  U[i] \in Nat
  <2>1. i - 1 \in 0 .. n /\ (i - 1) + 1 = i
    OBVIOUS
  <2>2. U[i] >= 0
    BY <1>11, <2>1 DEF S
  <2> QED
    BY <1>3, <2>2
<1>13. ASSUME NEW i \in 1 .. n
       PROVE  3 * U[i + 1] + 1 <= MaxValue(n)
  <2>1. i - 1 \in 0 .. n /\ i - 1 # n /\ ((i - 1) + 1) + 1 = i + 1 /\ i + 1 \in 1 .. n + 1
    OBVIOUS
  <2>2. 3 * H[i + 1] + 1 <= H[1]
    BY <1>11, <2>1 DEF T
  <2>3. U[i + 1] <= H[i + 1] /\ U[i + 1] \in Int /\ H[i + 1] \in Int /\ H[1] \in Int
    BY <1>3, <1>6, <2>1
  <2> QED
    BY <1>2, <2>2, <2>3
<1> QED
  BY <1>1, <1>12, <1>13

(* What the division has found so far, and what is left.                   *)
Divides(qr, v, w) ==
  /\ IntValue(qr[1]) >= 0 /\ IntValue(qr[2]) >= 0 /\ IntValue(qr[2]) < IntValue(v)
  /\ IntValue(qr[1]) * IntValue(v) + IntValue(qr[2]) = w

LEMMA DivisionRuns ==
  ASSUME NEW n \in Nat \ {0}, NEW u \in Trits(n), NEW v \in Trits(n), IntValue(u) >= 0, IntValue(v) >= 1
  PROVE  \E D : /\ D \in [1 .. n + 1 -> Trits(n) \X Trits(n)]
                /\ D[n + 1] = <<Zeros(n), Zeros(n)>>
                /\ \A i \in 1 .. n : D[i] = Restored(BroughtDown(D[i + 1], u[i], n), v)
                /\ Divides(D[1], v, IntValue(u))
<1>1. PICK U : /\ Tails(U, u, n) /\ IntValue(u) = U[1]
               /\ \A i \in 1 .. n + 1 : U[i] \in Nat
               /\ \A i \in 1 .. n : 3 * U[i + 1] + 1 <= MaxValue(n)
  BY PrefixFacts
<1> DEFINE P == [k \in 0 .. n |-> {qr \in Trits(n) \X Trits(n) : Divides(qr, v, U[n + 1 - k])}]
           step == [q \in (1 .. n) \X (Trits(n) \X Trits(n)) |->
                      Restored(BroughtDown(q[2], u[n + 1 - q[1]], n), v)]
           start == <<Zeros(n), Zeros(n)>>
<1>2. IntValue(v) \in Int
  BY ValueBounds
<1>3. start \in P[0]
  <2>1. n + 1 - 0 = n + 1 /\ U[n + 1] = 0 /\ 0 \in 0 .. n
    BY <1>1 DEF Tails
  <2>2. 0 * IntValue(v) + 0 = 0
    BY <1>2
  <2>3. Divides(start, v, 0)
    BY <1>2, <2>2, ZerosValue DEF Divides
  <2> QED
    BY <2>1, <2>3, ZerosValue
<1>4. ASSUME NEW k \in 1 .. n, NEW qr \in P[k - 1]
      PROVE  step[<<k, qr>>] \in P[k]
  <2> DEFINE i == n + 1 - k
             w == U[i + 1]
             q == qr[1]
             r == qr[2]
  <2>1. i \in 1 .. n /\ n + 1 - (k - 1) = i + 1 /\ i + 1 \in 1 .. n + 1 /\ k - 1 \in 0 .. n /\ k \in 0 .. n
    OBVIOUS
  <2>2. qr \in Trits(n) \X Trits(n) /\ Divides(qr, v, w)
    BY <2>1
  <2>3. q \in Trits(n) /\ r \in Trits(n) /\ qr = <<q, r>> /\ u[i] \in Trit
    BY <2>1, <2>2 DEF Trits
  <2>4. w \in Nat /\ U[i] \in Nat /\ 3 * w + 1 <= MaxValue(n) /\ U[i] = u[i] + 3 * w
    BY <1>1, <2>1 DEF Tails
  <2>5. 3 * w + u[i] = U[i] /\ 3 * w + u[i] >= 0
    BY <2>3, <2>4 DEF Trit
  <2> HIDE DEF w, i
  <2>6. PICK q2 \in Trits(n), r2 \in Trits(n) :
          /\ Restored(BroughtDown(<<q, r>>, u[i], n), v) = <<q2, r2>>
          /\ IntValue(q2) >= 0 /\ IntValue(r2) >= 0 /\ IntValue(r2) < IntValue(v)
          /\ IntValue(q2) * IntValue(v) + IntValue(r2) = 3 * w + u[i]
    BY <2>2, <2>3, <2>4, <2>5, DivisionStep DEF Divides
  <2>7. step[<<k, qr>>] = <<q2, r2>>
    BY <2>2, <2>3, <2>6 DEF i
  <2>8. Divides(<<q2, r2>>, v, U[i])
    BY <2>5, <2>6 DEF Divides
  <2> HIDE DEF step
  <2>9. \A p \in Trits(n) \X Trits(n) : Divides(p, v, U[n + 1 - k]) => p \in P[k]
    BY <2>1
  <2>10. n + 1 - k = i
    BY DEF i
  <2> HIDE DEF P
  <2> QED
    BY <2>7, <2>8, <2>9, <2>10
<1>5. StepsThrough(step, n, P)
  BY <1>4 DEF StepsThrough
<1>6. /\ \A k \in 1 .. n : \A qr \in Trits(n) \X Trits(n) :
           step[<<k, qr>>] = Restored(BroughtDown(qr, u[n + 1 - k], n), v)
      /\ \A k \in 0 .. n : P[k] \subseteq Trits(n) \X Trits(n)
      /\ \A k \in 0 .. n : \A qr \in P[k] : Divides(qr, v, U[n + 1 - k])
  OBVIOUS
<1> HIDE DEF P, step, start
<1>7. PICK g : /\ g[0] = start
               /\ \A k \in 1 .. n : g[k] = step[<<k, g[k - 1]>>]
               /\ \A k \in 0 .. n : g[k] \in P[k]
  BY <1>3, <1>5, IteratesThrough
<1> DEFINE D == [i \in 1 .. n + 1 |-> g[n + 1 - i]]
<1>8. D \in [1 .. n + 1 -> Trits(n) \X Trits(n)]
  <2>1. ASSUME NEW i \in 1 .. n + 1
        PROVE  g[n + 1 - i] \in Trits(n) \X Trits(n)
    <3>1. n + 1 - i \in 0 .. n
      OBVIOUS
    <3> QED
      BY <1>6, <1>7, <3>1
  <2> QED
    BY <2>1
<1>9. D[n + 1] = <<Zeros(n), Zeros(n)>>
  <2>1. n + 1 \in 1 .. n + 1 /\ n + 1 - (n + 1) = 0
    OBVIOUS
  <2> QED
    BY <1>7, <2>1 DEF start
<1>10. ASSUME NEW i \in 1 .. n
       PROVE  D[i] = Restored(BroughtDown(D[i + 1], u[i], n), v)
  <2> DEFINE k == n + 1 - i
  <2>1. /\ k \in 1 .. n /\ k - 1 = n + 1 - (i + 1) /\ n + 1 - k = i /\ i \in 1 .. n + 1 /\ i + 1 \in 1 .. n + 1
        /\ k - 1 \in 0 .. n
    OBVIOUS
  <2>2. D[i] = g[k] /\ D[i + 1] = g[k - 1]
    BY <2>1
  <2> HIDE DEF k, D
  <2>3. g[k - 1] \in Trits(n) \X Trits(n) /\ g[k] = step[<<k, g[k - 1]>>]
    BY <1>6, <1>7, <2>1
  <2>4. step[<<k, g[k - 1]>>] = Restored(BroughtDown(g[k - 1], u[n + 1 - k], n), v)
    BY <1>6, <2>1, <2>3
  <2> QED
    BY <2>1, <2>2, <2>3, <2>4
<1>11. Divides(D[1], v, IntValue(u))
  <2>1. n \in 0 .. n /\ n + 1 - n = 1 /\ 1 \in 1 .. n + 1 /\ n + 1 - 1 = n
    OBVIOUS
  <2>2. D[1] = g[n] /\ Divides(g[n], v, U[n + 1 - n])
    BY <1>6, <1>7, <2>1
  <2> QED
    BY <1>1, <2>1, <2>2
<1> HIDE DEF D
<1> QED
  BY <1>8, <1>9, <1>10, <1>11

(* div_mod throws for a divisor of zero, and otherwise gives quotient and  *)
(* remainder: the quotient is rounded towards zero, the remainder has the  *)
(* sign of the dividend, and no step on the way overflows.                 *)
THEOREM DividedExact ==
  ASSUME NEW n \in Nat \ {0}, NEW x \in Trits(n), NEW y \in Trits(n)
  PROVE  IF IntValue(y) = 0 THEN Divided(x, y) = Overflowed
         ELSE \E q \in Trits(n), r \in Trits(n) :
                /\ Divided(x, y) = <<q, r>>
                /\ IntValue(q) * IntValue(y) + IntValue(r) = IntValue(x)
                /\ Absolute(IntValue(r)) < Absolute(IntValue(y))
                /\ IntValue(r) = 0 \/ (IntValue(r) < 0 <=> IntValue(x) < 0)
<1>1. CASE IntValue(y) = 0
  BY <1>1, SignExact DEF Divided
<1>2. CASE IntValue(y) # 0
  <2> DEFINE u == AbsoluteTrits(x)
             v == AbsoluteTrits(y)
             a == IntValue(x)
             b == IntValue(y)
  <2>1. /\ u \in Trits(n) /\ IntValue(u) = Absolute(a) /\ v \in Trits(n) /\ IntValue(v) = Absolute(b)
        /\ a \in Int /\ b \in Int /\ (SignTrit(x) = -1 <=> a < 0) /\ (SignTrit(y) = -1 <=> b < 0)
        /\ ~IsZero(y)
    BY <1>2, SignExact, ValueBounds
  <2>2. Absolute(a) \in Nat /\ Absolute(b) \in Nat /\ Absolute(b) >= 1
    <3> HIDE DEF a, b
    <3> QED
      BY <1>2, <2>1 DEF Absolute, b
  <2>3. PICK D : /\ D \in [1 .. n + 1 -> Trits(n) \X Trits(n)]
                 /\ D[n + 1] = <<Zeros(n), Zeros(n)>>
                 /\ \A i \in 1 .. n : D[i] = Restored(BroughtDown(D[i + 1], u[i], n), v)
                 /\ Divides(D[1], v, Absolute(a))
    <3> HIDE DEF u, v, a, b
    <3>1. IntValue(u) >= 0 /\ IntValue(v) >= 1
      BY <2>1, <2>2
    <3>2. u \in Trits(n) /\ v \in Trits(n) /\ IntValue(u) = Absolute(a)
      BY <2>1
    <3> QED
      BY ONLY <3>1, <3>2, DivisionRuns, n \in Nat \ {0}
  <2> DEFINE m == Len(x)
             Body(g) == [i \in 1 .. m + 1 |-> IF i > m THEN <<Zeros(m), Zeros(m)>>
                                              ELSE Restored(BroughtDown(g[i + 1], u[i], m), v)]
             Down == CHOOSE g : g = Body(g)
  <2>4. m = n /\ Overflowed \notin {x, y}
    <3>1. Len(x) = n /\ Len(y) = n
      BY DigitsAreSeq DEF Trits
    <3>2. Len(Overflowed) = 0
      BY DEF Overflowed
    <3> QED
      BY <3>1, <3>2
  <2>5. Divided(x, y) = Signs(x, y, Down[1])
    BY <2>1, <2>4, Zenon DEF Divided
  <2> HIDE DEF m, Body, Down, u, v
  <2>6. D = Body(D)
    <3>1. ASSUME NEW i \in 1 .. n + 1
          PROVE  D[i] = IF i > n THEN <<Zeros(n), Zeros(n)>> ELSE Restored(BroughtDown(D[i + 1], u[i], n), v)
      <4>1. i = n + 1 \/ i \in 1 .. n
        OBVIOUS
      <4> QED
        BY <2>3, <4>1
    <3>2. D = [i \in 1 .. n + 1 |-> D[i]]
      BY <2>3
    <3> QED
      BY <2>4, <3>1, <3>2 DEF Body
  <2>7. Down = Body(Down)
    BY <2>6 DEF Down
  <2>8. \A i \in 1 .. n + 1 : Down[i] = IF i > n THEN <<Zeros(n), Zeros(n)>>
                                        ELSE Restored(BroughtDown(Down[i + 1], u[i], n), v)
    BY <2>4, <2>7 DEF Body
  <2> DEFINE T == {i \in 1 .. n + 1 : Down[i] = D[i]}
  <2>9. n + 1 \in T
    BY <2>3, <2>8
  <2>10. ASSUME NEW i \in 1 .. n, i + 1 \in T
         PROVE  i \in T
    <3>1. i \in 1 .. n + 1 /\ ~(i > n) /\ Down[i + 1] = D[i + 1]
      BY <2>10
    <3>2. Down[i] = Restored(BroughtDown(Down[i + 1], u[i], n), v)
      BY <2>8, <3>1
    <3>3. Down[i] = D[i]
      BY <2>3, <3>1, <3>2
    <3> QED
      BY <3>1, <3>3
  <2> HIDE DEF T
  <2>11. 1 .. n + 1 \subseteq T /\ 1 \in 1 .. n + 1
    BY <2>9, <2>10, DownTo
  <2>12. Down[1] = D[1] /\ D[1] \in Trits(n) \X Trits(n)
    BY <2>3, <2>11 DEF T
  <2> DEFINE q0 == D[1][1]
             r0 == D[1][2]
             q == IF (a < 0) # (b < 0) THEN Negated(q0) ELSE q0
             r == IF a < 0 THEN Negated(r0) ELSE r0
  <2>13. q0 \in Trits(n) /\ r0 \in Trits(n)
    BY <2>12
  <2>14. Divided(x, y) = <<q, r>>
    BY <2>1, <2>5, <2>12 DEF Signs
  <2>15. /\ IntValue(q0) \in Int /\ IntValue(r0) \in Int
         /\ IntValue(r0) >= 0 /\ IntValue(r0) < Absolute(b)
         /\ IntValue(q0) * Absolute(b) + IntValue(r0) = Absolute(a)
    BY <2>1, <2>3, <2>13, ValueBounds DEF Divides
  <2>16. /\ q \in Trits(n) /\ IntValue(q) = IF (a < 0) # (b < 0) THEN -IntValue(q0) ELSE IntValue(q0)
         /\ r \in Trits(n) /\ IntValue(r) = IF a < 0 THEN -IntValue(r0) ELSE IntValue(r0)
    BY <2>13, NegatedValue
  <2> HIDE DEF q0, r0, q, r, a, b
  <2>17. Absolute(IntValue(r)) < Absolute(b) /\ (IntValue(r) = 0 \/ (IntValue(r) < 0 <=> a < 0))
    BY <2>1, <2>15, <2>16 DEF Absolute
  <2>18. IntValue(q) * b + IntValue(r) = a
    <3> DEFINE Q == IntValue(q0)
               R == IntValue(r0)
    <3>1. Q \in Int /\ R \in Int /\ Q * Absolute(b) + R = Absolute(a)
      BY <2>15
    <3> HIDE DEF Q, R
    <3>2. Q * b \in Int /\ (-Q) * b = -(Q * b) /\ Q * (-b) = -(Q * b)
      BY <2>1, <3>1
    <3>3. Absolute(b) = (IF b < 0 THEN -b ELSE b) /\ Absolute(a) = (IF a < 0 THEN -a ELSE a)
      BY DEF Absolute
    <3>4. CASE a < 0 /\ b < 0
      <4>1. -(Q * b) + R = -a /\ IntValue(q) = Q /\ IntValue(r) = -R
        BY <2>16, <3>1, <3>2, <3>3, <3>4 DEF Q, R
      <4> QED
        BY <2>1, <3>1, <3>2, <4>1
    <3>5. CASE a < 0 /\ ~(b < 0)
      <4>1. Q * b + R = -a /\ IntValue(q) = -Q /\ IntValue(r) = -R
        BY <2>16, <3>1, <3>2, <3>3, <3>5 DEF Q, R
      <4> QED
        BY <2>1, <3>1, <3>2, <4>1
    <3>6. CASE ~(a < 0) /\ b < 0
      <4>1. -(Q * b) + R = a /\ IntValue(q) = -Q /\ IntValue(r) = R
        BY <2>16, <3>1, <3>2, <3>3, <3>6 DEF Q, R
      <4> QED
        BY <2>1, <3>1, <3>2, <4>1
    <3>7. CASE ~(a < 0) /\ ~(b < 0)
      <4>1. Q * b + R = a /\ IntValue(q) = Q /\ IntValue(r) = R
        BY <2>16, <3>1, <3>2, <3>3, <3>7 DEF Q, R
      <4> QED
        BY <2>1, <3>1, <3>2, <4>1
    <3> QED
      BY <3>4, <3>5, <3>6, <3>7
  <2> QED
    BY <1>2, <2>14, <2>16, <2>17, <2>18 DEF a, b
<1> QED
  BY <1>1, <1>2

(***************************************************************************)
(* Vectors of packed trits.  A bit of a word is followed to its byte, and  *)
(* a bit of a byte to its lane.                                            *)
(***************************************************************************)
WordOps == {"not", "and", "or"}
BitSets == SUBSET (0 .. ByteBits - 1)
Bytewise(op, a, b) == [k \in 1 .. Len(a) |-> WordOp(op, a[k], b[k], ByteBits)]

LEMMA TimesRoom ==
  ASSUME NEW n \in Nat, NEW d \in Nat \ {0}
  PROVE  n * d \in Nat /\ n * d >= n
<1>1. PICK e \in Nat : d = e + 1
  <2>1. d - 1 \in Nat /\ d = (d - 1) + 1
    OBVIOUS
  <2> QED
    BY <2>1
<1>2. n * e \in Nat
  BY SMT
<1>3. n * (e + 1) = n * e + n
  BY SMT
<1> QED
  BY <1>1, <1>2, <1>3

(* A place among the bits of a word is that of a byte and one within it.   *)
PlaceOf(n, k, q) == n * k + q

LEMMA OnePlace ==
  ASSUME NEW n \in Nat \ {0}, NEW k \in Nat, NEW l \in Nat,
         NEW q \in 0 .. n - 1, NEW r \in 0 .. n - 1, PlaceOf(n, k, q) = PlaceOf(n, l, r)
  PROVE  k = l /\ q = r
<1>0. n * k + q = n * l + r
  BY DEF PlaceOf
<1>1. n * k \in Nat /\ n * l \in Nat
  BY SMT
<1>2. ~(k < l)
  <2> SUFFICES ASSUME k < l PROVE FALSE
    OBVIOUS
  <2>1. l - k \in Nat \ {0}
    OBVIOUS
  <2>2. n * (l - k) >= n
    BY <2>1, TimesRoom
  <2>3. n * (l - k) = n * l - n * k
    BY SMT
  <2> QED
    BY <1>0, <1>1, <2>2, <2>3
<1>3. ~(l < k)
  <2> SUFFICES ASSUME l < k PROVE FALSE
    OBVIOUS
  <2>1. k - l \in Nat \ {0}
    OBVIOUS
  <2>2. n * (k - l) >= n
    BY <2>1, TimesRoom
  <2>3. n * (k - l) = n * k - n * l
    BY SMT
  <2> QED
    BY <1>0, <1>1, <2>2, <2>3
<1>4. k = l
  BY <1>2, <1>3
<1> QED
  BY <1>0, <1>1, <1>4

LEMMA BitsFacts == ByteBits \in Nat \ {0, 1} /\ ByteTrits \in Nat \ {0} /\ ByteBits = 2 * ByteTrits
BY VectorAssumption DEF ByteBits

LEMMA JoinedAt ==
  ASSUME NEW a \in Seq(BitSets), NEW k \in 1 .. Len(a), NEW q \in 0 .. ByteBits - 1
  PROVE  ByteBits * (k - 1) + q \in JoinedBytes(a) <=> q \in a[k]
<1> DEFINE n == ByteBits
<1>0. n \in Nat \ {0}
  BY BitsFacts
<1> HIDE DEF n
<1>1. ASSUME q \in a[k] PROVE n * (k - 1) + q \in JoinedBytes(a)
  <2>1. k \in DOMAIN a
    OBVIOUS
  <2> QED
    BY <1>1, <2>1 DEF JoinedBytes, n
<1>2. ASSUME n * (k - 1) + q \in JoinedBytes(a) PROVE q \in a[k]
  <2>0. PICK l \in DOMAIN a : \E r \in a[l] : n * (k - 1) + q = n * (l - 1) + r
    BY <1>2 DEF JoinedBytes, n
  <2>1. PICK r \in a[l] : n * (k - 1) + q = n * (l - 1) + r
    BY <2>0
  <2>2. l \in 1 .. Len(a) /\ a[l] \in BitSets
    OBVIOUS
  <2>3. r \in 0 .. n - 1 /\ q \in 0 .. n - 1
    BY <2>2 DEF BitSets, n
  <2>4. k - 1 \in Nat /\ l - 1 \in Nat
    BY <2>2
  <2>5. k - 1 = l - 1 /\ q = r
    <3> DEFINE before == k - 1
               other == l - 1
    <3>1. before \in Nat /\ other \in Nat /\ PlaceOf(n, before, q) = PlaceOf(n, other, r)
      BY <2>1, <2>4 DEF PlaceOf
    <3> HIDE DEF before, other
    <3>2. before = other /\ q = r
      BY <1>0, <2>3, <3>1, OnePlace
    <3> QED
      BY <3>2 DEF before, other
  <2>6. k = l
    BY <2>2, <2>5
  <2> QED
    BY <2>1, <2>5, <2>6
<1> QED
  BY <1>1, <1>2 DEF n

LEMMA JoinedIsBits ==
  ASSUME NEW a \in Seq(BitSets)
  PROVE  JoinedBytes(a) \in SUBSET Nat
<1> SUFFICES ASSUME NEW p \in JoinedBytes(a) PROVE p \in Nat
  OBVIOUS
<1>0. PICK l \in DOMAIN a : \E r \in a[l] : p = ByteBits * (l - 1) + r
  BY DEF JoinedBytes
<1>1. PICK r \in a[l] : p = ByteBits * (l - 1) + r
  BY <1>0
<1>2. l \in 1 .. Len(a) /\ a[l] \in BitSets
  OBVIOUS
<1>3. r \in Nat /\ l - 1 \in Nat
  BY <1>2, BitsFacts DEF BitSets
<1>4. ByteBits * (l - 1) \in Nat
  BY <1>3, BitsFacts, SMT
<1> QED
  BY <1>1, <1>3, <1>4

(* What an operation on a word makes of one bit.                           *)
LEMMA NotAt ==
  ASSUME NEW a \in SUBSET Nat, NEW n \in Nat, NEW p \in 0 .. n - 1
  PROVE  p \in WordNot(a, n) <=> (IF p % 2 = 0 THEN p \in a ELSE (p \in a) # (p - 1 \in a))
<1> DEFINE moved == ShiftedUp(Lows(a), n)
<1>1. p \in moved <=> p % 2 = 1 /\ p - 1 \in a
  <2>1. ASSUME p \in moved PROVE p % 2 = 1 /\ p - 1 \in a
    <3>1. PICK bit \in a : bit % 2 = 0 /\ p = bit + 1
      BY <2>1 DEF ShiftedUp, Lows
    <3>2. bit \in Nat
      OBVIOUS
    <3> QED
      BY <3>1, <3>2
  <2>2. ASSUME p % 2 = 1, p - 1 \in a PROVE p \in moved
    <3>1. (p - 1) % 2 = 0 /\ p = (p - 1) + 1
      BY <2>2
    <3> QED
      BY <2>2, <3>1 DEF ShiftedUp, Lows
  <2> QED
    BY <2>1, <2>2
<1>2. p \in WordNot(a, n) <=> ((p \in a) # (p \in moved))
  BY DEF WordNot
<1>3. p % 2 = 0 \/ p % 2 = 1
  OBVIOUS
<1> HIDE DEF moved
<1> QED
  BY <1>1, <1>2, <1>3

LEMMA DownAt ==
  ASSUME NEW h \in SUBSET Nat, NEW p \in Nat
  PROVE  p \in ShiftedDown(Highs(h)) <=> p % 2 = 0 /\ p + 1 \in h
<1>1. ASSUME p \in ShiftedDown(Highs(h)) PROVE p % 2 = 0 /\ p + 1 \in h
  <2>1. PICK bit \in h : bit % 2 = 1 /\ p = bit - 1
    BY <1>1 DEF ShiftedDown, Highs
  <2>2. bit \in Nat
    OBVIOUS
  <2> QED
    BY <2>1, <2>2
<1>2. ASSUME p % 2 = 0, p + 1 \in h PROVE p \in ShiftedDown(Highs(h))
  <2>1. (p + 1) % 2 = 1 /\ p = (p + 1) - 1
    BY <1>2
  <2> QED
    BY <1>2, <2>1 DEF ShiftedDown, Highs
<1> QED
  BY <1>1, <1>2

LEMMA AndAt ==
  ASSUME NEW a \in SUBSET Nat, NEW b \in SUBSET Nat, NEW p \in Nat
  PROVE  p \in WordAnd(a, b) <=>
           (IF p % 2 = 0 THEN p + 1 \in a \/ p + 1 \in b \/ (p \in a /\ p \in b)
            ELSE p \in a \/ p \in b)
<1>1. p \in ShiftedDown(Highs(a \cup b)) <=> p % 2 = 0 /\ p + 1 \in a \cup b
  BY DownAt
<1>2. p \in Highs(a \cup b) <=> p % 2 = 1 /\ p \in a \cup b
  BY DEF Highs
<1>3. p \in Lows(a \cap b) <=> p % 2 = 0 /\ p \in a \cap b
  BY DEF Lows
<1>4. p % 2 = 0 \/ p % 2 = 1
  OBVIOUS
<1>5. p \in WordAnd(a, b) <=> p \in Highs(a \cup b) \/ p \in ShiftedDown(Highs(a \cup b)) \/ p \in Lows(a \cap b)
  BY DEF WordAnd
<1> QED
  BY <1>1, <1>2, <1>3, <1>4, <1>5

LEMMA OrAt ==
  ASSUME NEW a \in SUBSET Nat, NEW b \in SUBSET Nat, NEW p \in Nat
  PROVE  p \in WordOr(a, b) <=>
           (IF p % 2 = 0
            THEN \/ p + 1 \in a /\ p + 1 \in b
                 \/ p \in a /\ p \in b
                 \/ (p \in a \/ p \in b) /\ ~(p + 1 \in a \/ p + 1 \in b)
            ELSE p \in a /\ p \in b)
<1> DEFINE high == Highs(a) \cap Highs(b)
           mask == ShiftedDown(Highs(a) \cup Highs(b))
           low == (Lows(a) \cap Lows(b)) \cup ((Lows(a) \cup Lows(b)) \ mask)
<1>1. high = Highs(a \cap b) /\ Highs(a) \cup Highs(b) = Highs(a \cup b)
  BY DEF Highs
<1>2. p \in ShiftedDown(high) <=> p % 2 = 0 /\ p + 1 \in a \cap b
  <2>1. a \cap b \in SUBSET Nat
    OBVIOUS
  <2> QED
    BY <1>1, <2>1, DownAt
<1>3. p \in mask <=> p % 2 = 0 /\ p + 1 \in a \cup b
  <2>1. a \cup b \in SUBSET Nat
    OBVIOUS
  <2> QED
    BY <1>1, <2>1, DownAt
<1>4. p \in high <=> p % 2 = 1 /\ p \in a /\ p \in b
  BY DEF Highs
<1>5. p \in low <=> p % 2 = 0 /\ ((p \in a /\ p \in b) \/ ((p \in a \/ p \in b) /\ ~(p \in mask)))
  BY DEF Lows
<1>6. p % 2 = 0 \/ p % 2 = 1
  OBVIOUS
<1>7. p \in WordOr(a, b) <=> p \in high \/ p \in ShiftedDown(high) \/ p \in low
  BY DEF WordOr
<1> HIDE DEF high, mask, low
<1> QED
  BY <1>2, <1>3, <1>4, <1>5, <1>6, <1>7

(* The results of bytes are bytes.                                         *)
LEMMA OpOnByte ==
  ASSUME NEW op \in WordOps, NEW x \in BitSets, NEW y \in BitSets
  PROVE  WordOp(op, x, y, ByteBits) \in BitSets
<1> SUFFICES ASSUME NEW p \in WordOp(op, x, y, ByteBits) PROVE p \in 0 .. ByteBits - 1
  BY DEF BitSets
<1>0. ByteBits \in Nat
  BY BitsFacts
<1>1. CASE op = "not"
  <2>1. p \in WordNot(x, ByteBits)
    BY <1>1 DEF WordOp
  <2>2. p \in x \/ p \in 0 .. ByteBits - 1
    BY <2>1 DEF WordNot, ShiftedUp
  <2> QED
    BY <2>2 DEF BitSets
<1>2. CASE op # "not"
  <2>1. ASSUME NEW h \in SUBSET (0 .. ByteBits - 1), p \in ShiftedDown(h) PROVE p \in 0 .. ByteBits - 1
    <3>1. PICK bit \in h : p = bit - 1 /\ p \in Nat
      BY <2>1 DEF ShiftedDown
    <3>2. bit \in 0 .. ByteBits - 1
      OBVIOUS
    <3> QED
      BY <3>1, <3>2, <1>0
  <2>2. Highs(x \cup y) \in SUBSET (0 .. ByteBits - 1) /\ Highs(x) \cap Highs(y) \in SUBSET (0 .. ByteBits - 1)
    BY DEF Highs, BitSets
  <2>3. CASE op = "and"
    <3>1. p \in Highs(x \cup y) \/ p \in ShiftedDown(Highs(x \cup y)) \/ p \in Lows(x \cap y)
      BY <2>3 DEF WordOp, WordAnd
    <3> QED
      BY <2>1, <2>2, <3>1 DEF Lows, BitSets
  <2>4. CASE op = "or"
    <3>1. p \in Highs(x) \cap Highs(y) \/ p \in ShiftedDown(Highs(x) \cap Highs(y)) \/ p \in Lows(x) \/ p \in Lows(y)
      BY <2>4 DEF WordOp, WordOr
    <3> QED
      BY <2>1, <2>2, <3>1 DEF Lows, BitSets
  <2> QED
    BY <1>2, <2>3, <2>4 DEF WordOps
<1> QED
  BY <1>1, <1>2

LEMMA Regrouped ==
  ASSUME NEW m \in Int, NEW q \in Int
  PROVE  (m + q) + 1 = m + (q + 1) /\ (m + q) - 1 = m + (q - 1)
OBVIOUS

(* No operation on a word carries anything from one byte to the next.      *)
LEMMA WordIsBytewise ==
  ASSUME NEW a \in Seq(BitSets), NEW b \in Seq(BitSets), Len(a) = Len(b), NEW op \in WordOps
  PROVE  OnWord(op, a, b) = Bytewise(op, a, b)
<1> DEFINE n == ByteBits * Len(a)
           x == JoinedBytes(a)
           y == JoinedBytes(b)
<1>0. x \in SUBSET Nat /\ y \in SUBSET Nat
  BY JoinedIsBits
<1>1. n \in Nat
  BY BitsFacts, SMT
<1>2. SUFFICES ASSUME NEW k \in 1 .. Len(a), NEW q \in 0 .. ByteBits - 1
               PROVE  ByteBits * (k - 1) + q \in WordOp(op, x, y, n) <=> q \in WordOp(op, a[k], b[k], ByteBits)
  <2>1. ASSUME NEW k \in 1 .. Len(a)
        PROVE  {bit \in 0 .. (ByteBits - 1) : ByteBits * (k - 1) + bit \in WordOp(op, x, y, n)} = WordOp(op, a[k], b[k], ByteBits)
    <3>1. WordOp(op, a[k], b[k], ByteBits) \in BitSets
      BY OpOnByte
    <3> QED
      BY <1>2, <3>1 DEF BitSets
  <2> QED
    BY <2>1 DEF OnWord, SplitWord, Bytewise
<1> DEFINE base == ByteBits * (k - 1)
           p == base + q
<1>3. k - 1 \in Nat /\ ByteTrits * (k - 1) \in Nat /\ base = 2 * (ByteTrits * (k - 1)) /\ base \in Nat
  BY BitsFacts, SMT
<1>4. p \in Nat /\ p % 2 = q % 2 /\ q \in Nat
  <2> HIDE DEF base
  <2> QED
    BY <1>3, BitsFacts
<1>5. p \in 0 .. n - 1
  <2>1. PICK d \in Nat : Len(a) = (k - 1) + 1 + d
    <3>1. Len(a) - k \in Nat /\ Len(a) = (k - 1) + 1 + (Len(a) - k)
      OBVIOUS
    <3> QED
      BY <3>1
  <2>2. n = base + ByteBits + ByteBits * d /\ ByteBits * d \in Nat
    BY <1>3, <2>1, BitsFacts, SMT
  <2> HIDE DEF n, base
  <2> QED
    BY <1>1, <1>3, <2>2, BitsFacts
<1>6. a[k] \in SUBSET Nat /\ b[k] \in SUBSET Nat /\ k \in 1 .. Len(b)
  BY BitsFacts DEF BitSets
<1>7. (p \in x <=> q \in a[k]) /\ (p \in y <=> q \in b[k])
  BY <1>6, JoinedAt
<1>8. ASSUME q % 2 = 0
      PROVE  (p + 1 \in x <=> q + 1 \in a[k]) /\ (p + 1 \in y <=> q + 1 \in b[k])
  <2>1. q + 1 \in 0 .. ByteBits - 1
    BY <1>8, BitsFacts
  <2>2. p + 1 = base + (q + 1)
    <3>1. base \in Int /\ q \in Int
      BY <1>3, <1>4
    <3> HIDE DEF base
    <3> QED
      BY <3>1, Regrouped
  <2> QED
    BY <1>6, <2>1, <2>2, JoinedAt
<1>9. ASSUME q % 2 # 0
      PROVE  p - 1 \in x <=> q - 1 \in a[k]
  <2>1. q - 1 \in 0 .. ByteBits - 1
    BY <1>9, BitsFacts
  <2>2. p - 1 = base + (q - 1)
    <3>1. base \in Int /\ q \in Int
      BY <1>3, <1>4
    <3> HIDE DEF base
    <3> QED
      BY <3>1, Regrouped
  <2> QED
    BY <2>1, <2>2, JoinedAt
<1> HIDE DEF p, base, n, x, y
<1>10. CASE op = "not"
  <2>1. p \in WordNot(x, n) <=> (IF p % 2 = 0 THEN p \in x ELSE (p \in x) # (p - 1 \in x))
    BY <1>0, <1>1, <1>5, NotAt
  <2>2. q \in WordNot(a[k], ByteBits) <=> (IF q % 2 = 0 THEN q \in a[k] ELSE (q \in a[k]) # (q - 1 \in a[k]))
    BY <1>6, BitsFacts, NotAt
  <2>3. p \in WordNot(x, n) <=> q \in WordNot(a[k], ByteBits)
    BY <1>4, <1>7, <1>9, <2>1, <2>2
  <2> QED
    BY <1>10, <2>3 DEF WordOp, p, base
<1>11. CASE op = "and"
  <2>1. p \in WordAnd(x, y) <=> (IF p % 2 = 0 THEN p + 1 \in x \/ p + 1 \in y \/ (p \in x /\ p \in y) ELSE p \in x \/ p \in y)
    BY <1>0, <1>4, AndAt
  <2>2. q \in WordAnd(a[k], b[k]) <=>
          (IF q % 2 = 0 THEN q + 1 \in a[k] \/ q + 1 \in b[k] \/ (q \in a[k] /\ q \in b[k]) ELSE q \in a[k] \/ q \in b[k])
    BY <1>4, <1>6, AndAt
  <2>3. p \in WordAnd(x, y) <=> q \in WordAnd(a[k], b[k])
    BY <1>4, <1>7, <1>8, <2>1, <2>2
  <2> QED
    BY <1>11, <2>3 DEF WordOp, p, base
<1>12. CASE op = "or"
  <2>1. p \in WordOr(x, y) <=>
          (IF p % 2 = 0 THEN \/ p + 1 \in x /\ p + 1 \in y
                             \/ p \in x /\ p \in y
                             \/ (p \in x \/ p \in y) /\ ~(p + 1 \in x \/ p + 1 \in y)
           ELSE p \in x /\ p \in y)
    BY <1>0, <1>4, OrAt
  <2>2. q \in WordOr(a[k], b[k]) <=>
          (IF q % 2 = 0 THEN \/ q + 1 \in a[k] /\ q + 1 \in b[k]
                             \/ q \in a[k] /\ q \in b[k]
                             \/ (q \in a[k] \/ q \in b[k]) /\ ~(q + 1 \in a[k] \/ q + 1 \in b[k])
           ELSE q \in a[k] /\ q \in b[k])
    BY <1>4, <1>6, OrAt
  <2>3. p \in WordOr(x, y) <=> q \in WordOr(a[k], b[k])
    BY <1>4, <1>7, <1>8, <2>1, <2>2
  <2> QED
    BY <1>12, <2>3 DEF WordOp, p, base
<1> QED
  BY <1>10, <1>11, <1>12 DEF WordOps, x, y, n

(* The bytes of a part of two vectors, one by one.                         *)
Part(op, a, b, from, to) ==
  [i \in 1 .. (to - from + 1) |-> WordOp(op, a[from - 1 + i], b[from - 1 + i], ByteBits)]

LEMMA Quotient ==
  ASSUME NEW n \in Nat \ {0}, NEW m \in Nat
  PROVE  /\ m \div n \in Nat /\ m % n \in 0 .. n - 1
         /\ m = n * (m \div n) + (m % n)
BY SMT

Fits(bytes, n) == \E m \in Nat : n = bytes * m

LEMMA InWordsPart ==
  ASSUME NEW a \in Seq(BitSets), NEW b \in Seq(BitSets), Len(a) = Len(b), NEW op \in WordOps,
         NEW bytes \in Nat \ {0}, NEW from \in Nat \ {0}, NEW to \in Nat,
         to <= Len(a), Fits(bytes, to - from + 1)
  PROVE  InWords(op, a, b, from, to, bytes) = Part(op, a, b, from, to)
<1> DEFINE Word(s, k) == SubSeq(s, from + k * bytes, from + k * bytes + bytes - 1)
           Done(k) == OnWord(op, Word(a, k), Word(b, k))
<1>0. PICK m \in Nat : to - from + 1 = bytes * m
  BY DEF Fits
<1>1. SUFFICES ASSUME NEW i \in 1 .. (to - from + 1)
               PROVE  Done((i - 1) \div bytes)[((i - 1) % bytes) + 1]
                        = WordOp(op, a[from - 1 + i], b[from - 1 + i], ByteBits)
  BY DEF InWords, Part
<1>2. PICK k \in Nat, j \in 0 .. bytes - 1 :
        k = (i - 1) \div bytes /\ j = (i - 1) % bytes /\ i - 1 = bytes * k + j
  <2> DEFINE x == i - 1
  <2>1. x \in Nat
    OBVIOUS
  <2> HIDE DEF x
  <2>2. /\ x \div bytes \in Nat /\ x % bytes \in 0 .. bytes - 1
        /\ x = bytes * (x \div bytes) + (x % bytes)
    BY <2>1, Quotient
  <2>3. \E k \in Nat, j \in 0 .. bytes - 1 : k = x \div bytes /\ j = x % bytes /\ x = bytes * k + j
    BY <2>2, Zenon
  <2> QED
    BY <2>3 DEF x
<1> DEFINE first == from + k * bytes
           last == first + bytes - 1
<1>3. k < m
  <2> SUFFICES ASSUME k >= m PROVE FALSE
    OBVIOUS
  <2>1. bytes * k >= bytes * m
    <3>1. k - m \in Nat
      OBVIOUS
    <3>2. bytes * (k - m) \in Nat /\ bytes * (k - m) = bytes * k - bytes * m
      BY <3>1, SMT
    <3>3. bytes * k \in Nat /\ bytes * m \in Nat
      BY SMT
    <3> QED
      BY <3>2, <3>3
  <2>2. bytes * k \in Nat /\ bytes * m \in Nat
    BY SMT
  <2> QED
    BY <1>0, <1>2, <2>1, <2>2
<1>4. first \in Nat /\ first = from + (bytes * k) /\ bytes * k \in Nat
  BY SMT
<1>5. first >= 1 /\ last <= to
  <2>1. PICK d \in Nat : m = k + 1 + d
    <3>1. m - (k + 1) \in Nat /\ m = k + 1 + (m - (k + 1))
      BY <1>3
    <3> QED
      BY <3>1
  <2>2. bytes * m = bytes * k + bytes + bytes * d /\ bytes * d \in Nat
    BY <2>1, SMT
  <2> HIDE DEF first
  <2> QED
    BY <1>0, <1>4, <2>2
<1> HIDE DEF first
<1>6. first \in 1 .. Len(a) + 1 /\ last \in 0 .. Len(a) /\ last - first + 1 = bytes /\ last \in Nat /\ first <= last
  BY <1>4, <1>5
<1>7. ASSUME NEW s \in Seq(BitSets), Len(s) = Len(a)
      PROVE  /\ SubSeq(s, first, last) \in Seq(BitSets)
             /\ Len(SubSeq(s, first, last)) = bytes
             /\ SubSeq(s, first, last)[j + 1] = s[from - 1 + i]
  <2>1. SubSeq(s, first, last) = [h \in 1 .. bytes |-> s[h + first - 1]]
    <3>1. SubSeq(s, first, last) = [h \in 1 .. (1 + last - first) |-> s[h + first - 1]]
      BY <1>6, <1>7, SMT
    <3>2. 1 + last - first = bytes
      BY <1>6, <1>4
    <3> QED
      BY <3>1, <3>2
  <2>2. ASSUME NEW h \in 1 .. bytes PROVE s[h + first - 1] \in BitSets
    <3>1. h + first - 1 \in 1 .. Len(s)
      BY <1>4, <1>5, <1>7
    <3> QED
      BY <3>1
  <2>3. SubSeq(s, first, last) \in Seq(BitSets) /\ Len(SubSeq(s, first, last)) = bytes
    <3>1. [h \in 1 .. bytes |-> s[h + first - 1]] \in [1 .. bytes -> BitSets]
      BY <2>2
    <3> HIDE DEF last
    <3> QED
      BY <2>1, <3>1, DigitsAreSeq
  <2>4. j + 1 \in 1 .. bytes /\ (j + 1) + first - 1 = from - 1 + i
    <3> DEFINE skipped == bytes * k
    <3>1. skipped \in Nat /\ first = from + skipped /\ i - 1 = skipped + j
      BY <1>2, <1>4
    <3> HIDE DEF skipped
    <3> QED
      BY <3>1
  <2> QED
    BY <2>1, <2>3, <2>4
<1> HIDE DEF last
<1>8. Done(k) = Bytewise(op, SubSeq(a, first, last), SubSeq(b, first, last))
  <2>1. Word(a, k) = SubSeq(a, first, last) /\ Word(b, k) = SubSeq(b, first, last)
    BY DEF first, last
  <2> DEFINE u == SubSeq(a, first, last)
             v == SubSeq(b, first, last)
  <2>2. u \in Seq(BitSets) /\ v \in Seq(BitSets) /\ Len(u) = Len(v)
    BY <1>7
  <2>3. Done(k) = OnWord(op, u, v)
    BY <2>1
  <2> HIDE DEF u, v
  <2>4. OnWord(op, u, v) = Bytewise(op, u, v)
    BY <2>2, WordIsBytewise
  <2> QED
    BY <2>3, <2>4 DEF u, v
<1>9. j + 1 \in 1 .. Len(SubSeq(a, first, last))
  <2>1. Len(SubSeq(a, first, last)) = bytes
    BY <1>7
  <2>2. j + 1 \in 1 .. bytes
    BY ONLY j \in 0 .. bytes - 1, bytes \in Nat \ {0}
  <2> QED
    BY <2>1, <2>2
<1>10. Done(k)[j + 1] = WordOp(op, a[from - 1 + i], b[from - 1 + i], ByteBits)
  BY <1>7, <1>8, <1>9 DEF Bytewise
<1> QED
  BY <1>2, <1>10

TwoParts(op, a, b, from, mid, to) == Part(op, a, b, from, mid) \o Part(op, a, b, mid + 1, to)

LEMMA PartsMeet ==
  ASSUME NEW a \in Seq(BitSets), NEW b \in Seq(BitSets), NEW op \in WordOps,
         NEW from \in Nat \ {0}, NEW mid \in Nat, NEW to \in Nat,
         from <= mid + 1, mid <= to
  PROVE  TwoParts(op, a, b, from, mid, to) = Part(op, a, b, from, to)
<1> DEFINE p == Part(op, a, b, from, mid)
           q == Part(op, a, b, mid + 1, to)
           S == {WordOp(op, a[i], b[i], ByteBits) : i \in Nat}
           n == mid - from + 1
           l == to - (mid + 1) + 1
<1>0. n \in Nat /\ l \in Nat /\ n + l = to - from + 1
  OBVIOUS
<1>1. p \in Seq(S) /\ Len(p) = n /\ \A i \in 1 .. n : p[i] = WordOp(op, a[from - 1 + i], b[from - 1 + i], ByteBits)
  <2>1. p \in [1 .. n -> S]
    BY DEF Part
  <2> QED
    BY <1>0, <2>1, DigitsAreSeq DEF Part
<1>2. q \in Seq(S) /\ Len(q) = l /\ \A i \in 1 .. l : q[i] = WordOp(op, a[mid + i], b[mid + i], ByteBits)
  <2>1. q \in [1 .. l -> S]
    BY DEF Part
  <2>2. \A i \in 1 .. l : (mid + 1) - 1 + i = mid + i
    OBVIOUS
  <2>3. q \in Seq(S) /\ Len(q) = l
    BY <1>0, <2>1, DigitsAreSeq
  <2> QED
    BY <2>2, <2>3 DEF Part
<1>3. Part(op, a, b, from, to) \in Seq(S) /\ Len(Part(op, a, b, from, to)) = n + l
  <2>0. \A i \in 1 .. n + l : from - 1 + i \in Nat
    BY <1>0
  <2>1. Part(op, a, b, from, to) \in [1 .. n + l -> S]
    <3> HIDE DEF n, l
    <3> QED
      BY <1>0, <2>0 DEF Part
  <2>2. n + l \in Nat
    BY <1>0
  <2> HIDE DEF n, l, S
  <2> QED
    BY <2>1, <2>2, DigitsAreSeq
<1> HIDE DEF p, q, S, n, l
<1>4. /\ p \o q \in Seq(S) /\ Len(p \o q) = n + l
      /\ \A i \in 1 .. n + l : (p \o q)[i] = IF i <= n THEN p[i] ELSE q[i - n]
  <2>1. /\ p \o q \in Seq(S) /\ Len(p \o q) = Len(p) + Len(q)
        /\ \A i \in 1 .. Len(p) + Len(q) : (p \o q)[i] = IF i <= Len(p) THEN p[i] ELSE q[i - Len(p)]
    <3>1. p \in Seq(S) /\ q \in Seq(S)
      BY <1>1, <1>2
    <3> QED
      BY ONLY <3>1, ConcatProperties
  <2> QED
    BY <1>1, <1>2, <2>1
<1>5. ASSUME NEW i \in 1 .. n + l
      PROVE  (p \o q)[i] = Part(op, a, b, from, to)[i]
  <2>0. Part(op, a, b, from, to)[i] = WordOp(op, a[from - 1 + i], b[from - 1 + i], ByteBits)
    BY <1>0 DEF Part
  <2>1. CASE i <= n
    <3>1. i \in 1 .. n
      BY <1>0, <2>1
    <3> QED
      BY <1>1, <1>4, <2>0, <2>1, <3>1
  <2>2. CASE ~(i <= n)
    <3>1. i - n \in 1 .. l /\ mid + (i - n) = from - 1 + i
      BY <1>0, <2>2 DEF n
    <3> QED
      BY <1>2, <1>4, <2>0, <2>2, <3>1
  <2> QED
    BY <2>1, <2>2
<1>6. p \o q = Part(op, a, b, from, to)
  BY <1>3, <1>4, <1>5, SeqEqual
<1> QED
  BY <1>6 DEF p, q, TwoParts

LEMMA WholeFacts ==
  ASSUME NEW n \in Nat, NEW block \in Nat \ {0}
  PROVE  /\ WholeBytes(n, block) \in 0 .. n
         /\ n \div block \in Nat
         /\ WholeBytes(n, block) = block * (n \div block)
<1>1. /\ n \div block \in Nat /\ n % block \in 0 .. block - 1
      /\ n = block * (n \div block) + (n % block)
  BY Quotient
<1>2. block * (n \div block) \in Nat
  BY <1>1, SMT
<1> HIDE DEF WholeBytes
<1>3. WholeBytes(n, block) = n - (n % block)
  BY DEF WholeBytes
<1> QED
  BY <1>1, <1>2, <1>3

(* Words of eight bytes and single bytes make the same of the rest.        *)
LEMMA SwarFromIs ==
  ASSUME NEW a \in Seq(BitSets), NEW b \in Seq(BitSets), Len(a) = Len(b), NEW op \in WordOps,
         NEW from \in 1 .. Len(a) + 1
  PROVE  SwarFrom(op, a, b, from) = Part(op, a, b, from, Len(a))
<1> DEFINE n == Len(a) - from + 1
           whole == from - 1 + WholeBytes(n, WordBytes)
<1>0. Len(a) \in Nat /\ n \in Nat /\ WordBytes \in Nat \ {0}
  BY VectorAssumption
<1>1. /\ WholeBytes(n, WordBytes) \in 0 .. n
      /\ n \div WordBytes \in Nat
      /\ WholeBytes(n, WordBytes) = WordBytes * (n \div WordBytes)
  BY <1>0, WholeFacts
<1>2. /\ whole \in Nat /\ from <= whole + 1 /\ whole + 1 \in Nat /\ whole <= Len(a)
      /\ whole - from + 1 = WordBytes * (n \div WordBytes)
  <2>1. /\ whole \in Nat /\ from <= whole + 1 /\ whole + 1 \in Nat /\ whole <= Len(a)
        /\ whole - from + 1 = WholeBytes(n, WordBytes)
    <3>1. WholeBytes(n, WordBytes) \in 0 .. n
      BY <1>1
    <3> QED
      BY <1>0, <3>1
  <2> QED
    BY <1>1, <2>1
<1>3. SwarFrom(op, a, b, from) = InWords(op, a, b, from, whole, WordBytes) \o InWords(op, a, b, whole + 1, Len(a), 1)
  BY DEF SwarFrom
<1> HIDE DEF whole
<1>4. InWords(op, a, b, from, whole, WordBytes) = Part(op, a, b, from, whole)
  <2>1. from \in Nat \ {0} /\ Fits(WordBytes, whole - from + 1)
    BY <1>1, <1>2 DEF Fits
  <2> HIDE DEF n
  <2> QED
    BY <1>0, <1>2, <2>1, InWordsPart
<1>5. InWords(op, a, b, whole + 1, Len(a), 1) = Part(op, a, b, whole + 1, Len(a))
  <2>0. Len(a) - whole \in Nat /\ Len(a) - (whole + 1) + 1 = 1 * (Len(a) - whole)
    BY <1>0, <1>2
  <2>1. whole + 1 \in Nat \ {0}
    BY <1>2
  <2>3. Fits(1, Len(a) - (whole + 1) + 1)
    BY <2>0 DEF Fits
  <2>2. 1 \in Nat \ {0} /\ Len(a) <= Len(a)
    BY <1>0
  <2> QED
    BY <1>0, <2>1, <2>2, <2>3, InWordsPart
<1>6. from \in Nat \ {0}
  OBVIOUS
<1> QED
  <2>1. TwoParts(op, a, b, from, whole, Len(a)) = Part(op, a, b, from, Len(a))
    BY <1>0, <1>2, <1>6, PartsMeet
  <2> QED
    BY <1>3, <1>4, <1>5, <2>1 DEF TwoParts

LEMMA PartOfAll ==
  ASSUME NEW a \in Seq(BitSets), NEW b, NEW op
  PROVE  Part(op, a, b, 1, Len(a)) = Bytewise(op, a, b)
<1>1. Len(a) - 1 + 1 = Len(a) /\ \A i \in 1 .. Len(a) : 1 - 1 + i = i
  OBVIOUS
<1> QED
  BY <1>1 DEF Part, Bytewise

(* Vector registers first, in pieces of some bytes, and then the words.    *)
LEMMA BlocksThenWords ==
  ASSUME NEW a \in Seq(BitSets), NEW b \in Seq(BitSets), Len(a) = Len(b), NEW op \in WordOps,
         NEW bytes \in Nat \ {0}, NEW whole \in 0 .. Len(a), Fits(bytes, whole),
         NEW next, next = whole + 1
  PROVE  InWords(op, a, b, 1, whole, bytes) \o SwarFrom(op, a, b, next) = Bytewise(op, a, b)
<1>1. /\ Len(a) \in Nat /\ 1 \in Nat \ {0} /\ whole \in Nat /\ whole <= Len(a) /\ 1 <= whole + 1
      /\ next \in 1 .. Len(a) + 1 /\ next \in Nat /\ whole - 1 + 1 = whole
  OBVIOUS
<1>2. InWords(op, a, b, 1, whole, bytes) = Part(op, a, b, 1, whole)
  BY <1>1, InWordsPart
<1>3. SwarFrom(op, a, b, next) = Part(op, a, b, next, Len(a))
  BY <1>1, SwarFromIs
<1>4. Part(op, a, b, 1, whole) \o Part(op, a, b, next, Len(a)) = Part(op, a, b, 1, Len(a))
  <2>1. TwoParts(op, a, b, 1, whole, Len(a)) = Part(op, a, b, 1, Len(a))
    BY <1>1, PartsMeet
  <2> QED
    BY <2>1 DEF TwoParts
<1> QED
  BY <1>2, <1>3, <1>4, PartOfAll

(* Whole registers are whole words.                                        *)
LEMMA WholeRegisters ==
  ASSUME NEW n \in Nat, NEW bytes \in Nat \ {0}, NEW block \in Nat \ {0}, Fits(bytes, block)
  PROVE  /\ WholeBytes(n, block) \in 0 .. n
         /\ Fits(bytes, WholeBytes(n, block))
<1> DEFINE blocks == n \div block
<1>1. PICK registers \in Nat : block = bytes * registers
  BY DEF Fits
<1>2. WholeBytes(n, block) \in 0 .. n /\ blocks \in Nat /\ WholeBytes(n, block) = block * blocks
  BY WholeFacts
<1> HIDE DEF blocks
<1>3. registers * blocks \in Nat /\ (bytes * registers) * blocks = bytes * (registers * blocks)
  BY <1>2, SMT
<1> QED
  BY <1>1, <1>2, <1>3 DEF Fits

(* Every kernel (kernel_not, kernel_and, kernel_or) that the length and    *)
(* the machine select works byte by byte: no lane is skipped, done twice,  *)
(* or reached by its neighbour's bits.                                     *)
THEOREM KernelsExact ==
  ASSUME NEW a \in Seq(BitSets), NEW b \in Seq(BitSets), Len(a) = Len(b), NEW op \in WordOps, NEW build
  PROVE  /\ Kernel(op, a, b, build) = Bytewise(op, a, b)
         /\ KernelSwar(op, a, b) = Bytewise(op, a, b)
<1>0. Len(a) \in Nat /\ WordBytes \in Nat \ {0}
  BY VectorAssumption
<1>1. KernelSwar(op, a, b) = Bytewise(op, a, b)
  BY <1>0, SwarFromIs, PartOfAll DEF KernelSwar
<1>2. OnWord(op, a, b) = Bytewise(op, a, b)
  BY WordIsBytewise
<1>3. InWords(op, a, b, 1, Len(a), 1) = Bytewise(op, a, b)
  <2>0. Len(a) - 1 + 1 = 1 * Len(a)
    BY <1>0
  <2>1. Fits(1, Len(a) - 1 + 1) /\ 1 \in Nat \ {0} /\ Len(a) <= Len(a)
    BY <1>0, <2>0 DEF Fits
  <2>2. InWords(op, a, b, 1, Len(a), 1) = Part(op, a, b, 1, Len(a))
    BY <1>0, <2>1, InWordsPart
  <2> QED
    BY <2>2, PartOfAll
<1>4. ASSUME Len(a) = 2 * WordBytes
      PROVE  InWords(op, a, b, 1, Len(a), WordBytes) = Bytewise(op, a, b)
  <2>0. Len(a) - 1 + 1 = WordBytes * 2 /\ 2 \in Nat
    BY <1>0, <1>4
  <2>1. Fits(WordBytes, Len(a) - 1 + 1) /\ 1 \in Nat \ {0} /\ Len(a) <= Len(a)
    BY <1>0, <2>0 DEF Fits
  <2>2. InWords(op, a, b, 1, Len(a), WordBytes) = Part(op, a, b, 1, Len(a))
    BY <1>0, <2>1, InWordsPart
  <2> QED
    BY <2>2, PartOfAll
<1>5. KernelAvx2(op, a, b) = Bytewise(op, a, b)
  <2> DEFINE whole == WholeBytes(Len(a), 4 * WordBytes)
  <2>0. 4 * WordBytes \in Nat \ {0} /\ Fits(WordBytes, 4 * WordBytes)
    <3>1. 4 \in Nat /\ 4 * WordBytes = WordBytes * 4 /\ 4 * WordBytes \in Nat \ {0}
      BY <1>0
    <3> QED
      BY <3>1 DEF Fits
  <2>1. whole \in 0 .. Len(a) /\ Fits(WordBytes, whole)
    BY <1>0, <2>0, WholeRegisters
  <2> HIDE DEF whole
  <2>2. InWords(op, a, b, 1, whole, WordBytes) \o SwarFrom(op, a, b, whole + 1) = Bytewise(op, a, b)
    BY <1>0, <2>1, BlocksThenWords
  <2> QED
    BY <2>2 DEF KernelAvx2, whole
<1>6. KernelNeon(op, a, b) = Bytewise(op, a, b)
  <2> DEFINE whole == WholeBytes(Len(a), 2 * WordBytes)
  <2>0. 2 * WordBytes \in Nat \ {0}
    BY <1>0
  <2>1. whole \in 0 .. Len(a)
    BY <1>0, <2>0, WholeFacts
  <2> HIDE DEF whole
  <2>2. 1 \in Nat \ {0} /\ whole \in Nat /\ whole = 1 * whole
    BY <1>0, <2>1
  <2>3. Fits(1, whole)
    BY <2>2 DEF Fits
  <2>4. InWords(op, a, b, 1, whole, 1) \o SwarFrom(op, a, b, whole + 1) = Bytewise(op, a, b)
    BY <2>1, <2>2, <2>3, BlocksThenWords
  <2> QED
    BY <2>4 DEF KernelNeon, whole
<1>7. FastTiny(op, a, b) = Bytewise(op, a, b)
  BY <1>2, <1>3 DEF FastTiny
<1>8. FastSmall(op, a, b) = Bytewise(op, a, b)
  BY <1>1, <1>4 DEF FastSmall
<1>9. Kernel(op, a, b, build) \in {FastTiny(op, a, b), FastSmall(op, a, b), KernelAvx2(op, a, b), KernelNeon(op, a, b), KernelSwar(op, a, b)}
  BY DEF Kernel
<1> QED
  BY <1>1, <1>5, <1>6, <1>7, <1>8, <1>9


(* Lanes and the trits they stand for.                                     *)
TritOps == WordOps \cup {"xor"}
PackedLanes(T) == UNION {LaneBits(T[lane], lane) : lane \in Lanes}

LEMMA LaneOf ==
  ASSUME NEW p \in 0 .. ByteBits - 1
  PROVE  p \div 2 \in Lanes /\ (p = 2 * (p \div 2) \/ p = 2 * (p \div 2) + 1)
BY BitsFacts DEF Lanes

LEMMA LanePlaces ==
  ASSUME NEW lane \in Lanes
  PROVE  2 * lane \in 0 .. ByteBits - 1 /\ 2 * lane + 1 \in 0 .. ByteBits - 1 /\ lane \in Nat
BY BitsFacts DEF Lanes

LEMMA LanesAt ==
  ASSUME NEW T \in [Lanes -> -1 .. 1], NEW lane \in Lanes
  PROVE  /\ 2 * lane \in PackedLanes(T) <=> T[lane] # 0
         /\ 2 * lane + 1 \in PackedLanes(T) <=> T[lane] = -1
         /\ PackedLanes(T) \in BitSets
<1>0. T[lane] \in -1 .. 1 /\ lane \in Nat
  BY LanePlaces
<1>1. ASSUME NEW l \in Lanes, NEW p \in LaneBits(T[l], l)
      PROVE  /\ p \in 0 .. ByteBits - 1
             /\ p = 2 * lane => l = lane /\ T[lane] # 0
             /\ p = 2 * lane + 1 => l = lane /\ T[lane] = -1
  <2>1. T[l] \in -1 .. 1 /\ l \in Nat /\ 2 * l \in 0 .. ByteBits - 1 /\ 2 * l + 1 \in 0 .. ByteBits - 1
    BY LanePlaces
  <2>2. (p = 2 * l /\ T[l] # 0) \/ (p = 2 * l + 1 /\ T[l] = -1)
    BY <2>1 DEF LaneBits
  <2> QED
    BY <1>0, <2>1, <2>2
<1>2. T[lane] # 0 => 2 * lane \in LaneBits(T[lane], lane)
  BY <1>0 DEF LaneBits
<1>3. T[lane] = -1 => 2 * lane + 1 \in LaneBits(T[lane], lane)
  BY <1>0 DEF LaneBits
<1>4. \A p : p \in PackedLanes(T) <=> \E l \in Lanes : p \in LaneBits(T[l], l)
  BY DEF PackedLanes
<1> QED
  BY <1>1, <1>2, <1>3, <1>4 DEF BitSets

(* Two bytes of trits are equal when their lanes are.                      *)
LEMMA SameLanes ==
  ASSUME NEW x \in BitSets, NEW y \in BitSets,
         \A lane \in Lanes : (2 * lane \in x <=> 2 * lane \in y) /\ (2 * lane + 1 \in x <=> 2 * lane + 1 \in y)
  PROVE  x = y
<1>1. ASSUME NEW p \in 0 .. ByteBits - 1 PROVE p \in x <=> p \in y
  BY LaneOf
<1> QED
  BY <1>1 DEF BitSets

LEMMA LaneTritAt ==
  ASSUME NEW x, NEW lane, LaneTrit(x, lane) # 2
  PROVE  /\ LaneTrit(x, lane) \in -1 .. 1
         /\ 2 * lane \in x <=> LaneTrit(x, lane) # 0
         /\ 2 * lane + 1 \in x <=> LaneTrit(x, lane) = -1
<1>1. LaneTrit(x, lane) = IF 2 * lane + 1 \in x THEN IF 2 * lane \in x THEN -1 ELSE 2
                          ELSE IF 2 * lane \in x THEN 1 ELSE 0
  BY DEF LaneTrit
<1> QED
  BY <1>1

LEMMA PackedLaneTrit ==
  ASSUME NEW T \in [Lanes -> -1 .. 1], NEW lane \in Lanes
  PROVE  LaneTrit(PackedLanes(T), lane) = T[lane]
<1>1. T[lane] \in -1 .. 1
  OBVIOUS
<1>2. LaneTrit(PackedLanes(T), lane) =
        IF T[lane] = -1 THEN IF T[lane] # 0 THEN -1 ELSE 2 ELSE IF T[lane] # 0 THEN 1 ELSE 0
  BY LanesAt DEF LaneTrit
<1> QED
  BY <1>1, <1>2

LEMMA MinMaxOfTwo ==
  ASSUME NEW x \in Int, NEW y \in Int
  PROVE  /\ Min({x, y}) = IF x <= y THEN x ELSE y
         /\ Max({x, y}) = IF x <= y THEN y ELSE x
<1>1. Min({x, y}) \in {x, y} /\ \A z \in {x, y} : Min({x, y}) <= z
  <2>1. \E m \in {x, y} : \A z \in {x, y} : m <= z
    <3>1. x <= y \/ y <= x
      OBVIOUS
    <3> QED
      BY <3>1
  <2> QED
    BY <2>1 DEF Min
<1>2. Max({x, y}) \in {x, y} /\ \A z \in {x, y} : z <= Max({x, y})
  <2>1. \E m \in {x, y} : \A z \in {x, y} : z <= m
    <3>1. x <= y \/ y <= x
      OBVIOUS
    <3> QED
      BY <3>1
  <2> QED
    BY <2>1 DEF Max
<1> HIDE DEF Min, Max
<1> QED
  BY <1>1, <1>2

LEMMA ScalarFacts ==
  ASSUME NEW op \in TritOps, NEW x \in -1 .. 1, NEW y \in -1 .. 1
  PROVE  /\ Scalar(op, x, y) \in -1 .. 1
         /\ op = "not" => Scalar(op, x, y) = -x
         /\ op = "and" => Scalar(op, x, y) = IF x <= y THEN x ELSE y
         /\ op = "or" => Scalar(op, x, y) = IF x <= y THEN y ELSE x
         /\ Scalar(op, 0, 0) = 0
<1>1. CASE op = "not"
  <2>1. Scalar("not", x, y) = -x /\ Scalar("not", 0, 0) = -0
    BY SMT DEF Scalar
  <2> QED
    BY <1>1, <2>1
<1>2. CASE op = "and"
  <2>1. Scalar("and", x, y) = Min({x, y}) /\ Scalar("and", 0, 0) = Min({0, 0})
    BY DEF Scalar
  <2>2. Min({x, y}) = (IF x <= y THEN x ELSE y) /\ Min({0, 0}) = 0
    BY MinMaxOfTwo
  <2> QED
    BY <1>2, <2>1, <2>2
<1>3. CASE op = "or"
  <2>1. Scalar("or", x, y) = Max({x, y}) /\ Scalar("or", 0, 0) = Max({0, 0})
    BY DEF Scalar
  <2>2. Max({x, y}) = IF x <= y THEN y ELSE x
    BY MinMaxOfTwo
  <2>3. Max({0, 0}) = 0
    BY MinMaxOfTwo
  <2> QED
    BY <1>3, <2>1, <2>2, <2>3
<1>4. CASE op = "xor"
  BY <1>4 DEF Scalar
<1> QED
  BY <1>1, <1>2, <1>3, <1>4 DEF TritOps, WordOps

(* What a word makes of two trits is what the operation makes of them.     *)
LEMMA WordOpOnLane ==
  ASSUME NEW op \in WordOps, NEW x \in BitSets, NEW y \in BitSets, NEW lane \in Lanes,
         LaneTrit(x, lane) # 2, LaneTrit(y, lane) # 2
  PROVE  /\ 2 * lane \in WordOp(op, x, y, ByteBits)
              <=> Scalar(op, LaneTrit(x, lane), LaneTrit(y, lane)) # 0
         /\ 2 * lane + 1 \in WordOp(op, x, y, ByteBits)
              <=> Scalar(op, LaneTrit(x, lane), LaneTrit(y, lane)) = -1
<1> DEFINE u == LaneTrit(x, lane)
           v == LaneTrit(y, lane)
           low == 2 * lane
           high == 2 * lane + 1
<1>1. /\ u \in -1 .. 1 /\ v \in -1 .. 1
      /\ low \in x <=> u # 0
      /\ high \in x <=> u = -1
      /\ low \in y <=> v # 0
      /\ high \in y <=> v = -1
  BY LaneTritAt
<1>2. /\ low \in 0 .. ByteBits - 1 /\ high \in 0 .. ByteBits - 1 /\ low \in Nat /\ high \in Nat
      /\ low % 2 = 0 /\ high % 2 # 0 /\ low + 1 = high /\ high - 1 = low
  BY LanePlaces, BitsFacts
<1>3. x \in SUBSET Nat /\ y \in SUBSET Nat /\ ByteBits \in Nat
  BY BitsFacts DEF BitSets
<1>4. /\ op = "not" => Scalar(op, u, v) = -u
      /\ op = "and" => Scalar(op, u, v) = IF u <= v THEN u ELSE v
      /\ op = "or" => Scalar(op, u, v) = IF u <= v THEN v ELSE u
  BY <1>1, ScalarFacts DEF TritOps
<1> HIDE DEF u, v, low, high
<1>5. CASE op = "not"
  <2>1. low \in WordNot(x, ByteBits) <=> (IF low % 2 = 0 THEN low \in x ELSE (low \in x) # (low - 1 \in x))
    BY <1>2, <1>3, NotAt
  <2>2. high \in WordNot(x, ByteBits) <=> (IF high % 2 = 0 THEN high \in x ELSE (high \in x) # (high - 1 \in x))
    BY <1>2, <1>3, NotAt
  <2>3. (low \in WordNot(x, ByteBits) <=> u # 0) /\ (high \in WordNot(x, ByteBits) <=> -u = -1)
    BY <1>1, <1>2, <2>1, <2>2
  <2>4. (u # 0 <=> -u # 0) /\ WordOp(op, x, y, ByteBits) = WordNot(x, ByteBits)
    BY <1>1, <1>5 DEF WordOp
  <2> QED
    BY <1>4, <1>5, <2>3, <2>4 DEF u, v, low, high
<1>6. CASE op = "and"
  <2>1. low \in WordAnd(x, y) <=>
          (IF low % 2 = 0 THEN low + 1 \in x \/ low + 1 \in y \/ (low \in x /\ low \in y) ELSE low \in x \/ low \in y)
    BY <1>2, <1>3, AndAt
  <2>2. high \in WordAnd(x, y) <=>
          (IF high % 2 = 0 THEN high + 1 \in x \/ high + 1 \in y \/ (high \in x /\ high \in y) ELSE high \in x \/ high \in y)
    BY <1>2, <1>3, AndAt
  <2>3. /\ low \in WordAnd(x, y) <=> u = -1 \/ v = -1 \/ (u # 0 /\ v # 0)
        /\ high \in WordAnd(x, y) <=> u = -1 \/ v = -1
    BY <1>1, <1>2, <2>1, <2>2
  <2>4. WordOp(op, x, y, ByteBits) = WordAnd(x, y)
    BY <1>6 DEF WordOp
  <2>5. /\ (IF u <= v THEN u ELSE v) # 0 <=> u = -1 \/ v = -1 \/ (u # 0 /\ v # 0)
        /\ (IF u <= v THEN u ELSE v) = -1 <=> u = -1 \/ v = -1
    BY <1>1
  <2> QED
    BY <1>4, <1>6, <2>3, <2>4, <2>5 DEF u, v, low, high
<1>7. CASE op = "or"
  <2>1. low \in WordOr(x, y) <=>
          (IF low % 2 = 0
           THEN \/ low + 1 \in x /\ low + 1 \in y
                \/ low \in x /\ low \in y
                \/ (low \in x \/ low \in y) /\ ~(low + 1 \in x \/ low + 1 \in y)
           ELSE low \in x /\ low \in y)
    BY <1>2, <1>3, OrAt
  <2>2. high \in WordOr(x, y) <=>
          (IF high % 2 = 0
           THEN \/ high + 1 \in x /\ high + 1 \in y
                \/ high \in x /\ high \in y
                \/ (high \in x \/ high \in y) /\ ~(high + 1 \in x \/ high + 1 \in y)
           ELSE high \in x /\ high \in y)
    BY <1>2, <1>3, OrAt
  <2>3. /\ low \in WordOr(x, y) <=> \/ u = -1 /\ v = -1
                                    \/ u # 0 /\ v # 0
                                    \/ (u # 0 \/ v # 0) /\ ~(u = -1 \/ v = -1)
        /\ high \in WordOr(x, y) <=> u = -1 /\ v = -1
    BY <1>1, <1>2, <2>1, <2>2
  <2>4. WordOp(op, x, y, ByteBits) = WordOr(x, y)
    BY <1>7 DEF WordOp
  <2>5. /\ (IF u <= v THEN v ELSE u) # 0 <=> \/ u = -1 /\ v = -1
                                             \/ u # 0 /\ v # 0
                                             \/ (u # 0 \/ v # 0) /\ ~(u = -1 \/ v = -1)
        /\ (IF u <= v THEN v ELSE u) = -1 <=> u = -1 /\ v = -1
    BY <1>1
  <2> QED
    BY <1>4, <1>7, <2>3, <2>4, <2>5 DEF u, v, low, high
<1> QED
  BY <1>5, <1>6, <1>7 DEF WordOps

(* The table of an operation holds what the words compute.                 *)
LEMMA TablesAgree ==
  ASSUME NEW op \in WordOps, NEW x \in BitSets, NEW y \in BitSets,
         \A lane \in Lanes : LaneTrit(x, lane) # 2 /\ LaneTrit(y, lane) # 2
  PROVE  LutByte(op, x, y) = WordOp(op, x, y, ByteBits)
<1> DEFINE T == [lane \in Lanes |-> Scalar(op, LaneTrit(x, lane), LaneTrit(y, lane))]
<1>1. T \in [Lanes -> -1 .. 1]
  <2>1. ASSUME NEW lane \in Lanes PROVE Scalar(op, LaneTrit(x, lane), LaneTrit(y, lane)) \in -1 .. 1
    <3>1. LaneTrit(x, lane) \in -1 .. 1 /\ LaneTrit(y, lane) \in -1 .. 1
      BY LaneTritAt
    <3> QED
      BY <3>1, ScalarFacts DEF TritOps
  <2> QED
    BY <2>1
<1>2. LutByte(op, x, y) = PackedLanes(T)
  <2>1. ~\E lane \in Lanes : 2 \in {LaneTrit(x, lane), LaneTrit(y, lane)}
    OBVIOUS
  <2>2. \A lane \in Lanes : T[lane] = Scalar(op, LaneTrit(x, lane), LaneTrit(y, lane))
    OBVIOUS
  <2> HIDE DEF T
  <2> QED
    BY <2>1, <2>2 DEF LutByte, PackedLanes
<1>3. ASSUME NEW lane \in Lanes
      PROVE  /\ 2 * lane \in PackedLanes(T) <=> 2 * lane \in WordOp(op, x, y, ByteBits)
             /\ 2 * lane + 1 \in PackedLanes(T) <=> 2 * lane + 1 \in WordOp(op, x, y, ByteBits)
  <2>1. T[lane] = Scalar(op, LaneTrit(x, lane), LaneTrit(y, lane))
    OBVIOUS
  <2> HIDE DEF T
  <2> QED
    BY <1>1, <2>1, LanesAt, WordOpOnLane
<1> HIDE DEF T
<1>4. PackedLanes(T) \in BitSets
  <2>1. 0 \in Lanes
    BY BitsFacts DEF Lanes
  <2> QED
    BY <1>1, <2>1, LanesAt
<1>5. WordOp(op, x, y, ByteBits) \in BitSets
  BY OpOnByte
<1> QED
  BY <1>2, <1>3, <1>4, <1>5, SameLanes

LEMMA TableOfTrits ==
  ASSUME NEW op \in TritOps, NEW T \in [Lanes -> -1 .. 1], NEW U \in [Lanes -> -1 .. 1]
  PROVE  LutByte(op, PackedLanes(T), PackedLanes(U)) = PackedLanes([lane \in Lanes |-> Scalar(op, T[lane], U[lane])])
<1> DEFINE W == [lane \in Lanes |-> Scalar(op, T[lane], U[lane])]
<1>1. ASSUME NEW lane \in Lanes
      PROVE  LaneTrit(PackedLanes(T), lane) = T[lane] /\ LaneTrit(PackedLanes(U), lane) = U[lane]
  BY PackedLaneTrit
<1>2. ~\E lane \in Lanes : 2 \in {LaneTrit(PackedLanes(T), lane), LaneTrit(PackedLanes(U), lane)}
  BY <1>1
<1>3. LutByte(op, PackedLanes(T), PackedLanes(U))
        = UNION {LaneBits(Scalar(op, LaneTrit(PackedLanes(T), lane), LaneTrit(PackedLanes(U), lane)), lane) : lane \in Lanes}
  BY <1>2 DEF LutByte
<1>4. \A lane \in Lanes : W[lane] = Scalar(op, LaneTrit(PackedLanes(T), lane), LaneTrit(PackedLanes(U), lane))
  BY <1>1
<1> HIDE DEF W
<1>5. LutByte(op, PackedLanes(T), PackedLanes(U)) = PackedLanes(W)
  BY <1>3, <1>4 DEF PackedLanes
<1> QED
  BY <1>5 DEF W

(************************ vectors and their trits **************************)
TritRange == -1 .. 1
LanesOf(s, k) == [lane \in Lanes |-> Group(s, k, ByteTrits)[lane + 1]]
PackedData(s) == [k \in 1 .. Groups(Len(s), ByteTrits) |-> PackedLanes(LanesOf(s, k))]

LEMMA LanesOfFacts ==
  ASSUME NEW s \in Seq(TritRange), NEW k \in Nat
  PROVE  /\ LanesOf(s, k) \in [Lanes -> TritRange]
         /\ \A lane \in Lanes :
              LanesOf(s, k)[lane] = IF (k - 1) * ByteTrits + (lane + 1) \in 1 .. Len(s)
                                    THEN s[(k - 1) * ByteTrits + (lane + 1)] ELSE 0
<1>1. ASSUME NEW lane \in Lanes
      PROVE  /\ LanesOf(s, k)[lane] = IF (k - 1) * ByteTrits + (lane + 1) \in 1 .. Len(s)
                                      THEN s[(k - 1) * ByteTrits + (lane + 1)] ELSE 0
             /\ LanesOf(s, k)[lane] \in TritRange
  <2>1. lane + 1 \in 1 .. ByteTrits
    BY BitsFacts DEF Lanes
  <2>2. DOMAIN s = 1 .. Len(s)
    OBVIOUS
  <2> DEFINE j == lane + 1
             p == (k - 1) * ByteTrits + j
  <2>3. LanesOf(s, k)[lane] = Group(s, k, ByteTrits)[j]
    BY DEF LanesOf
  <2>4. j \in 1 .. ByteTrits
    BY <2>1
  <2> HIDE DEF j
  <2>5. LanesOf(s, k)[lane] = IF p \in 1 .. Len(s) THEN s[p] ELSE 0
    BY <2>2, <2>3, <2>4 DEF Group
  <2> HIDE DEF p
  <2>6. p \in 1 .. Len(s) => s[p] \in TritRange
    BY ElementOfSeq
  <2>7. LanesOf(s, k)[lane] \in TritRange
    BY <2>5, <2>6 DEF TritRange
  <2> QED
    BY <2>5, <2>7 DEF p, j
<1> QED
  BY <1>1 DEF LanesOf

LEMMA ByteOfGroup ==
  ASSUME NEW s \in Seq(TritRange), NEW k \in Nat
  PROVE  UNION {LaneBits(Group(s, k, ByteTrits)[j], j - 1) : j \in DOMAIN Group(s, k, ByteTrits)} = PackedLanes(LanesOf(s, k))
<1> DEFINE G == Group(s, k, ByteTrits)
<1>1. DOMAIN G = 1 .. ByteTrits
  BY DEF Group
<1>2. \A lane \in Lanes : LanesOf(s, k)[lane] = G[lane + 1]
  BY DEF LanesOf
<1> HIDE DEF G
<1>3. ASSUME NEW j \in 1 .. ByteTrits
      PROVE  j - 1 \in Lanes /\ LaneBits(G[j], j - 1) = LaneBits(LanesOf(s, k)[j - 1], j - 1)
  <2>1. j - 1 \in Lanes /\ (j - 1) + 1 = j
    BY BitsFacts DEF Lanes
  <2> QED
    BY <1>2, <2>1
<1>4. ASSUME NEW lane \in Lanes
      PROVE  lane + 1 \in 1 .. ByteTrits /\ (lane + 1) - 1 = lane
  BY BitsFacts DEF Lanes
<1>5. \A bit : bit \in UNION {LaneBits(G[j], j - 1) : j \in 1 .. ByteTrits} <=> bit \in PackedLanes(LanesOf(s, k))
  BY <1>3, <1>4 DEF PackedLanes
<1>6. UNION {LaneBits(G[j], j - 1) : j \in DOMAIN G} = PackedLanes(LanesOf(s, k))
  BY <1>1, <1>5
<1> QED
  BY <1>6 DEF G

LEMMA PackedIs ==
  ASSUME NEW s \in Seq(TritRange)
  PROVE  ComputeFromTrits(s) = Ok([data |-> PackedData(s), count |-> Len(s)])
<1>1. AreTrits(s)
  BY DEF AreTrits, TritRange
<1>2. ASSUME NEW k \in 1 .. Groups(Len(s), ByteTrits)
      PROVE  UNION {LaneBits(Group(s, k, ByteTrits)[j], j - 1) : j \in DOMAIN Group(s, k, ByteTrits)} = PackedLanes(LanesOf(s, k))
  <2>1. k \in Nat
    OBVIOUS
  <2> QED
    BY <2>1, ByteOfGroup
<1>3. [k \in 1 .. Groups(Len(s), ByteTrits) |->
         UNION {LaneBits(Group(s, k, ByteTrits)[j], j - 1) : j \in DOMAIN Group(s, k, ByteTrits)}] = PackedData(s)
  BY <1>2 DEF PackedData
<1> QED
  BY <1>1, <1>3 DEF ComputeFromTrits

LEMMA GroupsFacts ==
  ASSUME NEW n \in Nat, NEW d \in Nat \ {0}
  PROVE  /\ Groups(n, d) \in Nat
         /\ \A i \in 1 .. n : ((i - 1) \div d) + 1 \in 1 .. Groups(n, d)
         /\ n % d # 0 => Groups(n, d) = (n \div d) + 1
<1>0. n + d - 1 \in Nat /\ Groups(n, d) = (n + d - 1) \div d
  BY DEF Groups
<1> DEFINE Q == Groups(n, d)
           R == (n + d - 1) % d
<1>1. Q \in Nat /\ R \in 0 .. d - 1 /\ n + d - 1 = d * Q + R
  BY <1>0, Quotient
<1> HIDE DEF Q, R
<1>2. ASSUME NEW i \in 1 .. n
      PROVE  ((i - 1) \div d) + 1 \in 1 .. Q
  <2>1. PICK q \in Nat, r \in 0 .. d - 1 : q = (i - 1) \div d /\ i - 1 = d * q + r
    <3>1. i - 1 \in Nat
      OBVIOUS
    <3> QED
      BY <3>1, Quotient
  <2>2. ~(q >= Q)
    <3> SUFFICES ASSUME q >= Q PROVE FALSE
      OBVIOUS
    <3>1. PICK e \in Nat : q = Q + e
      <4>1. q - Q \in Nat /\ q = Q + (q - Q)
        BY <1>1
      <4> QED
        BY <4>1
    <3>2. d * q = d * Q + d * e /\ d * e \in Nat /\ d * Q \in Nat
      BY <1>1, <3>1, SMT
    <3> QED
      BY <1>1, <2>1, <3>2
  <2> QED
    BY <1>1, <2>1, <2>2
<1>3. ASSUME n % d # 0
      PROVE  Q = (n \div d) + 1
  <2>1. PICK p \in Nat, u \in 0 .. d - 1 : p = n \div d /\ u = n % d /\ n = d * p + u
    BY Quotient
  <2>2. u - 1 \in 0 .. d - 1 /\ p + 1 \in Nat
    BY <1>3, <2>1
  <2>3. d * (p + 1) = d * p + d /\ d * p \in Nat /\ d * Q \in Nat
    BY <1>1, <2>1, SMT
  <2>4. PlaceOf(d, p + 1, u - 1) = PlaceOf(d, Q, R)
    BY <1>1, <2>1, <2>3 DEF PlaceOf
  <2>5. p + 1 = Q
    BY <1>1, <2>2, <2>4, OnePlace
  <2> QED
    BY <2>1, <2>5
<1> QED
  BY <1>1, <1>2, <1>3 DEF Q

LEMMA PackedDataFacts ==
  ASSUME NEW s \in Seq(TritRange)
  PROVE  /\ PackedData(s) \in Seq(BitSets)
         /\ Len(PackedData(s)) = Groups(Len(s), ByteTrits)
         /\ Groups(Len(s), ByteTrits) \in Nat
         /\ \A k \in 1 .. Groups(Len(s), ByteTrits) : PackedData(s)[k] = PackedLanes(LanesOf(s, k))
<1> DEFINE n == Groups(Len(s), ByteTrits)
<1>1. n \in Nat
  <2>1. Len(s) \in Nat
    OBVIOUS
  <2> QED
    BY <2>1, BitsFacts, GroupsFacts
<1> HIDE DEF n
<1>2. ASSUME NEW k \in 1 .. n PROVE PackedLanes(LanesOf(s, k)) \in BitSets
  <2>1. k \in Nat
    BY <1>1
  <2>2. LanesOf(s, k) \in [Lanes -> -1 .. 1]
    BY <2>1, LanesOfFacts DEF TritRange
  <2>3. 0 \in Lanes
    BY BitsFacts DEF Lanes
  <2> QED
    BY <2>2, <2>3, LanesAt
<1>3. PackedData(s) \in [1 .. n -> BitSets]
  BY <1>2 DEF PackedData, n
<1>4. PackedData(s) \in Seq(BitSets) /\ Len(PackedData(s)) = n
  BY <1>1, <1>3, DigitsAreSeq
<1> QED
  BY <1>1, <1>4 DEF PackedData, n

(* A vector gives back the trits it was made of.                           *)
LEMMA UnpackedIs ==
  ASSUME NEW s \in Seq(TritRange)
  PROVE  ComputeToTrits([data |-> PackedData(s), count |-> Len(s)]) = Ok(s)
<1> DEFINE v == [data |-> PackedData(s), count |-> Len(s)]
           n == Len(s)
           x == [i \in 1 .. n |-> LaneTrit(PackedData(s)[((i - 1) \div ByteTrits) + 1], (i - 1) % ByteTrits)]
<1>0. n \in Nat /\ DOMAIN s = 1 .. n /\ ByteTrits \in Nat \ {0}
  BY BitsFacts
<1>1. ASSUME NEW i \in 1 .. n PROVE x[i] = s[i]
  <2> DEFINE k == ((i - 1) \div ByteTrits) + 1
             lane == (i - 1) % ByteTrits
  <2>1. i - 1 \in Nat
    BY <1>0
  <2>2. /\ (i - 1) \div ByteTrits \in Nat /\ lane \in 0 .. ByteTrits - 1
        /\ i - 1 = ByteTrits * ((i - 1) \div ByteTrits) + lane
    BY <1>0, <2>1, Quotient
  <2>3. k \in 1 .. Groups(n, ByteTrits) /\ k \in Nat
    BY <1>0, <2>2, GroupsFacts
  <2>4. (k - 1) * ByteTrits + (lane + 1) = i
    <3> DEFINE q == (i - 1) \div ByteTrits
    <3>1. k - 1 = q
      BY <2>2
    <3>2. q * ByteTrits = ByteTrits * q /\ q * ByteTrits \in Nat
      BY <1>0, <2>2, SMT
    <3> HIDE DEF k, q, lane
    <3>3. i - 1 = q * ByteTrits + lane /\ lane \in Nat
      BY <2>2, <3>2 DEF q
    <3>4. q * ByteTrits + (lane + 1) = i
      BY <1>0, <3>2, <3>3
    <3> QED
      BY <3>1, <3>4
  <2> HIDE DEF k, lane
  <2>5. lane \in Lanes
    BY <2>2 DEF Lanes
  <2>6. PackedData(s)[k] = PackedLanes(LanesOf(s, k))
    BY <2>3, PackedDataFacts
  <2>7. LanesOf(s, k) \in [Lanes -> -1 .. 1] /\ LanesOf(s, k)[lane] = s[i]
    BY <1>0, <2>3, <2>4, <2>5, LanesOfFacts DEF TritRange
  <2>8. LaneTrit(PackedData(s)[k], lane) = s[i]
    BY <2>5, <2>6, <2>7, PackedLaneTrit
  <2> QED
    BY <2>8 DEF k, lane
<1>2. x = s
  <2>1. DOMAIN x = 1 .. n
    OBVIOUS
  <2> HIDE DEF x
  <2>2. s = [i \in 1 .. n |-> s[i]]
    BY <1>0
  <2>3. x = [i \in 1 .. n |-> x[i]]
    BY DEF x
  <2> QED
    BY <1>1, <2>2, <2>3
<1>3. AreTrits(s)
  BY DEF AreTrits, TritRange
<1>4. v.count = n /\ v.data = PackedData(s)
  OBVIOUS
<1>5. ComputeToTrits(v) = IF AreTrits(x) THEN Ok(x) ELSE Err("INVALID_PACKED_DATA")
  BY <1>4 DEF ComputeToTrits
<1> HIDE DEF x, v
<1>6. ComputeToTrits(v) = Ok(s)
  BY <1>2, <1>3, <1>5
<1> QED
  BY <1>6 DEF v

(* The lanes past the last trit hold nothing to clear.                     *)
LEMMA NothingToMask ==
  ASSUME NEW s \in Seq(TritRange)
  PROVE  MaskTrailing([data |-> PackedData(s), count |-> Len(s)]) = [data |-> PackedData(s), count |-> Len(s)]
<1> DEFINE n == Len(s)
           d == PackedData(s)
           v == [data |-> d, count |-> n]
           used == n % ByteTrits
           last == Groups(n, ByteTrits)
<1>0. n \in Nat /\ ByteTrits \in Nat \ {0} /\ v.count = n /\ v.data = d
  BY BitsFacts
<1>1. d \in Seq(BitSets) /\ Len(d) = last /\ last \in Nat /\ \A k \in 1 .. last : d[k] = PackedLanes(LanesOf(s, k))
  BY PackedDataFacts
<1>2. SUFFICES ASSUME used # 0
               PROVE  d[last] \cap 0 .. (2 * used - 1) = d[last]
  <2>1. CASE used = 0
    BY <1>0, <2>1 DEF MaskTrailing
  <2>2. CASE used # 0
    <3>1. d[last] \cap 0 .. (2 * used - 1) = d[last]
      BY <1>2, <2>2
    <3>2. MaskTrailing(v) = IF used = 0 \/ d = <<>> THEN v
                            ELSE [v EXCEPT !.data = [d EXCEPT ![last] = d[last] \cap 0 .. (2 * used - 1)]]
      BY <1>0, <1>1 DEF MaskTrailing
    <3>3. [d EXCEPT ![last] = d[last]] = d
      BY <1>1
    <3>4. [v EXCEPT !.data = d] = v
      OBVIOUS
    <3> HIDE DEF d, last, used, v
    <3>5. MaskTrailing(v) = v
      BY <3>1, <3>2, <3>3, <3>4
    <3> QED
      BY <3>5 DEF v, d
  <2> QED
    BY <2>1, <2>2
<1>3. last = (n \div ByteTrits) + 1 /\ n \div ByteTrits \in Nat
  BY <1>0, <1>2, GroupsFacts, Quotient
<1>4. used \in 1 .. ByteTrits - 1 /\ n = (last - 1) * ByteTrits + used /\ (last - 1) * ByteTrits \in Nat
  <2> DEFINE q == n \div ByteTrits
  <2>1. q \in Nat /\ used \in 0 .. ByteTrits - 1 /\ n = ByteTrits * q + used
    BY <1>0, Quotient
  <2>2. last - 1 = q
    BY <1>3
  <2>3. used # 0
    BY <1>2
  <2> HIDE DEF q, used, last
  <2>4. q * ByteTrits = ByteTrits * q /\ q * ByteTrits \in Nat
    <3>1. q \in Nat
      BY <2>1
    <3> QED
      BY <1>0, <3>1, SMT
  <2>5. used \in 1 .. ByteTrits - 1
    <3>1. used \in 0 .. ByteTrits - 1
      BY <2>1
    <3> QED
      BY <1>0, <2>3, <3>1
  <2> QED
    BY <2>1, <2>2, <2>4, <2>5
<1>5. last \in 1 .. last /\ last \in Nat
  BY <1>1, <1>3
<1> HIDE DEF n, d, used, last, v
<1>6. LanesOf(s, last) \in [Lanes -> -1 .. 1]
  BY <1>5, LanesOfFacts DEF TritRange
<1>7. ASSUME NEW p \in d[last] PROVE p \in 0 .. (2 * used - 1)
  <2>1. d[last] = PackedLanes(LanesOf(s, last))
    BY <1>1, <1>5
  <2>2. p \in 0 .. ByteBits - 1
    <3>1. 0 \in Lanes
      BY BitsFacts DEF Lanes
    <3>2. PackedLanes(LanesOf(s, last)) \in BitSets
      BY <1>6, <3>1, LanesAt
    <3> QED
      BY <2>1, <3>2 DEF BitSets
  <2>3. PICK lane \in Lanes : p = 2 * lane \/ p = 2 * lane + 1
    BY <2>2, LaneOf
  <2>4. LanesOf(s, last)[lane] # 0
    BY <1>6, <2>1, <2>3, LanesAt
  <2>5. (last - 1) * ByteTrits + (lane + 1) \in 1 .. n
    BY <1>5, <2>4, LanesOfFacts DEF n
  <2>6. lane \in Nat
    BY LanePlaces
  <2>7. lane + 1 <= used
    <3> DEFINE m == (last - 1) * ByteTrits
    <3>1. m \in Nat /\ n = m + used /\ m + (lane + 1) \in 1 .. n
      BY <1>4, <2>5
    <3> HIDE DEF m
    <3> QED
      BY <1>4, <2>6, <3>1
  <2> QED
    BY <1>0, <1>4, <2>3, <2>6, <2>7
<1> QED
  BY <1>7

LEMMA EachTritFacts ==
  ASSUME NEW op \in TritOps, NEW s \in Seq(TritRange), NEW t \in Seq(TritRange), Len(s) = Len(t)
  PROVE  /\ EachTrit(op, s, t) \in Seq(TritRange)
         /\ Len(EachTrit(op, s, t)) = Len(s)
         /\ \A i \in 1 .. Len(s) : EachTrit(op, s, t)[i] = Scalar(op, s[i], t[i])
<1> DEFINE n == Len(s)
           e == EachTrit(op, s, t)
<1>0. n \in Nat /\ DOMAIN s = 1 .. n
  OBVIOUS
<1>1. e = [i \in 1 .. n |-> Scalar(op, s[i], t[i])]
  BY <1>0 DEF EachTrit
<1>2. ASSUME NEW i \in 1 .. n PROVE Scalar(op, s[i], t[i]) \in TritRange
  <2>1. s[i] \in -1 .. 1 /\ t[i] \in -1 .. 1
    BY ElementOfSeq DEF TritRange
  <2> QED
    BY <2>1, ScalarFacts DEF TritRange
<1> HIDE DEF n, e
<1>3. e \in [1 .. n -> TritRange]
  BY <1>1, <1>2
<1>4. e \in Seq(TritRange) /\ Len(e) = n
  BY <1>0, <1>3, DigitsAreSeq
<1> QED
  BY <1>1, <1>4 DEF n, e

(* Tables and words make of two vectors that of their trits.               *)
LEMMA TablesOfVectors ==
  ASSUME NEW op \in TritOps, NEW s \in Seq(TritRange), NEW t \in Seq(TritRange), Len(s) = Len(t)
  PROVE  LutData(op, PackedData(s), PackedData(t)) = PackedData(EachTrit(op, s, t))
<1> DEFINE e == EachTrit(op, s, t)
           n == Groups(Len(s), ByteTrits)
<1>0. e \in Seq(TritRange) /\ Len(e) = Len(s) /\ \A i \in 1 .. Len(s) : e[i] = Scalar(op, s[i], t[i])
  BY EachTritFacts
<1>1. DOMAIN PackedData(s) = 1 .. n
  BY DEF PackedData
<1>2. ASSUME NEW k \in 1 .. n
      PROVE  LutByte(op, PackedData(s)[k], PackedData(t)[k]) = PackedLanes(LanesOf(e, k))
  <2>1. PackedData(s)[k] = PackedLanes(LanesOf(s, k)) /\ PackedData(t)[k] = PackedLanes(LanesOf(t, k))
    BY PackedDataFacts
  <2>2. k \in Nat
    OBVIOUS
  <2> HIDE DEF e
  <2>3. LanesOf(s, k) \in [Lanes -> -1 .. 1] /\ LanesOf(t, k) \in [Lanes -> -1 .. 1] /\ LanesOf(e, k) \in [Lanes -> -1 .. 1]
    BY <1>0, <2>2, LanesOfFacts DEF TritRange
  <2>4. ASSUME NEW lane \in Lanes
        PROVE  LanesOf(e, k)[lane] = Scalar(op, LanesOf(s, k)[lane], LanesOf(t, k)[lane])
    <3> DEFINE p == (k - 1) * ByteTrits + (lane + 1)
    <3>1. /\ LanesOf(s, k)[lane] = IF p \in 1 .. Len(s) THEN s[p] ELSE 0
          /\ LanesOf(t, k)[lane] = IF p \in 1 .. Len(s) THEN t[p] ELSE 0
          /\ LanesOf(e, k)[lane] = IF p \in 1 .. Len(s) THEN e[p] ELSE 0
      BY <1>0, <2>2, LanesOfFacts
    <3>2. Scalar(op, 0, 0) = 0
      <4>1. 0 \in -1 .. 1
        OBVIOUS
      <4> QED
        BY <4>1, ScalarFacts
    <3> HIDE DEF p
    <3> QED
      BY <1>0, <3>1, <3>2
  <2>5. LanesOf(e, k) = [lane \in Lanes |-> Scalar(op, LanesOf(s, k)[lane], LanesOf(t, k)[lane])]
    BY <2>3, <2>4
  <2> QED
    BY <2>1, <2>3, <2>5, TableOfTrits
<1>3. LutData(op, PackedData(s), PackedData(t)) = [k \in 1 .. n |-> LutByte(op, PackedData(s)[k], PackedData(t)[k])]
  BY <1>1 DEF LutData
<1>4. PackedData(e) = [k \in 1 .. n |-> PackedLanes(LanesOf(e, k))]
  BY <1>0 DEF PackedData
<1> HIDE DEF e, n
<1>5. LutData(op, PackedData(s), PackedData(t)) = PackedData(e)
  BY <1>2, <1>3, <1>4
<1> QED
  BY <1>5 DEF e

LEMMA WordsOfVectors ==
  ASSUME NEW op \in WordOps, NEW s \in Seq(TritRange), NEW t \in Seq(TritRange), Len(s) = Len(t), NEW build
  PROVE  /\ Kernel(op, PackedData(s), PackedData(t), build) = PackedData(EachTrit(op, s, t))
         /\ KernelSwar(op, PackedData(s), PackedData(t)) = PackedData(EachTrit(op, s, t))
<1> DEFINE a == PackedData(s)
           b == PackedData(t)
           n == Groups(Len(s), ByteTrits)
<1>1. /\ a \in Seq(BitSets) /\ Len(a) = n /\ n \in Nat /\ \A k \in 1 .. n : a[k] = PackedLanes(LanesOf(s, k))
      /\ b \in Seq(BitSets) /\ Len(b) = n /\ \A k \in 1 .. n : b[k] = PackedLanes(LanesOf(t, k))
  BY PackedDataFacts
<1>2. LutData(op, a, b) = PackedData(EachTrit(op, s, t))
  BY TablesOfVectors DEF TritOps
<1> HIDE DEF a, b, n
<1>3. ASSUME NEW k \in 1 .. n
      PROVE  LutByte(op, a[k], b[k]) = WordOp(op, a[k], b[k], ByteBits)
  <2>1. k \in Nat /\ a[k] \in BitSets /\ b[k] \in BitSets
    BY <1>1
  <2>2. LanesOf(s, k) \in [Lanes -> -1 .. 1] /\ LanesOf(t, k) \in [Lanes -> -1 .. 1]
    BY <2>1, LanesOfFacts DEF TritRange
  <2>3. ASSUME NEW lane \in Lanes PROVE LaneTrit(a[k], lane) # 2 /\ LaneTrit(b[k], lane) # 2
    <3>1. LaneTrit(a[k], lane) = LanesOf(s, k)[lane] /\ LaneTrit(b[k], lane) = LanesOf(t, k)[lane]
      BY <1>1, <2>2, PackedLaneTrit
    <3>2. LanesOf(s, k)[lane] \in -1 .. 1 /\ LanesOf(t, k)[lane] \in -1 .. 1
      BY <2>2
    <3> QED
      BY <3>1, <3>2
  <2> QED
    BY <2>1, <2>3, TablesAgree
<1>4. LutData(op, a, b) = Bytewise(op, a, b)
  <2>1. DOMAIN a = 1 .. n
    BY <1>1
  <2> QED
    BY <1>1, <1>3, <2>1 DEF LutData, Bytewise
<1>5. Kernel(op, a, b, build) = Bytewise(op, a, b) /\ KernelSwar(op, a, b) = Bytewise(op, a, b)
  BY <1>1, KernelsExact
<1> QED
  BY <1>2, <1>4, <1>5 DEF a, b

(* A vector gives back the trits it was packed from, and an operation on   *)
(* two vectors gives, whichever way it takes - trit by trit, tables, words,*)
(* in place by the kernel for the length and the machine - the vector of   *)
(* the results of their trits, for every length.                           *)
THEOREM VectorsExact ==
  ASSUME NEW op \in TritOps, NEW s \in Seq(TritRange), NEW t \in Seq(TritRange), Len(s) = Len(t), NEW build
  PROVE  LET v == ComputeFromTrits(s).value
             w == ComputeFromTrits(t).value
             expected == ComputeFromTrits(EachTrit(op, s, t))
         IN /\ ComputeToTrits(v) = Ok(s)
            /\ ViaTrits(op, v, w) = expected
            /\ ViaLut(op, v, w) = expected
            /\ op # "xor" => ViaSwar(op, v, w) = expected
            /\ InPlace(op, v, w, build) = expected
            /\ ByValue(op, v, w, build) = expected
<1> DEFINE e == EachTrit(op, s, t)
           v == [data |-> PackedData(s), count |-> Len(s)]
           w == [data |-> PackedData(t), count |-> Len(t)]
           r == [data |-> PackedData(e), count |-> Len(e)]
<1>1. e \in Seq(TritRange) /\ Len(e) = Len(s)
  BY EachTritFacts
<1>2. ComputeFromTrits(s) = Ok(v) /\ ComputeFromTrits(t) = Ok(w)
  BY PackedIs
<1>3. ComputeFromTrits(e) = Ok(r)
  <2> HIDE DEF e
  <2> QED
    BY <1>1, PackedIs
<1>4. ComputeFromTrits(s).value = v /\ ComputeFromTrits(t).value = w
  BY <1>2 DEF Ok
<1>5. ComputeToTrits(v) = Ok(s) /\ ComputeToTrits(w) = Ok(t)
  BY UnpackedIs
<1>6. v.count = w.count /\ v.data = PackedData(s) /\ w.data = PackedData(t)
  OBVIOUS
<1>7. [v EXCEPT !.data = PackedData(e)] = r
  BY <1>1
<1>8. MaskTrailing(r) = r
  <2> HIDE DEF e
  <2> QED
    BY <1>1, NothingToMask
<1>9. ViaTrits(op, v, w) = Ok(r)
  <2>1. ComputeToTrits(v).value = s /\ ComputeToTrits(w).value = t
    BY <1>5 DEF Ok
  <2> HIDE DEF v, w, r
  <2>2. ViaTrits(op, v, w) = ComputeFromTrits(e)
    BY <1>6, <2>1 DEF ViaTrits
  <2> QED
    BY <1>3, <2>2
<1>10. LutData(op, v.data, w.data) = PackedData(e)
  BY <1>6, TablesOfVectors
<1>11. ASSUME op # "xor"
       PROVE  Kernel(op, v.data, w.data, build) = PackedData(e) /\ KernelSwar(op, v.data, w.data) = PackedData(e)
  BY <1>6, <1>11, WordsOfVectors DEF TritOps
<1> HIDE DEF e, v, w, r
<1>12. ViaLut(op, v, w) = Ok(r)
  BY <1>6, <1>7, <1>8, <1>10 DEF ViaLut
<1>13. op # "xor" => ViaSwar(op, v, w) = Ok(r)
  BY <1>6, <1>7, <1>8, <1>11 DEF ViaSwar
<1>14. InPlace(op, v, w, build) = Ok(r)
  BY <1>6, <1>7, <1>8, <1>10, <1>11 DEF InPlace
<1>15. ByValue(op, v, w, build) = Ok(r)
  BY <1>12, <1>14 DEF ByValue
<1> QED
  BY <1>3, <1>4, <1>5, <1>9, <1>12, <1>13, <1>14, <1>15 DEF e
=============================================================================
