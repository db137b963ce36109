----------------------------- MODULE MCNumerics ------------------------------
(* Operands of every kind for TLC. *)
EXTENDS Numerics

TritsUpTo(n) == [1..n -> -1..1]
Ints(n) == {[i \in 1..n |-> f[i]] : f \in TritsUpTo(n)}
BigOf(v) ==
  LET digits == [i \in 1..3 |-> ((((Absolute(v) + MaxValue(12)) \div 3^(4 * (i - 1))) % 81) - 40)]
  IN Normalized(v < 0, [i \in 1..3 |-> [t \in 1..4 |-> (((digits[i] + 40) \div 3^(t - 1)) % 3) - 1]])

Singles == {BigOf(v) : v \in {-40, -39, -36, -31, -28, -27, -26, -18, -14, -13, -10, -9, -8, -5, -4, -3, -2, -1}
                               \cup 0..9 \cup {13, 14, 17, 23, 26, 27, 32, 36, 39, 40}}
Spread == {BigOf(v) : v \in {-3280, -2187, -1094, -364, -121, -82, -81, -41, -40, -27, -14, -2, 0, 1, 5, 13, 14, 27, 39, 40, 41,
                              80, 122, 324, 365, 729, 1000, 2189, 3279}}
Long == {BigOf(v) : v \in {-265720, -9842, -6561, -3281, 3281, 6562, 29525, 177147}}

(* The floats that computing yields: the highest trit of the mantissa is in *)
(* use, or the exponent is the smallest.                                    *)
Positive == {mant \in Ints(M) : SignTrit(mant) = 1}
Numbers ==
  {Float(s, e, mant) : s \in {-1, 1}, e \in (-Bias + 1)..(Bias - 1), mant \in {p \in Positive : p[M] = 1}}
    \cup {Float(s, -Bias, mant) : s \in {-1, 1}, mant \in Positive}
Floats == Numbers \cup {FZero(TRUE), FZero(FALSE), FInf(TRUE), FInf(FALSE), NaE}
FewFloats == {f \in Floats : f.exp \in {-Bias, -1, 0, 2, Bias} /\ (f.sign = 1 \/ f.exp \in {-1, 0, Bias})}

Ratios == {r \in ({BigOf(v) : v \in -4..4} \X {BigOf(v) : v \in 1..4}) : GreatestCommon(BigValue(r[1]), BigValue(r[2])) = 1}
NarrowRatios(n) ==
  {r \in (Ints(n) \X Ints(n)) :
     IntValue(r[1]) \in -4..4 /\ IntValue(r[2]) \in 1..4 /\ GreatestCommon(IntValue(r[1]), IntValue(r[2])) = 1}
LimbNumbers == {<<p, q, r, s>> : p \in {-4, 4}, q \in {-4, 0, 3}, r \in {-1, 4}, s \in {-4, 0, 4}}

(* Glyphs of one, two and three bytes; texts with bytes that begin or belong *)
(* to no character.                                                         *)
MCAlphabet ==
  <<<<48>>, <<57>>, <<65>>, <<122>>, <<45>>, <<195, 151>>, <<226, 137, 164>>, <<226, 137, 165>>, <<206, 187>>>>
TextBytes == {48, 65, 195, 151, 226, 137, 165, 255}
Streams(n, values) == UNION {[1..k -> values] : k \in 0..n}

(* Of every length up to words, pairs of words and vector registers, with   *)
(* and without a rest.                                                      *)
Wave(n, a, b) == [i \in 1..n |-> ((a * i * i + b * i + (i \div 7)) % 3) - 1]
Lengths == (5..18) \cup (31..45)
LongVectors ==
  {<<Wave(n, a, b), Wave(n, c, 2)>> : n \in Lengths, a \in 0..2, b \in 0..1, c \in 0..2}
MCInsns ==
  [opcode : 0..4, operands : {<<a, b, c>> : a \in {-4, 0, 3, 5, -8}, b \in {-9, -4, -1, 2, 4, 6, 18, 260}, c \in {-2, 1, 7}},
   literal : {"Int", "TensorHandle"}]

MCTasks ==
  [int |-> (Ints(2) \X Ints(2)) \cup (Ints(3) \X Ints(3)) \cup {<<i, i>> : i \in Ints(4)},
   word |-> (MinWord..MaxWord) \X (1..4),
   big |-> (Singles \X {BigOf(v) : v \in {-40, -31, -14, -13, -1, 0, 1, 3, 5, 14, 27, 40}})
             \cup ((Spread \cup Long) \X {BigOf(v) : v \in {-3280, -1094, -81, -14, 0, 5, 13, 41, 122, 365, 1000, 2189}}),
   one_big |-> {<<b>> : b \in Singles \cup Spread \cup {BigOf(v) : v \in 41..400}},
   modular |-> {BigOf(v) : v \in (-7..7) \cup {-13, 13}} \X {BigOf(v) : v \in {-1, 0, 1, 3, 4}}
                 \X {BigOf(v) : v \in {-5, 0, 1, 2, 5, 6, 9, 13, 14, 41, 100}},
   float |-> (FewFloats \X FewFloats) \cup (Floats \X {f \in FewFloats : f.exp = 0 /\ f.sign = 1}),
   some_floats |-> FewFloats \X {f \in FewFloats : f.exp = 0} \X {FInf(TRUE), Float(1, 2, <<1, 0, 1>>)},
   ratio |-> Ratios \X Ratios,
   narrow |-> UNION {NarrowRatios(n) \X {r \in NarrowRatios(n) : IntValue(r[2]) \in {2, 3}} : n \in {3, 5}},
   fixed |-> Ints(4) \X {i \in Ints(4) : i[2] = 1},
   stream |-> {<<s>> : s \in Streams(5, -1..1) \cup Streams(3, -1..2)},
   bytes |-> (Streams(3, {0, 5, 8, 9, 20, 26, 27, 31}) \cup {<<7, 8, 3, 1, 6>>, <<7, 8, 3, 9, 6>>}) \X (0..10),
   recode |-> {<<s>> : s \in Streams(3, {0, 1, 4, 8, 9, 13, 31}) \cup Streams(7, {2, 7})},
   text |-> {<<s>> : s \in Streams(4, TextBytes)},
   dotted |-> {<<s>> : s \in Streams(4, {Dot, MinusSign, PlusSign, 0, 1, 4, Decimal}) \ {<<>>}},
   insn |-> {<<i>> : i \in MCInsns},
   vectors |-> (Streams(3, -1..1) \X Streams(3, -1..1)) \cup LongVectors,
   packed_vectors |-> (Streams(3, -1..1) \X Streams(3, -1..1)) \cup {p \in LongVectors : Len(p[1]) < 12},
   limb |-> LimbNumbers \X {i \in LimbNumbers : i[1] = 4}]
=============================================================================
