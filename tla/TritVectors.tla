----------------------------- MODULE TritVectors -----------------------------
(***************************************************************************)
(* Vectors of packed trits, two bits each, and their operations            *)
(* (ComputeTritVector in include/t81/experimental/packed_trit_vector.hpp): *)
(* through trits, through tables of bytes, in machine words, and by the    *)
(* kernel for the length and the machine.  A Result is a value or an error.*)
(***************************************************************************)
EXTENDS Integers, SequencesExt

CONSTANTS
  ByteTrits,     \* trits in a byte of a vector (4)
  WordBytes      \* bytes of a machine word (8)

ASSUME VectorAssumption == ByteTrits \in Nat \ {0} /\ WordBytes \in Nat \ {0}

Ok(v) == [error |-> "none", value |-> v]
Err(e) == [error |-> e, value |-> <<>>]
IsOk(result) == result.error = "none"
AreTrits(s) == \A i \in DOMAIN s : s[i] \in -1..1

(* A group that is not full is filled with zeros.                           *)
Groups(n, width) == (n + width - 1) \div width
Group(s, k, width) ==
  [j \in 1..width |-> IF (k - 1) * width + j \in DOMAIN s THEN s[(k - 1) * width + j] ELSE 0]

(************************ operations on trits ******************************)
Scalar(op, a, b) ==
  CASE op = "not" -> -a
    [] op = "and" -> Min({a, b})
    [] op = "or" -> Max({a, b})
    [] op = "xor" -> LET d == a - b IN IF d > 1 THEN -1 ELSE IF d < -1 THEN 1 ELSE d
EachTrit(op, s, t) == [i \in DOMAIN s |-> Scalar(op, s[i], t[i])]
Mismatch == Err("LENGTH_MISMATCH")

(************************ two bits for a trit ******************************)
(* A byte, or a word, is the set of the places of its bits that are one.    *)
ByteBits == 2 * ByteTrits
LaneBits(t, lane) == CASE t = 0 -> {} [] t = 1 -> {2 * lane} [] t = -1 -> {2 * lane, 2 * lane + 1}
LaneTrit(byte, lane) ==
  LET low == 2 * lane \in byte
      high == 2 * lane + 1 \in byte
  IN IF high THEN IF low THEN -1 ELSE 2 ELSE IF low THEN 1 ELSE 0

ComputeFromTrits(trits) ==
  LET Byte(group) == UNION {LaneBits(group[j], j - 1) : j \in DOMAIN group}
  IN IF ~AreTrits(trits) THEN Err("INVALID_TRIT")
     ELSE Ok([data |-> [k \in 1..Groups(Len(trits), ByteTrits) |-> Byte(Group(trits, k, ByteTrits))],
              count |-> Len(trits)])
ComputeToTrits(v) ==
  LET trits == [i \in 1..v.count |-> LaneTrit(v.data[((i - 1) \div ByteTrits) + 1], (i - 1) % ByteTrits)]
  IN IF AreTrits(trits) THEN Ok(trits) ELSE Err("INVALID_PACKED_DATA")

MaskTrailing(v) ==
  LET used == v.count % ByteTrits
  IN IF used = 0 \/ v.data = <<>> THEN v ELSE [v EXCEPT !.data[Len(v.data)] = @ \cap 0..(2 * used - 1)]

ViaTrits(op, v, w) ==
  IF v.count # w.count THEN Mismatch
  ELSE ComputeFromTrits(EachTrit(op, ComputeToTrits(v).value, ComputeToTrits(w).value))

(* A lane that stands for no trit spoils the byte.                          *)
Lanes == 0..(ByteTrits - 1)
LutByte(op, a, b) ==
  IF \E lane \in Lanes : 2 \in {LaneTrit(a, lane), LaneTrit(b, lane)} THEN {n \in 0..(ByteBits - 1) : n % 2 = 1}
  ELSE UNION {LaneBits(Scalar(op, LaneTrit(a, lane), LaneTrit(b, lane)), lane) : lane \in Lanes}
LutData(op, a, b) == [k \in DOMAIN a |-> LutByte(op, a[k], b[k])]
ViaLut(op, v, w) ==
  IF v.count # w.count THEN Mismatch
  ELSE Ok(MaskTrailing([v EXCEPT !.data = LutData(op, v.data, w.data)]))

(************************ kernels ******************************************)
(* All lanes of a word of n bits at once; a shift drops what leaves it.     *)
Lows(word) == {bit \in word : bit % 2 = 0}
Highs(word) == {bit \in word : bit % 2 = 1}
ShiftedUp(word, n) == {bit + 1 : bit \in word} \cap 0..(n - 1)
ShiftedDown(word) == {bit - 1 : bit \in word} \cap Nat

WordNot(a, n) == LET moved == ShiftedUp(Lows(a), n) IN (a \ moved) \cup (moved \ a)
WordAnd(a, b) == LET high == Highs(a \cup b) IN high \cup ShiftedDown(high) \cup Lows(a \cap b)

WordOrUnmasked(a, b) ==  \* mutant: the low bit of -1 is not masked
  LET high == Highs(a) \cap Highs(b)
      low == (Lows(a) \cap Lows(b)) \cup (Lows(a) \cup Lows(b))
  IN high \cup ShiftedDown(high) \cup low
WordOr(a, b) ==
  LET high == Highs(a) \cap Highs(b)
      mask == ShiftedDown(Highs(a) \cup Highs(b))
      low == (Lows(a) \cap Lows(b)) \cup ((Lows(a) \cup Lows(b)) \ mask)
  IN high \cup ShiftedDown(high) \cup low
WordOp(op, a, b, n) ==
  CASE op = "not" -> WordNot(a, n) [] op = "and" -> WordAnd(a, b) [] op = "or" -> WordOr(a, b)

JoinedBytes(bytes) == UNION {{ByteBits * (k - 1) + bit : bit \in bytes[k]} : k \in DOMAIN bytes}
SplitWord(word, bytes) ==
  [k \in 1..bytes |-> {bit \in 0..(ByteBits - 1) : ByteBits * (k - 1) + bit \in word}]
OnWord(op, a, b) ==
  SplitWord(WordOp(op, JoinedBytes(a), JoinedBytes(b), ByteBits * Len(a)), Len(a))

(* The bytes from one place to another, in words of so many bytes.          *)
InWords(op, a, b, from, to, bytes) ==
  LET Word(s, k) == SubSeq(s, from + k * bytes, from + k * bytes + bytes - 1)
      Done(k) == OnWord(op, Word(a, k), Word(b, k))
  IN [i \in 1..(to - from + 1) |-> Done((i - 1) \div bytes)[((i - 1) % bytes) + 1]]
WholeBytes(n, block) == n - (n % block)

SwarFrom(op, a, b, from) ==
  LET whole == from - 1 + WholeBytes(Len(a) - from + 1, WordBytes)
  IN InWords(op, a, b, from, whole, WordBytes) \o InWords(op, a, b, whole + 1, Len(a), 1)
KernelSwar(op, a, b) == SwarFrom(op, a, b, 1)

(* Vector registers of four words, shifted by words, and of two, by bytes.  *)
KernelAvx2(op, a, b) ==
  LET whole == WholeBytes(Len(a), 4 * WordBytes)
  IN InWords(op, a, b, 1, whole, WordBytes) \o SwarFrom(op, a, b, whole + 1)
KernelNeon(op, a, b) ==
  LET whole == WholeBytes(Len(a), 2 * WordBytes)
  IN InWords(op, a, b, 1, whole, 1) \o SwarFrom(op, a, b, whole + 1)

FastTiny(op, a, b) == IF Len(a) = WordBytes THEN OnWord(op, a, b) ELSE InWords(op, a, b, 1, Len(a), 1)
FastSmall(op, a, b) ==
  IF Len(a) = 2 * WordBytes THEN InWords(op, a, b, 1, Len(a), WordBytes) ELSE KernelSwar(op, a, b)
Kernel(op, a, b, build) ==
  CASE Len(a) <= WordBytes -> FastTiny(op, a, b)
    [] Len(a) \in (WordBytes + 1)..(2 * WordBytes) -> FastSmall(op, a, b)
    [] Len(a) >= 8 * WordBytes /\ build = "avx2" -> KernelAvx2(op, a, b)
    [] Len(a) >= 8 * WordBytes /\ build = "neon" -> KernelNeon(op, a, b)
    [] OTHER -> KernelSwar(op, a, b)

ViaSwar(op, v, w) ==
  IF v.count # w.count THEN Mismatch
  ELSE Ok(MaskTrailing([v EXCEPT !.data = KernelSwar(op, v.data, w.data)]))
InPlace(op, v, w, build) ==
  IF v.count # w.count THEN Mismatch
  ELSE Ok(MaskTrailing([v EXCEPT !.data = IF op = "xor" THEN LutData(op, v.data, w.data)
                                          ELSE Kernel(op, v.data, w.data, build)]))
ByValue(op, v, w, build) == IF op = "xor" THEN ViaLut(op, v, w) ELSE InPlace(op, v, w, build)
=============================================================================
