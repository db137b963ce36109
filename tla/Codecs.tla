------------------------------- MODULE Codecs --------------------------------
(***************************************************************************)
(* Trits, numbers and instructions in bytes, digits and texts               *)
(* (src/codec/ but for metadata.cpp, core/isa/base81_view.cpp), and the     *)
(* vectors that keep trits as bytes of a stream (PackedTritVector in        *)
(* include/t81/experimental/packed_trit_vector.hpp).  A Result is a value   *)
(* or an error; a text is its bytes.                                        *)
(***************************************************************************)
EXTENDS BigInts, TritVectors

CONSTANTS
  Pt5Trits,      \* trits in a byte of a PT-5 stream (5)
  B81Trits,      \* trits in a base-81 digit (4)
  ByteValues,    \* how many values a byte has (256)
  Base243,       \* the base of the texts with dots (243)
  Alphabet,      \* for each base-81 digit, its character, in bytes
  OpcodeTrits,   \* trits of an opcode (8)
  OperandTrits,  \* trits of an operand (20)
  OperandBits    \* bits of an operand (32)

DigitValues == 3^B81Trits

ASSUME CodecAssumption ==
  /\ {Pt5Trits, B81Trits, OpcodeTrits, OperandTrits, OperandBits} \subseteq Nat \ {0}
  /\ ByteValues \in Nat /\ 3^Pt5Trits <= ByteValues /\ DigitValues <= ByteValues
  /\ Base243 \in 2..MaxWord /\ Base243 <= Decimal^3
  /\ DOMAIN Alphabet = 1..DigitValues

(************************** groups of trits ********************************)
Digit(trits) == Numeral([j \in DOMAIN trits |-> trits[j] + 1], 3)
DigitTrits(digit, width) == [j \in 1..width |-> ((digit \div 3^(j - 1)) % 3) - 1]

Pack(trits, width) ==
  IF AreTrits(trits) THEN Ok([k \in 1..Groups(Len(trits), width) |-> Digit(Group(trits, k, width))])
  ELSE Err("InvalidTritValue")

(* Every byte is looked at, those after the last trit too.                  *)
Unpack(digits, count, width, fault) ==
  IF Len(digits) < Groups(count, width) THEN Err("InsufficientData")
  ELSE IF \E i \in DOMAIN digits : digits[i] >= 3^width THEN Err(fault)
  ELSE Ok(SubSeq(FlattenSeq([i \in DOMAIN digits |-> DigitTrits(digits[i], width)]), 1, count))

pack_pt5(trits) == Pack(trits, Pt5Trits)
unpack_pt5(bytes, count) == Unpack(bytes, count, Pt5Trits, "InvalidPT5Byte")
pack_base81(trits) == Pack(trits, B81Trits)
unpack_base81(digits, count) == Unpack(digits, count, B81Trits, "InvalidBase81Digit")

(* From groups of one width to groups of another, through a buffer of       *)
(* trits: digits are read while the buffer is short of a group and of what  *)
(* is left, and then a group is taken from it.                              *)
Short(s, digits, count, to) ==
  /\ s.error = "none" /\ s.next <= Len(digits)
  /\ Len(s.buffer) < to /\ s.processed + Len(s.buffer) < count
Refilled(s, digits, from, fault) ==
  IF digits[s.next] >= 3^from THEN [s EXCEPT !.error = fault]
  ELSE [s EXCEPT !.buffer = @ \o DigitTrits(digits[s.next], from), !.next = @ + 1]
Consumed(s, count, to) ==
  LET taken == Min({to, Len(s.buffer), count - s.processed})
  IN [s EXCEPT !.buffer = SubSeq(@, taken + 1, Len(@)), !.processed = @ + taken,
               !.out = Append(@, Digit(Group(SubSeq(s.buffer, 1, taken), 1, to)))]
ConvertedGroup(s, digits, count, from, to, fault) ==
  LET full == FoldLeft(LAMBDA b, i : IF Short(b, digits, count, to) THEN Refilled(b, digits, from, fault) ELSE b,
                       s, [i \in 1..to |-> i])
  IN IF full.error # "none" THEN full ELSE Consumed(full, count, to)
Convert(digits, count, from, to, fault) ==
  LET start == [buffer |-> <<>>, next |-> 1, processed |-> 0, out |-> <<>>, error |-> "none"]
      done == FoldLeft(LAMBDA s, k : ConvertedGroup(s, digits, count, from, to, fault),
                       start, [k \in 1..Groups(count, to) |-> k])
  IN IF Len(digits) < Groups(count, from) THEN Err("InsufficientData")
     ELSE IF done.error # "none" THEN Err(done.error)
     ELSE Ok(done.out)

pt5_to_b81(bytes, count) == Convert(bytes, count, Pt5Trits, B81Trits, "InvalidPT5Byte")
b81_to_pt5(digits, count) == Convert(digits, count, B81Trits, Pt5Trits, "InvalidBase81Digit")

(************************** texts ******************************************)
(* The first byte says how many bytes a character has.                      *)
CharacterLength(byte) ==
  CASE byte < 128 -> 1 [] byte \div 32 = 6 -> 2 [] byte \div 16 = 14 -> 3 [] byte \div 8 = 30 -> 4
    [] OTHER -> 0
next_utf8(text, at) ==
  LET n == CharacterLength(text[at])
  IN IF n = 0 \/ at + n - 1 > Len(text) THEN <<>> ELSE SubSeq(text, at, at + n - 1)

Question == <<63>>
b81_digits_to_string(digits) ==
  FlattenSeq([i \in DOMAIN digits |-> IF digits[i] < DigitValues THEN Alphabet[digits[i] + 1] ELSE Question])

DigitRead(s, text) ==
  LET character == next_utf8(text, s.at)
      places == {k \in DOMAIN Alphabet : Alphabet[k] = character}
  IN IF character = <<>> THEN [s EXCEPT !.error = "EncodingError"]
     ELSE IF places = {} THEN [s EXCEPT !.error = "InvalidBase81Digit"]
     ELSE [s EXCEPT !.at = @ + Len(character), !.digits = Append(@, Max(places) - 1)]
string_to_b81_digits(text) ==
  LET done == FoldLeft(LAMBDA s, i : IF s.error # "none" \/ s.at > Len(text) THEN s ELSE DigitRead(s, text),
                       [at |-> 1, digits |-> <<>>, error |-> "none"], [i \in DOMAIN text |-> i])
  IN IF done.error = "none" THEN Ok(done.digits) ELSE Err(done.error)

(********************* digits between -40 and 40 ***************************)
HalfDigit == (DigitValues - 1) \div 2
to_balanced(digits) == [i \in DOMAIN digits |-> digits[i] - HalfDigit]
to_unbalanced(digits) == [i \in DOMAIN digits |-> digits[i] + HalfDigit]

pack_vector(trits) == [k \in 1..Groups(Len(trits), B81Trits) |-> Numeral(Group(trits, k, B81Trits), 3)]

(* The machine's rest has the sign of the dividend.                         *)
TritOff(s) ==
  LET rest == s.left - 3 * Towards(s.left, 3)
      wrap == IF rest > 1 THEN 1 ELSE IF rest < -1 THEN -1 ELSE 0
  IN [trits |-> Append(s.trits, rest - 3 * wrap), left |-> Towards(s.left, 3) + wrap]
unpack_digit(digit) ==
  FoldLeft(LAMBDA s, j : TritOff(s), [trits |-> <<>>, left |-> digit], [j \in 1..B81Trits |-> j]).trits

(* Only the digits that hold the trits asked for are looked at.             *)
unpack_vector(digits, count) ==
  LET n == Groups(count, B81Trits)
      used == SubSeq(digits, 1, n)
  IN IF Len(digits) < n THEN Err("INSUFFICIENT_DATA")
     ELSE IF \E i \in DOMAIN used : Absolute(used[i]) > HalfDigit THEN Err("INVALID_DIGIT")
     ELSE Ok(SubSeq(FlattenSeq([i \in DOMAIN used |-> unpack_digit(used[i])]), 1, count))

(************************ five digits in a word ****************************)
pack_stream(digits) == [k \in 1..Groups(Len(digits), 5) |-> Numeral(Group(digits, k, 5), DigitValues)]

(* Two digits at a time come from a table.                                  *)
unpack5(block) ==
  LET pair == DigitValues * DigitValues
      Two(chunk) == <<chunk % DigitValues, chunk \div DigitValues>>
  IN Two(block % pair) \o Two((block \div pair) % pair) \o <<block \div (pair * pair)>>
unpack_stream(blocks, count) ==
  LET digits == FlattenSeq([k \in DOMAIN blocks |-> unpack5(blocks[k])])
  IN SubSeq(digits, 1, Min({count, Len(digits)}))

(************************ bytes as one number ******************************)
(* The bytes, the highest first, are divided again and again; a quotient    *)
(* begins with its first byte that is not zero.                             *)
DividePass(bytes, base) ==
  FoldLeft(LAMBDA s, b :
             LET quotient == (s.rest * ByteValues + b) \div base
             IN [next |-> IF s.next = <<>> /\ quotient = 0 THEN <<>> ELSE Append(s.next, quotient),
                 rest |-> (s.rest * ByteValues + b) % base],
           [next |-> <<>>, rest |-> 0], bytes)
BytesToDigits(bytes, base) ==
  LET Digits[buf \in Seq(Int)] ==
        IF buf = <<>> THEN <<>>
        ELSE LET pass == DividePass(buf, base) IN Append(Digits[pass.next], pass.rest)
  IN Digits[bytes]

(* The bytes are multiplied by the base and a digit is added; here the      *)
(* lowest byte is the first.                                                *)
TakenIn(bytes, digit, base) ==
  LET done == Ripple([i \in DOMAIN bytes |-> bytes[i] * base + (IF i = 1 THEN digit ELSE 0)], "floor", ByteValues)
  IN IF done.carry = 0 THEN done.digits ELSE Append(done.digits, done.carry)
DigitsToBytes(digits, base) == Reverse(FoldLeft(LAMBDA bytes, d : TakenIn(bytes, d, base), <<0>>, digits))

WithoutLeadingZeros(bytes) ==
  LET used == {i \in DOMAIN bytes : bytes[i] # 0}
  IN IF used = {} THEN <<0>> ELSE SubSeq(bytes, Min(used), Len(bytes))

encode_bytes(bytes) == b81_digits_to_string(BytesToDigits(bytes, DigitValues))
decode_bytes(text) ==
  LET digits == string_to_b81_digits(text)
  IN IF text = <<>> THEN Ok(<<>>)
     ELSE IF ~IsOk(digits) \/ (Len(digits.value) > 1 /\ Head(digits.value) = 0) THEN Err("invalid")
     ELSE Ok(DigitsToBytes(digits.value, DigitValues))

encode_bytes_be(bytes) == BytesToDigits(bytes, 3^Pt5Trits)
decode_bytes_be(digits) ==
  IF digits = <<>> THEN Ok(<<>>)
  ELSE IF \E i \in DOMAIN digits : digits[i] >= 3^Pt5Trits THEN Err("invalid_argument")
  ELSE Ok(WithoutLeadingZeros(DigitsToBytes(digits, 3^Pt5Trits)))

(* Numbers as base-243 digits in decimal, with dots between them.           *)
Dot == -2
PlusSign == -3
Spelled(digit) == WithoutLeadingZeros([i \in 1..3 |-> (digit \div Decimal^(3 - i)) % Decimal])
encode_bigint(b) ==
  LET digits == DigitsIn(BigAbs(b), Base243)
  IN IF BigIsZero(b) THEN <<0>>
     ELSE (IF BigIsNegative(b) THEN <<MinusSign>> ELSE <<>>)
            \o Tail(FlattenSeq([i \in DOMAIN digits |-> <<Dot>> \o Spelled(digits[i])]))

CharacterRead(s, c) ==
  LET grown == s.current * Decimal + c
  IN CASE c = Dot -> [ok |-> s.ok /\ s.some /\ s.current < Base243, some |-> FALSE, current |-> 0,
                      digits |-> Append(s.digits, s.current)]
       [] c \in 0..(Decimal - 1) -> [s EXCEPT !.ok = @ /\ grown < Decimal^3, !.some = TRUE, !.current = grown]
       [] OTHER -> [s EXCEPT !.ok = FALSE]
decode_bigint(text) ==
  LET signed == text # <<>> /\ text[1] \in {MinusSign, PlusSign}
      rest == IF signed THEN Tail(text) ELSE text
      read == FoldLeft(CharacterRead, [ok |-> TRUE, some |-> FALSE, current |-> 0, digits |-> <<>>],
                       Append(rest, Dot))
  IN IF rest = <<>> \/ ~read.ok THEN Failure
     ELSE <<NegatedIf(signed /\ text[1] = MinusSign, FromDigits(read.digits, Base243))>>

(************************** instructions ***********************************)
(* An operand is cut to a machine integer, which may still be too large for *)
(* its trits; what an immediate means is not written.                       *)
Operand32(v) == ((v + 2^(OperandBits - 1)) % 2^OperandBits) - 2^(OperandBits - 1)
render_insn(insn) ==
  LET parts == <<FromWord(insn.opcode, OpcodeTrits)>>
                 \o [k \in 1..3 |-> FromWord(Operand32(insn.operands[k]), OperandTrits)]
  IN IF Overflowed \in Range(parts) THEN Err("overflow_error")
     ELSE Ok(b81_digits_to_string(pack_base81(FlattenSeq(parts)).value))

parse_insn(word) ==
  LET digits == string_to_b81_digits(word)
      trits == unpack_base81(digits.value, OpcodeTrits + 3 * OperandTrits)
      Read(from, n) == ToWord(SubSeq(trits.value, from + 1, from + n))[1]
  IN IF ~IsOk(digits) THEN digits
     ELSE IF ~IsOk(trits) THEN trits
     ELSE Ok([opcode |-> Read(0, OpcodeTrits) % ByteValues,
                       operands |-> [k \in 1..3 |-> Read(OpcodeTrits + (k - 1) * OperandTrits, OperandTrits)],
                       literal |-> "Int"])

(************************ vectors of packed bytes **************************)
(* Vectors that are kept as PT-5 bytes are unpacked for every operation.    *)
PackedVector(packed, count) == [packed |-> packed, count |-> count]
PackedFromTrits(trits) ==
  IF AreTrits(trits) THEN Ok(PackedVector(pack_pt5(trits).value, Len(trits))) ELSE Err("INVALID_TRIT")
PackedFromBytes(bytes, count) ==
  LET trits == unpack_pt5(bytes, count)
  IN IF IsOk(trits) THEN Ok(PackedVector(bytes, count)) ELSE trits
PackedToTrits(v) == unpack_pt5(v.packed, v.count)
PackedOp(op, v, w) ==
  IF v.count # w.count THEN Mismatch
  ELSE PackedFromTrits(EachTrit(op, PackedToTrits(v).value, PackedToTrits(w).value))

from_pt5(packed) == ComputeFromTrits(PackedToTrits(packed).value)
from_compute(v) ==
  LET trits == ComputeToTrits(v) IN IF IsOk(trits) THEN PackedFromTrits(trits.value) ELSE trits
=============================================================================
