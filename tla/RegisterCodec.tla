----------------------------- MODULE RegisterCodec -----------------------------
(****************************************************************************)
(* register_codec.py, and the decoders of the three clients: numbers as     *)
(* 16-bit words.  Registers written together are a set of pairs             *)
(* <<address, word>>; a map of registers is a union of such sets.           *)
(*                                                                          *)
(* Python's & and >> are exact on integers of any size and sign, so they    *)
(* are % and \div here.  The two words of a single float stand for          *)
(* themselves: nothing looks inside.                                        *)
(****************************************************************************)
EXTENDS Integers, Sequences

WordSize == 65536
LowWord(v) == v % WordSize
HighWord(v) == (v \div WordSize) % WordSize

------------------------------------------------------------------------------
(* Encoding *)

PutU16(a, v) == {<<a, LowWord(v)>>}
PutI16Unmasked(a, v) == {<<a, v>>}
PutI16(a, v) == {<<a, LowWord(v)>>}

\* The high word is written first.
PutU32(a, v) == {<<a, HighWord(v)>>, <<a + 1, LowWord(v)>>}

\* The 2^32 that put_i32 adds to a negative number changes neither word.
PutI32(a, v) == PutU32(a, v)

PutU64(a, v) == PutU32(a, (v \div WordSize) \div WordSize) \cup PutU32(a + 2, v)

PutF32(a, x) == {<<a, [high |-> x]>>, <<a + 1, [low |-> x]>>}

\* Text is a sequence of character codes, padded with spaces and cut to n registers.
PutAscii(a, text, n) ==
  LET Char(k) == (IF k <= Len(text) THEN text[k] ELSE 32) % 256
  IN  {<<a + i, 256 * Char(2 * i + 1) + Char(2 * i + 2)>> : i \in 0 .. n - 1}

------------------------------------------------------------------------------
(* Decoding *)

\* value & 0x8000
I16(w) == IF w >= 32768 THEN w - WordSize ELSE w

\* Both word orders: the high word comes first here.
I32(hi, lo) == I16(hi) * WordSize + lo
U32(hi, lo) == hi * WordSize + lo

------------------------------------------------------------------------------
(* What registers can hold *)

\* A number beyond the bits of its registers wraps around in them.  The halves of 32 bits
\* are compared, and the upper halves of 64 bits are zero.
FitsInto(kind, v) ==
  CASE kind = "i16" -> -32768 <= v /\ v <= 32767
    [] kind = "u16" -> v <= 65535
    [] kind = "i32" -> -32768 <= v \div WordSize /\ v \div WordSize <= 32767
    [] OTHER -> v \div WordSize <= 65535
Holds(kind, v) == FitsInto(kind, v) /\ (kind \in {"u16", "u32", "u64"} => 0 <= v)

\* A value that registers of the kind tell in the given unit.
Tells(kind, unit, v) == v % unit = 0 /\ Holds(kind, v \div unit)

------------------------------------------------------------------------------
(* Arithmetic of the conversions *)

Positive(v) == IF v > 0 THEN v ELSE 0

\* max(lo, min(hi, v))
Within(lo, hi, v) ==
  LET capped == IF v > hi THEN hi ELSE v
  IN  IF capped < lo THEN lo ELSE capped

\* int(n / d) truncates toward zero.
Trunc(n, d) == IF n >= 0 THEN n \div d ELSE -((-n) \div d)

\* int() of a float product: where the exact result is whole, the float may fall
\* short of it, and then the integer is one nearer to zero.
Cut(n, d, short) ==
  LET k == Trunc(n, d)
  IN  IF ~short \/ k * d # n \/ n = 0 THEN k ELSE IF n > 0 THEN k - 1 ELSE k + 1

================================================================================
