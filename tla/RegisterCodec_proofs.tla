-------------------------- MODULE RegisterCodec_proofs --------------------------
(****************************************************************************)
(* What the words of a number determine: every encoder is undone by the     *)
(* decoder of a master or a client, for all numbers of the width; beyond    *)
(* the width they differ by a multiple of it.  And what int() of a quotient *)
(* loses.                                                                   *)
(****************************************************************************)
EXTENDS RegisterCodec, TLAPS

------------------------------------------------------------------------------
(* Words *)

\* LowWord and the quotient determine a number.
LEMMA Split ==
  ASSUME NEW v \in Int
  PROVE  /\ v \div WordSize \in Int
         /\ LowWord(v) \in Int /\ 0 <= LowWord(v) /\ LowWord(v) < WordSize
         /\ v = (v \div WordSize) * WordSize + LowWord(v)
BY DEF LowWord, WordSize

\* The high word is the low word of the quotient.
LEMMA HighIsLow == ASSUME NEW v \in Int PROVE HighWord(v) = LowWord(v \div WordSize)
BY DEF HighWord, LowWord

\* What _to_i16 gives is a signed number of 16 bits, equal to the word or 2^16 below it.
LEMMA Signed ==
  ASSUME NEW w \in Int, 0 <= w, w < WordSize
  PROVE  /\ I16(w) \in Int /\ -32768 <= I16(w) /\ I16(w) < 32768
         /\ I16(w) = w \/ I16(w) + WordSize = w
BY DEF I16, WordSize

\* The words of a number fit into a register.
LEMMA WordsFit ==
  ASSUME NEW v \in Int
  PROVE  /\ LowWord(v) \in Int /\ 0 <= LowWord(v) /\ LowWord(v) < WordSize
         /\ HighWord(v) \in Int /\ 0 <= HighWord(v) /\ HighWord(v) < WordSize
<1>1. v \div WordSize \in Int
  BY Split
<1> QED  BY <1>1, Split, HighIsLow

\* put_i16 is undone by _to_i16 for all numbers of 16 bits.
THEOREM RoundTrip16 ==
  ASSUME NEW v \in Int, -32768 <= v, v < 32768
  PROVE  I16(LowWord(v)) = v
BY DEF I16, LowWord, WordSize

\* Beyond 16 bits it loses whole multiples of 2^16, as registers 36005-36008 do beside
\* the 32-bit registers of the same powers.
THEOREM Wraps16 ==
  ASSUME NEW v \in Int
  PROVE  LET k == (v - I16(LowWord(v))) \div WordSize
         IN  /\ -32768 <= I16(LowWord(v)) /\ I16(LowWord(v)) < 32768
             /\ v = k * WordSize + I16(LowWord(v))
<1>1. \A w, q \in Int :
        0 <= w /\ w < WordSize /\ v = q * WordSize + w /\ w = LowWord(v) =>
          LET k == (v - I16(w)) \div WordSize
          IN  -32768 <= I16(w) /\ I16(w) < 32768 /\ v = k * WordSize + I16(w)
  BY Signed DEF WordSize
<1> QED  BY <1>1, Split

\* put_i32 is undone by the masters' decoder and by those of the clients, whichever
\* word comes first, for all numbers of 32 bits.
THEOREM RoundTrip32 ==
  ASSUME NEW v \in Int, -2147483648 <= v, v < 2147483648
  PROVE  I32(HighWord(v), LowWord(v)) = v
<1>1. /\ v \div WordSize \in Int
      /\ -32768 <= v \div WordSize /\ v \div WordSize < 32768
  BY DEF WordSize
<1>2. I16(HighWord(v)) = v \div WordSize
  BY <1>1, RoundTrip16, HighIsLow
<1> QED  BY <1>2, Split DEF I32

\* put_u32 is undone for all unsigned numbers of 32 bits.
THEOREM RoundTripU32 ==
  ASSUME NEW v \in Nat, v < WordSize * WordSize
  PROVE  U32(HighWord(v), LowWord(v)) = v
BY DEF U32, HighWord, LowWord, WordSize

\* put_i32 adds 2^32 to negative numbers, which changes neither word: PutI32 may leave
\* it out.
THEOREM TwosComplement ==
  ASSUME NEW v \in Int
  PROVE  /\ LowWord(v + WordSize * WordSize) = LowWord(v)
         /\ HighWord(v + WordSize * WordSize) = HighWord(v)
BY DEF HighWord, LowWord, WordSize

------------------------------------------------------------------------------
(* Quotients *)

\* Floor division of natural numbers.
LEMMA Quotient ==
  ASSUME NEW n \in Nat, NEW d \in Nat, d > 0
  PROVE  LET k == n \div d IN k \in Nat /\ k * d <= n /\ n < (k + 1) * d
OBVIOUS

\* int(n / d) has the sign of n and is the nearest number of units toward zero.
THEOREM TruncWithinUnit ==
  ASSUME NEW n \in Int, NEW d \in Nat, d > 0
  PROVE  LET k == Trunc(n, d)
         IN  /\ k \in Int
             /\ n >= 0 => 0 <= k /\ k * d <= n /\ n < (k + 1) * d
             /\ n <= 0 => k <= 0 /\ n <= k * d /\ (k - 1) * d < n
<1>1. CASE n >= 0
  BY <1>1, Quotient DEF Trunc
<1>2. CASE n < 0
  <2> DEFINE m == (-n) \div d
  <2>1. -n \in Nat
    BY <1>2
  <2>2. m \in Nat /\ m * d <= -n /\ -n < (m + 1) * d /\ Trunc(n, d) = -m
    BY <1>2, <2>1, Quotient DEF Trunc
  <2>3. (-m) * d = -(m * d) /\ (-m - 1) * d = -((m + 1) * d)
    BY <2>2
  <2> QED  BY <1>2, <2>2, <2>3
<1> QED  BY <1>1, <1>2

\* Where the float falls short of a whole result, int() is still within one unit of it,
\* of its sign and no larger in size.
THEOREM CutWithinUnit ==
  ASSUME NEW n \in Int, NEW d \in Nat, d > 0, NEW short \in BOOLEAN
  PROVE  LET k == Cut(n, d, short)
         IN  /\ k \in Int
             /\ n >= 0 => 0 <= k /\ k * d <= n /\ n <= (k + 1) * d
             /\ n <= 0 => k <= 0 /\ n <= k * d /\ (k - 1) * d <= n
<1> DEFINE t == Trunc(n, d)
           k == Cut(n, d, short)
<1>1. /\ t \in Int
      /\ n >= 0 => 0 <= t /\ t * d <= n /\ n < (t + 1) * d
      /\ n <= 0 => t <= 0 /\ n <= t * d /\ (t - 1) * d < n
  BY TruncWithinUnit
<1>2. k = IF ~short \/ t * d # n \/ n = 0 THEN t ELSE IF n > 0 THEN t - 1 ELSE t + 1
  BY DEF Cut
<1> SUFFICES /\ k \in Int
             /\ n >= 0 => 0 <= k /\ k * d <= n /\ n <= (k + 1) * d
             /\ n <= 0 => k <= 0 /\ n <= k * d /\ (k - 1) * d <= n
  OBVIOUS
<1> HIDE DEF t, k
<1>3. CASE ~short \/ t * d # n \/ n = 0
  BY <1>1, <1>2, <1>3
<1>4. CASE short /\ t * d = n /\ n > 0
  <2>1. k = t - 1 /\ t > 0 /\ k \in Int
    BY <1>1, <1>2, <1>4
  <2>2. k * d = n - d /\ (k + 1) * d = n
    BY <1>1, <1>4, <2>1
  <2> QED  BY <1>4, <2>1, <2>2
<1>5. CASE short /\ t * d = n /\ n < 0
  <2>1. k = t + 1 /\ t < 0 /\ k \in Int
    BY <1>1, <1>2, <1>5
  <2>2. k * d = n + d /\ (k - 1) * d = n
    BY <1>1, <1>5, <2>1
  <2> QED  BY <1>5, <2>1, <2>2
<1> QED  BY <1>3, <1>4, <1>5

================================================================================
