------------------------- MODULE PublishedValues_proofs -------------------------
(****************************************************************************)
(* What a master can rely on after any number of refreshes, whatever the    *)
(* configuration, the devices and their readings: every register holds one  *)
(* word, every field a number, the parts of a divided power add up, the     *)
(* invented powers are those of their voltages and currents, and what the   *)
(* devices measured is what a master reads.                                 *)
(****************************************************************************)
EXTENDS PublishedValues, ClientValues_proofs, FiniteSetTheorems

------------------------------------------------------------------------------
(* The register map *)

\* Registers of an area: every one of them has one word, which fits.
Layout(B, first, last) ==
  /\ \A r \in B : r[1] \in first .. last /\ (r[1] \in Floating \/ r[2] \in Word)
  /\ \A r, q \in B : r[1] = q[1] => r = q
LaidOut(B) == \E first, last \in Int : Layout(B, first, last)

\* Blocks one above the other, in the area from first to last.
Whole(B, n) == UNION {B[i] : i \in 1 .. n}
Stack(B, n, lo, hi, first, last) ==
  /\ n \in Nat /\ first \in Int /\ last \in Int
  /\ \A i \in 1 .. n : /\ Layout(B[i], lo[i], hi[i])
                        /\ lo[i] \in Int /\ hi[i] \in Int /\ first <= lo[i] /\ hi[i] <= last
  /\ \A i, j \in 1 .. n : i < j => hi[i] < lo[j]

LEMMA Blocks ==
  ASSUME NEW n, NEW B, NEW lo, NEW hi, NEW first, NEW last, Stack(B, n, lo, hi, first, last)
  PROVE  Layout(Whole(B, n), first, last)
<1> USE DEF Stack
<1>1. \A r \in Whole(B, n) : \E i \in 1 .. n : r \in B[i]
  BY DEF Whole
<1>2. ASSUME NEW i \in 1 .. n, NEW r \in B[i]
      PROVE  /\ r[1] \in Int /\ lo[i] <= r[1] /\ r[1] <= hi[i]
             /\ r[1] \in first .. last /\ (r[1] \in Floating \/ r[2] \in Word)
  BY DEF Layout
<1>3. ASSUME NEW i \in 1 .. n, NEW j \in 1 .. n, NEW r \in B[i], NEW q \in B[j], r[1] = q[1]
      PROVE  r = q
  <2>1. \A k \in 1 .. n : lo[k] \in Int /\ hi[k] \in Int
    OBVIOUS
  <2>2. hi[i] >= lo[j] /\ hi[j] >= lo[i]
    BY <1>2, <1>3, <2>1
  <2>3. i = j
    BY <2>1, <2>2
  <2> QED  BY <1>3, <2>3 DEF Layout
<1>4. \A r, q \in Whole(B, n) : r[1] = q[1] => r = q
  BY <1>1, <1>3
<1> QED  BY <1>1, <1>2, <1>4 DEF Layout

LEMMA WordRange == ASSUME NEW w \in Int, 0 <= w, w < WordSize PROVE w \in Word
<1>1. WordSize \in Int
  BY DEF WordSize
<1> QED  BY <1>1 DEF Word

LEMMA OneWord ==
  ASSUME NEW a \in Int, NEW v \in Int
  PROVE  Layout(PutU16(a, v), a, a) /\ Layout(PutI16(a, v), a, a)
<1>1. LowWord(v) \in Word
  BY WordsFit, WordRange
<1> QED  BY <1>1 DEF Layout, PutU16, PutI16

LEMMA TwoWords ==
  ASSUME NEW a \in Int, NEW b \in Int, b = a + 1, NEW v \in Int
  PROVE  Layout(PutU32(a, v), a, b) /\ Layout(PutI32(a, v), a, b)
<1>1. LowWord(v) \in Word /\ HighWord(v) \in Word
  BY WordsFit, WordRange
<1> QED  BY <1>1 DEF Layout, PutU32, PutI32

LEMMA FourWords ==
  ASSUME NEW a \in Int, NEW b \in Int, b = a + 3, NEW v \in Int
  PROVE  Layout(PutU64(a, v), a, b)
<1>1. (v \div WordSize) \div WordSize \in Int
  BY DEF WordSize
<1> DEFINE B == <<PutU32(a, (v \div WordSize) \div WordSize), PutU32(a + 2, v)>>
<1>2. Layout(B[1], a, a + 1) /\ Layout(B[2], a + 2, a + 3)
  BY <1>1, TwoWords
<1>3. Stack(B, 2, <<a, a + 2>>, <<a + 1, a + 3>>, a, b)
  <2> HIDE DEF B
  <2> QED  BY <1>2 DEF Stack
<1>4. PutU64(a, v) = Whole(B, 2)
  BY DEF PutU64, Whole
<1> HIDE DEF B
<1> QED  BY <1>3, <1>4, Blocks

LEMMA FloatWords ==
  ASSUME NEW a \in {36015, 36017}, NEW b, b = a + 1, NEW x
  PROVE  Layout(PutF32(a, x), a, b)
BY DEF Layout, PutF32, Floating

LEMMA Text ==
  ASSUME NEW a \in Int, NEW text \in Seq(Nat), NEW n \in Nat, NEW b \in Int, a + n = b + 1
  PROVE  Layout(PutAscii(a, text, n), a, b)
<1> DEFINE Char(k) == (IF k <= Len(text) THEN text[k] ELSE 32) % 256
           Pair(i) == 256 * Char(2 * i + 1) + Char(2 * i + 2)
<1>1. \A v \in Nat : v % 256 \in Int /\ 0 <= v % 256 /\ v % 256 <= 255
  OBVIOUS
<1>2. \A k \in Nat \ {0} : (IF k <= Len(text) THEN text[k] ELSE 32) \in Nat
  OBVIOUS
<1>3. \A k \in Nat \ {0} : Char(k) \in Int /\ 0 <= Char(k) /\ Char(k) <= 255
  BY <1>1, <1>2
<1>4. PutAscii(a, text, n) = {<<a + i, Pair(i)>> : i \in 0 .. n - 1}
  BY DEF PutAscii
<1> HIDE DEF Char
<1>5. \A i \in 0 .. n - 1 : Pair(i) \in Word
  <2> SUFFICES ASSUME NEW i \in 0 .. n - 1 PROVE Pair(i) \in Word
    OBVIOUS
  <2>1. 2 * i + 1 \in Nat \ {0} /\ 2 * i + 2 \in Nat \ {0}
    OBVIOUS
  <2>2. /\ Char(2 * i + 1) \in Int /\ 0 <= Char(2 * i + 1) /\ Char(2 * i + 1) <= 255
        /\ Char(2 * i + 2) \in Int /\ 0 <= Char(2 * i + 2) /\ Char(2 * i + 2) <= 255
    BY <1>3, <2>1
  <2>3. Pair(i) \in Int /\ 0 <= Pair(i) /\ Pair(i) < WordSize
    BY <2>2 DEF WordSize
  <2> QED  BY <2>3, WordRange
<1>6. \A i \in 0 .. n - 1 : a + i \in a .. b
  OBVIOUS
<1>7. \A r \in PutAscii(a, text, n) : \E i \in 0 .. n - 1 : r = <<a + i, Pair(i)>>
  BY <1>4
<1> HIDE DEF Pair
<1>8. \A r \in PutAscii(a, text, n) : r[1] \in a .. b /\ r[2] \in Word
  BY <1>5, <1>6, <1>7
<1>9. \A r, q \in PutAscii(a, text, n) : r[1] = q[1] => r = q
  <2> SUFFICES ASSUME NEW r \in PutAscii(a, text, n), NEW q \in PutAscii(a, text, n),
                      r[1] = q[1]
               PROVE  r = q
    OBVIOUS
  <2>1. PICK i \in 0 .. n - 1, j \in 0 .. n - 1 : r = <<a + i, Pair(i)>> /\ q = <<a + j, Pair(j)>>
    BY <1>7
  <2>2. i = j
    BY <2>1
  <2> QED  BY <2>1, <2>2
<1> QED  BY <1>8, <1>9 DEF Layout

\* What the map shows of a field is a number.
LEMMA ShownInt ==
  ASSUME NEW v \in Int, NEW short
  PROVE  /\ Positive(v) \in Int
         /\ Cut(v, 1, short) \in Int /\ Cut(v, 10, short) \in Int
         /\ Cut(v, 100, short) \in Int /\ Cut(v, 1000, short) \in Int
         /\ Cut(Positive(v), 10, short) \in Int /\ Cut(Positive(v), 100, short) \in Int
         /\ Positive(Cut(v, 1, short)) \in Int /\ Positive(Cut(v, 100, short)) \in Int
<1>1. \A x \in Int : Positive(x) \in Int
  BY DEF Positive
<1>2. \A x \in Int, d \in {1, 10, 100, 1000} : Cut(x, d, short) \in Int
  <2>1. \A x \in Int, d \in {1, 10, 100, 1000} : Trunc(x, d) \in Int
    BY TruncInt
  <2> QED  BY <2>1 DEF Cut
<1> QED  BY <1>1, <1>2

LEMMA DeviceInfoBlock ==
  ASSUME NEW c, c.rated_power \in Int, c.serial_number \in Seq(Nat),
         c.model_name \in Seq(Nat), c.external_model_name \in Seq(Nat)
  PROVE  Layout(DeviceInfo(c), 35000, 35075)
<1> DEFINE mark == <<69, 77, 85, 70, 87, 49>>
           external == IF \A i \in DOMAIN c.external_model_name : c.external_model_name[i] = 32
                         THEN {} ELSE PutAscii(35060, c.external_model_name, 16)
           B == <<PutU16(35000, 1), PutU16(35001, c.rated_power), PutU16(35002, 1),
                  PutAscii(35003, c.serial_number, 8), PutAscii(35011, c.model_name, 5),
                  PutU16(35016, 100), PutU16(35017, 100), PutU16(35018, 1), PutU16(35019, 22),
                  PutU16(35020, 1), PutAscii(35021, mark, 6), external>>
<1>1. mark \in Seq(Nat)
  OBVIOUS
<1>2. Layout(external, 35060, 35075)
  <2>1. \A text \in Seq(Nat) : Layout(PutAscii(35060, text, 16), 35060, 35075)
    BY Text
  <2> QED  BY <2>1 DEF Layout
<1>3. DeviceInfo(c) =
        UNION {PutU16(35000, 1), PutU16(35001, c.rated_power), PutU16(35002, 1),
               PutAscii(35003, c.serial_number, 8), PutAscii(35011, c.model_name, 5), external,
               PutU16(35016, 100), PutU16(35017, 100), PutU16(35018, 1), PutU16(35019, 22),
               PutU16(35020, 1), PutAscii(35021, mark, 6)}
  BY DEF DeviceInfo
<1> HIDE DEF external, mark
<1>4. DeviceInfo(c) = Whole(B, 12)
  BY <1>3 DEF Whole
<1>5. /\ Layout(B[1], 35000, 35000) /\ Layout(B[2], 35001, 35001) /\ Layout(B[3], 35002, 35002)
      /\ Layout(B[6], 35016, 35016) /\ Layout(B[7], 35017, 35017) /\ Layout(B[8], 35018, 35018)
      /\ Layout(B[9], 35019, 35019) /\ Layout(B[10], 35020, 35020)
  BY OneWord
<1>6. Layout(B[4], 35003, 35010) /\ Layout(B[5], 35011, 35015) /\ Layout(B[11], 35021, 35026)
  <2>1. \A text \in Seq(Nat) : Layout(PutAscii(35003, text, 8), 35003, 35010)
    BY Text
  <2>2. \A text \in Seq(Nat) : Layout(PutAscii(35011, text, 5), 35011, 35015)
    BY Text
  <2>3. \A text \in Seq(Nat) : Layout(PutAscii(35021, text, 6), 35021, 35026)
    BY Text
  <2> QED  BY <1>1, <2>1, <2>2, <2>3
<1>7. Stack(B, 12, <<35000, 35001, 35002, 35003, 35011, 35016, 35017, 35018, 35019, 35020,
                     35021, 35060>>,
                   <<35000, 35001, 35002, 35010, 35015, 35016, 35017, 35018, 35019, 35020,
                     35026, 35075>>, 35000, 35075)
  <2>1. Layout(B[12], 35060, 35075)
    BY <1>2
  <2> HIDE DEF B
  <2> QED  BY <1>5, <1>6, <2>1 DEF Stack
<1> HIDE DEF B
<1> QED  BY <1>4, <1>7, Blocks

LEMMA KeptFields ==
  /\ \A name \in {"pv_voltage", "pv_current", "pv_power"}, i \in 1 .. 4 : <<name, i>> \in Fields
  /\ \A name \in {"inverter_voltage", "inverter_current", "meter_voltage", "meter_current"},
        p \in 1 .. 3 : <<name, p>> \in Fields
  /\ \A name \in {"inverter_power", "inverter_reactive_power", "inverter_apparent_power",
                  "meter_power", "meter_reactive_power", "meter_apparent_power",
                  "meter_power_factor", "meter_energy_import"},
        p \in 0 .. 3 : <<name, p>> \in Fields
  /\ \A name \in {"pv_power", "inverter_frequency", "inverter_power_factor", "temperature_air",
                  "temperature_module", "temperature_radiator", "meter_frequency",
                  "meter_energy_export", "battery_soc", "battery_voltage", "battery_power",
                  "battery_current", "battery_temperature", "battery_health"} :
       <<name, 0>> \in Fields
BY DEF Fields, MeterFields, InverterFields, PvFields, BatteryFields, Phases, Strings

LEMMA PvStringBlock ==
  ASSUME NEW s \in [Fields -> Int], NEW short, NEW i \in 1 .. 4
  PROVE  Layout(PvString(s, i, short), 35099 + 4 * i, 35102 + 4 * i)
<1> DEFINE a == 35103 + 4 * (i - 1)
           voltage == Cut(Positive(s[<<"pv_voltage", i>>]), 100, short)
           current == Cut(Positive(s[<<"pv_current", i>>]), 100, short)
           power == Positive(s[<<"pv_power", i>>])
           B == <<PutU16(a, voltage), PutU16(a + 1, current), PutU32(a + 2, power)>>
<1>1. voltage \in Int /\ current \in Int /\ power \in Int
  <2>1. /\ s[<<"pv_voltage", i>>] \in Int /\ s[<<"pv_current", i>>] \in Int
        /\ s[<<"pv_power", i>>] \in Int
    BY KeptFields
  <2>2. \A x \in Int : Positive(x) \in Int /\ Cut(Positive(x), 100, short) \in Int
    BY ShownInt
  <2> QED  BY <2>1, <2>2
<1>2. PvString(s, i, short) = UNION {PutU16(a, voltage), PutU16(a + 1, current),
                                     PutU32(a + 2, power)}
  BY DEF PvString
<1>3. a \in Int /\ a = 35099 + 4 * i /\ a + 3 = 35102 + 4 * i
  OBVIOUS
<1> HIDE DEF a, voltage, current, power
<1>4. /\ Layout(B[1], a, a) /\ Layout(B[2], a + 1, a + 1)
      /\ Layout(B[3], a + 2, a + 3)
  BY <1>1, <1>3, OneWord, TwoWords
<1>5. PvString(s, i, short) = Whole(B, 3)
  BY <1>2 DEF Whole
<1> HIDE DEF B
<1>6. Stack(B, 3, <<a, a + 1, a + 2>>, <<a, a + 1, a + 3>>, a, a + 3)
  BY <1>3, <1>4 DEF Stack
<1>7. Layout(Whole(B, 3), a, a + 3)
  BY <1>6, Blocks
<1> QED  BY <1>3, <1>5, <1>7

\* The same register of the three phases.
OfPhases(s, name) == [p \in Phases |-> s[<<name, p>>]]
WordRow(a, v) == UNION {PutU16(a + p, v[p]) : p \in Phases}
PairRow(a, v) == UNION {PutI32(a + 2 * p, v[p]) : p \in Phases}
QuadRow(a, v) == UNION {PutU64(a + 4 * p, v[p]) : p \in Phases}

LEMMA Rows ==
  ASSUME NEW a \in Int, NEW v \in [Phases -> Int]
  PROVE  /\ Layout(WordRow(a, v), a + 1, a + 3)
         /\ Layout(PairRow(a, v), a + 2, a + 7)
         /\ Layout(QuadRow(a, v), a + 4, a + 15)
<1>1. v[1] \in Int /\ v[2] \in Int /\ v[3] \in Int
  BY DEF Phases
<1>2. Layout(WordRow(a, v), a + 1, a + 3)
  <2> DEFINE B == <<PutU16(a + 1, v[1]), PutU16(a + 2, v[2]), PutU16(a + 3, v[3])>>
  <2>1. /\ Layout(B[1], a + 1, a + 1) /\ Layout(B[2], a + 2, a + 2)
        /\ Layout(B[3], a + 3, a + 3)
    BY <1>1, OneWord
  <2>2. WordRow(a, v) = Whole(B, 3)
    BY DEF WordRow, Whole, Phases
  <2> HIDE DEF B
  <2>3. Stack(B, 3, <<a + 1, a + 2, a + 3>>, <<a + 1, a + 2, a + 3>>, a + 1, a + 3)
    BY <2>1 DEF Stack
  <2> QED  BY <2>2, <2>3, Blocks
<1>3. Layout(PairRow(a, v), a + 2, a + 7)
  <2> DEFINE B == <<PutI32(a + 2, v[1]), PutI32(a + 4, v[2]), PutI32(a + 6, v[3])>>
  <2>1. /\ Layout(B[1], a + 2, a + 3) /\ Layout(B[2], a + 4, a + 5)
        /\ Layout(B[3], a + 6, a + 7)
    BY <1>1, TwoWords
  <2>2. PairRow(a, v) = Whole(B, 3)
    BY DEF PairRow, Whole, Phases
  <2> HIDE DEF B
  <2>3. Stack(B, 3, <<a + 2, a + 4, a + 6>>, <<a + 3, a + 5, a + 7>>, a + 2, a + 7)
    BY <2>1 DEF Stack
  <2> QED  BY <2>2, <2>3, Blocks
<1>4. Layout(QuadRow(a, v), a + 4, a + 15)
  <2> DEFINE B == <<PutU64(a + 4, v[1]), PutU64(a + 8, v[2]), PutU64(a + 12, v[3])>>
  <2>1. /\ Layout(B[1], a + 4, a + 7) /\ Layout(B[2], a + 8, a + 11)
        /\ Layout(B[3], a + 12, a + 15)
    BY <1>1, FourWords
  <2>2. QuadRow(a, v) = Whole(B, 3)
    BY DEF QuadRow, Whole, Phases
  <2> HIDE DEF B
  <2>3. Stack(B, 3, <<a + 4, a + 8, a + 12>>, <<a + 7, a + 11, a + 15>>, a + 4, a + 15)
    BY <2>1 DEF Stack
  <2> QED  BY <2>2, <2>3, Blocks
<1> QED  BY <1>2, <1>3, <1>4

\* Voltage, current, frequency and power of a phase of the inverter.
AcRow(s, p, short) ==
  UNION {PutU16(35116 + 5 * p, Cut(Positive(s[<<"inverter_voltage", p>>]), 100, short)),
         PutU16(35117 + 5 * p, Cut(Positive(s[<<"inverter_current", p>>]), 100, short)),
         PutU16(35118 + 5 * p, Cut(Positive(s[<<"inverter_frequency", 0>>]), 10, short)),
         PutI32(35119 + 5 * p, s[<<"inverter_power", p>>])}

LEMMA AcRowBlock ==
  ASSUME NEW s \in [Fields -> Int], NEW short, NEW p \in 1 .. 3
  PROVE  Layout(AcRow(s, p, short), 35116 + 5 * p, 35120 + 5 * p)
<1> DEFINE a == 35116 + 5 * p
           voltage == Cut(Positive(s[<<"inverter_voltage", p>>]), 100, short)
           current == Cut(Positive(s[<<"inverter_current", p>>]), 100, short)
           frequency == Cut(Positive(s[<<"inverter_frequency", 0>>]), 10, short)
           power == s[<<"inverter_power", p>>]
           B == <<PutU16(a, voltage), PutU16(a + 1, current), PutU16(a + 2, frequency),
                  PutI32(a + 3, power)>>
<1>1. voltage \in Int /\ current \in Int /\ frequency \in Int /\ power \in Int
  <2>1. /\ s[<<"inverter_voltage", p>>] \in Int /\ s[<<"inverter_current", p>>] \in Int
    BY KeptFields
  <2>2. s[<<"inverter_frequency", 0>>] \in Int
    BY KeptFields
  <2>3. s[<<"inverter_power", p>>] \in Int
    <3>1. p \in 0 .. 3
      OBVIOUS
    <3> QED  BY <3>1, KeptFields
  <2> QED  BY <2>1, <2>2, <2>3, ShownInt
<1>2. a \in Int /\ a = 35116 + 5 * p /\ a + 1 = 35117 + 5 * p /\ a + 2 = 35118 + 5 * p
      /\ a + 3 = 35119 + 5 * p /\ a + 4 = 35120 + 5 * p
  OBVIOUS
<1>3. AcRow(s, p, short) = UNION {PutU16(35116 + 5 * p, voltage), PutU16(35117 + 5 * p, current),
                                  PutU16(35118 + 5 * p, frequency), PutI32(35119 + 5 * p, power)}
  BY DEF AcRow
<1> HIDE DEF a, voltage, current, frequency, power
<1>4. /\ Layout(B[1], a, a) /\ Layout(B[2], a + 1, a + 1) /\ Layout(B[3], a + 2, a + 2)
      /\ Layout(B[4], a + 3, a + 4)
  BY <1>1, <1>2, OneWord, TwoWords
<1>5. AcRow(s, p, short) = Whole(B, 4)
  BY <1>2, <1>3 DEF Whole
<1> HIDE DEF B
<1>6. Stack(B, 4, <<a, a + 1, a + 2, a + 3>>, <<a, a + 1, a + 2, a + 4>>, a, a + 4)
  BY <1>2, <1>4 DEF Stack
<1>7. Layout(Whole(B, 4), a, a + 4)
  BY <1>6, Blocks
<1> QED  BY <1>2, <1>5, <1>7

LEMMA TotalPowerInt == ASSUME NEW s \in [Fields -> Int] PROVE TotalPower(s) \in Int
<1>1. \A i \in 1 .. 4 : s[<<"pv_power", i>>] \in Int
  BY KeptFields
<1>2. s[<<"pv_power", 0>>] \in Int
  BY KeptFields
<1>3. s[<<"inverter_power", 0>>] \in Int
  BY KeptFields
<1> QED  BY <1>1, <1>2, <1>3 DEF TotalPower, PvTotal

StringRows(s, short) == UNION {PvString(s, i, short) : i \in Strings}
AcRows(s, short) == UNION {AcRow(s, p, short) : p \in Phases}
InverterRows(s, short) == UNION {InverterPhase(s, p, short) : p \in Phases}

LEMMA PhaseValues ==
  ASSUME NEW s \in [Fields -> Int],
         NEW name \in {"inverter_reactive_power", "inverter_apparent_power", "meter_power",
                       "meter_reactive_power", "meter_apparent_power", "meter_power_factor",
                       "meter_energy_import", "meter_voltage", "meter_current"}
  PROVE  (\A p \in Phases : <<name, p>> \in Fields) /\ OfPhases(s, name) \in [Phases -> Int]
<1>1. \A p \in 1 .. 3 : p \in 0 .. 3
  OBVIOUS
<1>2. \A p \in 1 .. 3 : <<name, p>> \in Fields
  BY <1>1, KeptFields
<1>3. \A p \in 1 .. 3 : s[<<name, p>>] \in Int
  BY <1>2
<1> QED  BY <1>2, <1>3 DEF OfPhases, Phases

LEMMA RuntimeRows ==
  ASSUME NEW s \in [Fields -> Int], NEW short
  PROVE  /\ Layout(StringRows(s, short), 35103, 35118)
         /\ Layout(AcRows(s, short), 35121, 35135)
<1>1. Layout(StringRows(s, short), 35103, 35118)
  <2> DEFINE B == <<PvString(s, 1, short), PvString(s, 2, short), PvString(s, 3, short),
                    PvString(s, 4, short)>>
  <2>1. /\ Layout(B[1], 35103, 35106) /\ Layout(B[2], 35107, 35110)
        /\ Layout(B[3], 35111, 35114) /\ Layout(B[4], 35115, 35118)
    BY PvStringBlock
  <2>2. StringRows(s, short) = Whole(B, 4)
    BY DEF StringRows, Whole, Strings
  <2> HIDE DEF B
  <2>3. Stack(B, 4, <<35103, 35107, 35111, 35115>>, <<35106, 35110, 35114, 35118>>, 35103, 35118)
    BY <2>1 DEF Stack
  <2> QED  BY <2>2, <2>3, Blocks
<1>2. Layout(AcRows(s, short), 35121, 35135)
  <2> DEFINE B == <<AcRow(s, 1, short), AcRow(s, 2, short), AcRow(s, 3, short)>>
  <2>1. /\ Layout(B[1], 35121, 35125) /\ Layout(B[2], 35126, 35130)
        /\ Layout(B[3], 35131, 35135)
    <3>1. \A p \in 1 .. 3 : Layout(AcRow(s, p, short), 35116 + 5 * p, 35120 + 5 * p)
      BY AcRowBlock
    <3> QED  BY <3>1
  <2>2. AcRows(s, short) = Whole(B, 3)
    BY DEF AcRows, Whole, Phases
  <2> HIDE DEF B
  <2>3. Stack(B, 3, <<35121, 35126, 35131>>, <<35125, 35130, 35135>>, 35121, 35135)
    BY <2>1 DEF Stack
  <2> QED  BY <2>2, <2>3, Blocks
<1> QED  BY <1>1, <1>2

LEMMA InverterPhases ==
  ASSUME NEW s, NEW short
  PROVE  InverterRows(s, short) =
           AcRows(s, short) \cup PairRow(35351, OfPhases(s, "inverter_reactive_power"))
           \cup PairRow(35357, OfPhases(s, "inverter_apparent_power"))
<1> DEFINE R == OfPhases(s, "inverter_reactive_power")
           A == OfPhases(s, "inverter_apparent_power")
<1>1. ASSUME NEW p \in Phases
      PROVE  InverterPhase(s, p, short) =
               AcRow(s, p, short) \cup PutI32(35351 + 2 * p, R[p]) \cup PutI32(35357 + 2 * p, A[p])
  <2> DEFINE voltage == Cut(Positive(s[<<"inverter_voltage", p>>]), 100, short)
             current == Cut(Positive(s[<<"inverter_current", p>>]), 100, short)
             frequency == Cut(Positive(s[<<"inverter_frequency", 0>>]), 10, short)
             power == s[<<"inverter_power", p>>]
             reactive == s[<<"inverter_reactive_power", p>>]
             apparent == s[<<"inverter_apparent_power", p>>]
             a == 35121 + 5 * (p - 1)
             b == 35353 + 2 * (p - 1)
  <2>1. InverterPhase(s, p, short) =
          UNION {PutU16(a, voltage), PutU16(a + 1, current), PutU16(a + 2, frequency),
                 PutI32(a + 3, power), PutI32(b, reactive), PutI32(b + 6, apparent)}
    BY DEF InverterPhase
  <2>2. AcRow(s, p, short) =
          UNION {PutU16(35116 + 5 * p, voltage), PutU16(35117 + 5 * p, current),
                 PutU16(35118 + 5 * p, frequency), PutI32(35119 + 5 * p, power)}
    BY DEF AcRow
  <2>3. /\ a = 35116 + 5 * p /\ a + 1 = 35117 + 5 * p /\ a + 2 = 35118 + 5 * p
        /\ a + 3 = 35119 + 5 * p /\ b = 35351 + 2 * p /\ b + 6 = 35357 + 2 * p
    BY DEF Phases
  <2> HIDE DEF voltage, current, frequency, power, reactive, apparent, a, b
  <2>4. InverterPhase(s, p, short) = AcRow(s, p, short) \cup PutI32(35351 + 2 * p, reactive)
                                     \cup PutI32(35357 + 2 * p, apparent)
    BY <2>1, <2>2, <2>3
  <2>5. R[p] = reactive /\ A[p] = apparent
    BY DEF reactive, apparent, OfPhases
  <2> QED  BY <2>4, <2>5
<1> HIDE DEF R, A
<1>2. InverterRows(s, short) =
        AcRows(s, short) \cup PairRow(35351, R) \cup PairRow(35357, A)
  BY <1>1 DEF PairRow, AcRows, InverterRows
<1> QED  BY <1>2 DEF R, A

LEMMA RuntimeDataBlock ==
  ASSUME NEW s \in [Fields -> Int], NEW short
  PROVE  Layout(RuntimeData(s, short), 35103, 35364)
<1> DEFINE Tenths(name) == Cut(s[<<name, 0>>], 100, short)
           R == OfPhases(s, "inverter_reactive_power")
           A == OfPhases(s, "inverter_apparent_power")
           total == TotalPower(s)
           active == s[<<"inverter_power", 0>>]
           reactive == s[<<"inverter_reactive_power", 0>>]
           apparent == Positive(s[<<"inverter_apparent_power", 0>>])
           air == Tenths("temperature_air")
           module == Tenths("temperature_module")
           radiator == Tenths("temperature_radiator")
           power == s[<<"battery_power", 0>>]
           voltage == Tenths("battery_voltage")
           current == Tenths("battery_current")
           B == <<StringRows(s, short), AcRows(s, short), PutU16(35136, 1),
                  PutI32(35137, total), PutI16(35140, active), PutI16(35142, reactive),
                  PutU16(35144, apparent), PutI16(35174, air), PutI16(35175, module),
                  PutI16(35176, radiator), PutU16(35180, voltage), PutI16(35181, current),
                  PutI32(35182, power), PutU16(35184, 3), PutU16(35187, 1), PutU16(35188, 0),
                  PairRow(35351, R), PairRow(35357, A)>>
<1>1. active \in Int /\ reactive \in Int /\ apparent \in Int
  <2>1. /\ s[<<"inverter_power", 0>>] \in Int /\ s[<<"inverter_reactive_power", 0>>] \in Int
        /\ s[<<"inverter_apparent_power", 0>>] \in Int
    BY KeptFields
  <2>2. \A x \in Int : Positive(x) \in Int
    BY ShownInt
  <2> QED  BY <2>1, <2>2
<1>2. /\ air \in Int /\ module \in Int /\ radiator \in Int
      /\ voltage \in Int /\ current \in Int /\ power \in Int
  <2>1. /\ s[<<"temperature_air", 0>>] \in Int /\ s[<<"temperature_module", 0>>] \in Int
        /\ s[<<"temperature_radiator", 0>>] \in Int /\ s[<<"battery_voltage", 0>>] \in Int
        /\ s[<<"battery_current", 0>>] \in Int /\ s[<<"battery_power", 0>>] \in Int
    BY KeptFields
  <2>2. \A x \in Int : Cut(x, 100, short) \in Int
    BY ShownInt
  <2> QED  BY <2>1, <2>2
<1>3. R \in [Phases -> Int] /\ A \in [Phases -> Int]
  BY PhaseValues
<1>4. total \in Int
  BY TotalPowerInt
<1>5. RuntimeData(s, short) =
        UNION {StringRows(s, short), InverterRows(s, short),
               PutU16(35136, 1), PutI32(35137, total), PutI16(35140, active),
               PutI16(35142, reactive), PutU16(35144, apparent), PutI16(35174, air),
               PutI16(35175, module), PutI16(35176, radiator), PutI32(35182, power),
               PutU16(35180, voltage), PutI16(35181, current), PutU16(35184, 3),
               PutU16(35187, 1), PutU16(35188, 0)}
  BY DEF RuntimeData, StringRows, InverterRows
<1>6. InverterRows(s, short) = AcRows(s, short) \cup PairRow(35351, R) \cup PairRow(35357, A)
  BY InverterPhases
<1> HIDE DEF R, A, total, active, reactive, apparent, air, module, radiator, power, voltage,
             current
<1>7. RuntimeData(s, short) = Whole(B, 18)
  BY <1>5, <1>6 DEF Whole
<1>8. /\ Layout(B[1], 35103, 35118) /\ Layout(B[2], 35121, 35135)
  BY RuntimeRows
<1>9. /\ Layout(B[3], 35136, 35136) /\ Layout(B[5], 35140, 35140) /\ Layout(B[6], 35142, 35142)
      /\ Layout(B[7], 35144, 35144) /\ Layout(B[8], 35174, 35174) /\ Layout(B[9], 35175, 35175)
      /\ Layout(B[10], 35176, 35176) /\ Layout(B[11], 35180, 35180)
      /\ Layout(B[12], 35181, 35181) /\ Layout(B[14], 35184, 35184)
      /\ Layout(B[15], 35187, 35187) /\ Layout(B[16], 35188, 35188)
  BY <1>1, <1>2, OneWord
<1>10. Layout(B[4], 35137, 35138) /\ Layout(B[13], 35182, 35183)
  BY <1>2, <1>4, TwoWords
<1>11. Layout(B[17], 35353, 35358) /\ Layout(B[18], 35359, 35364)
  BY <1>3, Rows
<1> HIDE DEF B
<1>12. Stack(B, 18, <<35103, 35121, 35136, 35137, 35140, 35142, 35144, 35174, 35175, 35176,
                      35180, 35181, 35182, 35184, 35187, 35188, 35353, 35359>>,
                    <<35118, 35135, 35136, 35138, 35140, 35142, 35144, 35174, 35175, 35176,
                      35180, 35181, 35183, 35184, 35187, 35188, 35358, 35364>>, 35103, 35364)
  BY <1>8, <1>9, <1>10, <1>11 DEF Stack
<1> QED  BY <1>7, <1>12, Blocks

MeterRows(s, short) == UNION {MeterPhase(s, p, short) : p \in Phases}
CutPhases(s, name, d, short) == [p \in Phases |-> Cut(s[<<name, p>>], d, short)]
ImportPhases(s, short) == [p \in Phases |-> WattHours(s[<<"meter_energy_import", p>>], short)]

LEMMA MeterPhases ==
  ASSUME NEW s, NEW short
  PROVE  MeterRows(s, short) =
           UNION {WordRow(36004, OfPhases(s, "meter_power")),
                  WordRow(36009, CutPhases(s, "meter_power_factor", 1, short)),
                  PairRow(36017, OfPhases(s, "meter_power")),
                  PairRow(36025, OfPhases(s, "meter_reactive_power")),
                  PairRow(36033, OfPhases(s, "meter_apparent_power")),
                  WordRow(36051, CutPhases(s, "meter_voltage", 100, short)),
                  WordRow(36054, CutPhases(s, "meter_current", 100, short)),
                  QuadRow(36104, ImportPhases(s, short))}
<1> DEFINE P == OfPhases(s, "meter_power")
           F == CutPhases(s, "meter_power_factor", 1, short)
           Q == OfPhases(s, "meter_reactive_power")
           A == OfPhases(s, "meter_apparent_power")
           V == CutPhases(s, "meter_voltage", 100, short)
           I == CutPhases(s, "meter_current", 100, short)
           E == ImportPhases(s, short)
<1>1. ASSUME NEW p \in Phases
      PROVE  MeterPhase(s, p, short) =
               UNION {PutU16(36004 + p, P[p]), PutU16(36009 + p, F[p]),
                      PutI32(36017 + 2 * p, P[p]), PutI32(36025 + 2 * p, Q[p]),
                      PutI32(36033 + 2 * p, A[p]), PutU16(36051 + p, V[p]),
                      PutU16(36054 + p, I[p]), PutU64(36104 + 4 * p, E[p])}
  <2>1. /\ P[p] = s[<<"meter_power", p>>] /\ Q[p] = s[<<"meter_reactive_power", p>>]
        /\ A[p] = s[<<"meter_apparent_power", p>>]
    BY DEF OfPhases
  <2>2. /\ F[p] = Cut(s[<<"meter_power_factor", p>>], 1, short)
        /\ V[p] = Cut(s[<<"meter_voltage", p>>], 100, short)
        /\ I[p] = Cut(s[<<"meter_current", p>>], 100, short)
    BY DEF CutPhases
  <2>3. E[p] = WattHours(s[<<"meter_energy_import", p>>], short)
    BY DEF ImportPhases
  <2>4. \A a, v : PutI16(a, v) = PutU16(a, v)
    BY DEF PutI16, PutU16
  <2> HIDE DEF P, F, Q, A, V, I, E
  <2>5. MeterPhase(s, p, short) =
          UNION {PutI16(36004 + p, P[p]), PutI16(36009 + p, F[p]),
                 PutI32(36017 + 2 * p, P[p]), PutI32(36025 + 2 * p, Q[p]),
                 PutI32(36033 + 2 * p, A[p]), PutU16(36051 + p, V[p]),
                 PutU16(36054 + p, I[p]), PutU64(36104 + 4 * p, E[p])}
    BY <2>1, <2>2, <2>3 DEF MeterPhase
  <2> QED  BY <2>4, <2>5
<1> HIDE DEF P, F, Q, A, V, I, E
<1>2. MeterRows(s, short) =
        UNION {WordRow(36004, P), WordRow(36009, F), PairRow(36017, P), PairRow(36025, Q),
               PairRow(36033, A), WordRow(36051, V), WordRow(36054, I), QuadRow(36104, E)}
  BY <1>1 DEF MeterRows, WordRow, PairRow, QuadRow
<1> QED  BY <1>2 DEF P, F, Q, A, V, I, E

MeterStatus == UNION {PutU16(a, IF a = 36001 THEN 100 ELSE 1) : a \in 36000 .. 36004}

LEMMA MeterStatusBlock == Layout(MeterStatus, 36000, 36004)
<1>1. \A a \in 36000 .. 36004 : \A v \in Int : Layout(PutU16(a, v), a, a)
  BY OneWord
<1>2. \A a \in 36000 .. 36004 : (IF a = 36001 THEN 100 ELSE 1) \in Int
  OBVIOUS
<1>3. \A a \in 36000 .. 36004 : Layout(PutU16(a, IF a = 36001 THEN 100 ELSE 1), a, a)
  BY <1>1, <1>2
<1> DEFINE block(a) == PutU16(a, IF a = 36001 THEN 100 ELSE 1)
<1>4. MeterStatus = UNION {block(a) : a \in 36000 .. 36004}
  BY DEF MeterStatus
<1>5. \A a \in 36000 .. 36004 : Layout(block(a), a, a)
  BY <1>3
<1> HIDE DEF block
<1>6. \A r \in MeterStatus : \E a \in 36000 .. 36004 : r \in block(a)
  BY <1>4
<1>7. \A a \in 36000 .. 36004 : \A r \in block(a) :
        r[1] = a /\ (r[1] \in Floating \/ r[2] \in Word)
  BY <1>5 DEF Layout
<1>8. \A a \in 36000 .. 36004 : \A r, q \in block(a) : r[1] = q[1] => r = q
  BY <1>5 DEF Layout
<1> QED  BY <1>6, <1>7, <1>8 DEF Layout

LEMMA MeterPhaseTypes ==
  ASSUME NEW s \in [Fields -> Int], NEW short
  PROVE  /\ CutPhases(s, "meter_power_factor", 1, short) \in [Phases -> Int]
         /\ CutPhases(s, "meter_voltage", 100, short) \in [Phases -> Int]
         /\ CutPhases(s, "meter_current", 100, short) \in [Phases -> Int]
         /\ ImportPhases(s, short) \in [Phases -> Int]
<1>1. \A x \in Int : /\ Cut(x, 1, short) \in Int /\ Cut(x, 100, short) \in Int
                     /\ Positive(Cut(x, 1, short)) \in Int
  BY ShownInt
<1>2. \A p \in Phases : Cut(s[<<"meter_power_factor", p>>], 1, short) \in Int
  <2>1. \A p \in Phases : s[<<"meter_power_factor", p>>] \in Int
    BY PhaseValues
  <2> QED  BY <1>1, <2>1
<1>3. \A p \in Phases : Cut(s[<<"meter_voltage", p>>], 100, short) \in Int
  <2>1. \A p \in Phases : s[<<"meter_voltage", p>>] \in Int
    BY PhaseValues
  <2> QED  BY <1>1, <2>1
<1>4. \A p \in Phases : Cut(s[<<"meter_current", p>>], 100, short) \in Int
  <2>1. \A p \in Phases : s[<<"meter_current", p>>] \in Int
    BY PhaseValues
  <2> QED  BY <1>1, <2>1
<1>5. \A p \in Phases : WattHours(s[<<"meter_energy_import", p>>], short) \in Int
  <2>1. \A p \in Phases : s[<<"meter_energy_import", p>>] \in Int
    BY PhaseValues
  <2> QED  BY <1>1, <2>1 DEF WattHours
<1>6. CutPhases(s, "meter_power_factor", 1, short) \in [Phases -> Int]
  BY <1>2 DEF CutPhases
<1>7. CutPhases(s, "meter_voltage", 100, short) \in [Phases -> Int]
  BY <1>3 DEF CutPhases
<1>8. CutPhases(s, "meter_current", 100, short) \in [Phases -> Int]
  BY <1>4 DEF CutPhases
<1>9. ImportPhases(s, short) \in [Phases -> Int]
  BY <1>5 DEF ImportPhases
<1> QED  BY <1>6, <1>7, <1>8, <1>9

LEMMA MeterDataBlock ==
  ASSUME NEW s \in [Fields -> Int], NEW short
  PROVE  Layout(MeterData(s, short), 36000, 36123)
<1> DEFINE P == OfPhases(s, "meter_power")
           F == CutPhases(s, "meter_power_factor", 1, short)
           Q == OfPhases(s, "meter_reactive_power")
           A == OfPhases(s, "meter_apparent_power")
           V == CutPhases(s, "meter_voltage", 100, short)
           I == CutPhases(s, "meter_current", 100, short)
           E == ImportPhases(s, short)
           active == s[<<"meter_power", 0>>]
           reactive == s[<<"meter_reactive_power", 0>>]
           apparent == s[<<"meter_apparent_power", 0>>]
           factor == Cut(s[<<"meter_power_factor", 0>>], 1, short)
           frequency == Cut(s[<<"meter_frequency", 0>>], 10, short)
           sold == s[<<"meter_energy_export", 0>>]
           bought == s[<<"meter_energy_import", 0>>]
           B == <<MeterStatus, WordRow(36004, P), PutI16(36008, active), PutI16(36009, reactive),
                  WordRow(36009, F), PutI16(36013, factor), PutU16(36014, frequency),
                  PutF32(36015, sold), PutF32(36017, bought), PairRow(36017, P),
                  PutI32(36025, active), PairRow(36025, Q), PutI32(36033, reactive),
                  PairRow(36033, A), PutI32(36041, apparent), PutU16(36043, 2),
                  PutU16(36044, 1), WordRow(36051, V), WordRow(36054, I), PutU64(36092, 0),
                  PutU64(36096, 0), PutU64(36100, 0), PutU64(36104, WattHours(sold, short)),
                  QuadRow(36104, E), PutU64(36120, WattHours(bought, short))>>
<1>1. active \in Int /\ reactive \in Int /\ apparent \in Int
  <2>1. /\ s[<<"meter_power", 0>>] \in Int /\ s[<<"meter_reactive_power", 0>>] \in Int
        /\ s[<<"meter_apparent_power", 0>>] \in Int
    BY KeptFields
  <2> QED  BY <2>1
<1>2. /\ factor \in Int /\ frequency \in Int
      /\ WattHours(sold, short) \in Int /\ WattHours(bought, short) \in Int
  <2>1. /\ s[<<"meter_power_factor", 0>>] \in Int /\ s[<<"meter_frequency", 0>>] \in Int
        /\ s[<<"meter_energy_export", 0>>] \in Int /\ s[<<"meter_energy_import", 0>>] \in Int
    BY KeptFields
  <2>2. \A x \in Int : /\ Cut(x, 1, short) \in Int /\ Cut(x, 10, short) \in Int
                       /\ WattHours(x, short) \in Int
    BY ShownInt DEF WattHours
  <2> QED  BY <2>1, <2>2
<1>3. /\ P \in [Phases -> Int] /\ Q \in [Phases -> Int] /\ A \in [Phases -> Int]
      /\ F \in [Phases -> Int] /\ V \in [Phases -> Int] /\ I \in [Phases -> Int]
      /\ E \in [Phases -> Int]
  BY PhaseValues, MeterPhaseTypes
<1>4. MeterData(s, short) =
        UNION {MeterStatus, MeterRows(s, short), PutI16(36008, active), PutI16(36009, reactive),
               PutI16(36013, factor), PutU16(36014, frequency), PutF32(36015, sold),
               PutF32(36017, bought), PutI32(36025, active), PutI32(36033, reactive),
               PutI32(36041, apparent), PutU16(36043, 2), PutU16(36044, 1), PutU64(36092, 0),
               PutU64(36096, 0), PutU64(36100, 0), PutU64(36104, WattHours(sold, short)),
               PutU64(36120, WattHours(bought, short))}
  BY DEF MeterData, MeterStatus, MeterRows
<1>5. MeterRows(s, short) =
        UNION {WordRow(36004, P), WordRow(36009, F), PairRow(36017, P), PairRow(36025, Q),
               PairRow(36033, A), WordRow(36051, V), WordRow(36054, I), QuadRow(36104, E)}
  BY MeterPhases
<1> HIDE DEF P, F, Q, A, V, I, E, active, reactive, apparent, factor, frequency, sold, bought
<1>6. MeterData(s, short) = Whole(B, 25)
  BY <1>4, <1>5 DEF Whole
<1>7. /\ Layout(B[2], 36005, 36007) /\ Layout(B[5], 36010, 36012) /\ Layout(B[10], 36019, 36024)
      /\ Layout(B[12], 36027, 36032) /\ Layout(B[14], 36035, 36040)
      /\ Layout(B[18], 36052, 36054) /\ Layout(B[19], 36055, 36057)
      /\ Layout(B[24], 36108, 36119)
  BY <1>3, Rows
<1>8. /\ Layout(B[3], 36008, 36008) /\ Layout(B[4], 36009, 36009) /\ Layout(B[6], 36013, 36013)
      /\ Layout(B[7], 36014, 36014) /\ Layout(B[16], 36043, 36043)
      /\ Layout(B[17], 36044, 36044)
  BY <1>1, <1>2, OneWord
<1>9. Layout(B[8], 36015, 36016) /\ Layout(B[9], 36017, 36018)
  BY FloatWords
<1>10. /\ Layout(B[11], 36025, 36026) /\ Layout(B[13], 36033, 36034)
       /\ Layout(B[15], 36041, 36042)
  BY <1>1, TwoWords
<1>11. /\ Layout(B[20], 36092, 36095) /\ Layout(B[21], 36096, 36099)
       /\ Layout(B[22], 36100, 36103) /\ Layout(B[23], 36104, 36107)
       /\ Layout(B[25], 36120, 36123)
  BY <1>2, FourWords
<1>12. Layout(B[1], 36000, 36004)
  BY MeterStatusBlock
<1> HIDE DEF B
<1>13. Stack(B, 25, <<36000, 36005, 36008, 36009, 36010, 36013, 36014, 36015, 36017, 36019,
                      36025, 36027, 36033, 36035, 36041, 36043, 36044, 36052, 36055, 36092,
                      36096, 36100, 36104, 36108, 36120>>,
                    <<36004, 36007, 36008, 36009, 36012, 36013, 36014, 36016, 36018, 36024,
                      36026, 36032, 36034, 36040, 36042, 36043, 36044, 36054, 36057, 36095,
                      36099, 36103, 36107, 36119, 36123>>, 36000, 36123)
  BY <1>7, <1>8, <1>9, <1>10, <1>11, <1>12 DEF Stack
<1> QED  BY <1>6, <1>13, Blocks

LEMMA BatteryDataBlock ==
  ASSUME NEW s \in [Fields -> Int], NEW short
  PROVE  Layout(BatteryData(s, short), 37003, 37008)
<1> DEFINE temperature == Positive(Cut(s[<<"battery_temperature", 0>>], 100, short))
           charge == s[<<"battery_soc", 0>>]
           health == Cut(s[<<"battery_health", 0>>], 1000, short)
           B == <<PutU16(37003, temperature), PutU16(37007, charge), PutU16(37008, health)>>
<1>1. temperature \in Int /\ charge \in Int /\ health \in Int
  <2>1. /\ s[<<"battery_temperature", 0>>] \in Int /\ s[<<"battery_soc", 0>>] \in Int
        /\ s[<<"battery_health", 0>>] \in Int
    BY KeptFields
  <2>2. \A x \in Int : Positive(Cut(x, 100, short)) \in Int /\ Cut(x, 1000, short) \in Int
    BY ShownInt
  <2> QED  BY <2>1, <2>2
<1>2. BatteryData(s, short) =
        UNION {PutU16(37003, temperature), PutU16(37007, charge), PutU16(37008, health)}
  BY DEF BatteryData
<1> HIDE DEF temperature, charge, health
<1>3. BatteryData(s, short) = Whole(B, 3)
  BY <1>2 DEF Whole
<1>4. Layout(B[1], 37003, 37003) /\ Layout(B[2], 37007, 37007) /\ Layout(B[3], 37008, 37008)
  BY <1>1, OneWord
<1> HIDE DEF B
<1>5. Stack(B, 3, <<37003, 37007, 37008>>, <<37003, 37007, 37008>>, 37003, 37008)
  BY <1>4 DEF Stack
<1> QED  BY <1>3, <1>5, Blocks

LEMMA SettingsBlock ==
  ASSUME NEW s \in [Fields -> Int], NEW short, NEW c, c.comm_addr \in Int
  PROVE  Layout(Settings(s, c, short), 45127, 47906)
<1> DEFINE address == c.comm_addr
           depth == 100 - s[<<"battery_soc", 0>>]
           factor == Cut(s[<<"inverter_power_factor", 0>>], 10, short)
           voltage == Positive(Cut(s[<<"battery_voltage", 0>>], 100, short))
           B == <<PutU16(45127, address), PutU16(45356, depth), PutI16(45482, factor),
                  PutU16(47000, 0), PutU16(47509, 1), PutU16(47510, 0), PutU16(47511, 0),
                  PutU16(47512, 0), PutU16(47906, voltage)>>
<1>1. depth \in Int /\ factor \in Int /\ voltage \in Int /\ address \in Int
  <2>1. /\ s[<<"battery_soc", 0>>] \in Int /\ s[<<"inverter_power_factor", 0>>] \in Int
        /\ s[<<"battery_voltage", 0>>] \in Int
    BY KeptFields
  <2>2. \A x \in Int : Positive(Cut(x, 100, short)) \in Int /\ Cut(x, 10, short) \in Int
    BY ShownInt
  <2> QED  BY <2>1, <2>2
<1>2. Settings(s, c, short) =
        UNION {PutU16(45127, address), PutU16(45356, depth), PutI16(45482, factor),
               PutU16(47906, voltage),
               UNION {PutU16(a, IF a = 47509 THEN 1 ELSE 0) : a \in {47000} \cup 47509 .. 47512}}
  BY DEF Settings
<1> HIDE DEF address, depth, factor, voltage
<1>3. UNION {PutU16(a, IF a = 47509 THEN 1 ELSE 0) : a \in {47000} \cup 47509 .. 47512} =
        UNION {PutU16(47000, 0), PutU16(47509, 1), PutU16(47510, 0), PutU16(47511, 0),
               PutU16(47512, 0)}
  BY DEF PutU16, LowWord, WordSize
<1>4. Settings(s, c, short) = Whole(B, 9)
  BY <1>2, <1>3 DEF Whole
<1>5. /\ Layout(B[1], 45127, 45127) /\ Layout(B[2], 45356, 45356) /\ Layout(B[3], 45482, 45482)
      /\ Layout(B[4], 47000, 47000) /\ Layout(B[5], 47509, 47509) /\ Layout(B[6], 47510, 47510)
      /\ Layout(B[7], 47511, 47511) /\ Layout(B[8], 47512, 47512) /\ Layout(B[9], 47906, 47906)
  BY <1>1, OneWord
<1> HIDE DEF B
<1>6. Stack(B, 9, <<45127, 45356, 45482, 47000, 47509, 47510, 47511, 47512, 47906>>,
                  <<45127, 45356, 45482, 47000, 47509, 47510, 47511, 47512, 47906>>,
            45127, 47906)
  BY <1>5 DEF Stack
<1> QED  BY <1>4, <1>6, Blocks

\* Whatever the snapshot holds, every register of the map has one word, which fits into 16
\* bits where it is not half of a float: no block writes into another.
THEOREM OneWordPerRegister ==
  ASSUME NEW s \in [Fields -> Int], NEW short, NEW c, c.rated_power \in Int,
         c.comm_addr \in Int, c.serial_number \in Seq(Nat), c.model_name \in Seq(Nat),
         c.external_model_name \in Seq(Nat)
  PROVE  LaidOut(BuildRegisterMap(s, c, short))
<1> DEFINE B == <<DeviceInfo(c), RuntimeData(s, short), MeterData(s, short),
                  BatteryData(s, short), Settings(s, c, short)>>
<1>1. /\ Layout(B[1], 35000, 35075) /\ Layout(B[2], 35103, 35364) /\ Layout(B[3], 36000, 36123)
      /\ Layout(B[4], 37003, 37008) /\ Layout(B[5], 45127, 47906)
  <2>1. Layout(DeviceInfo(c), 35000, 35075)
    BY DeviceInfoBlock
  <2>2. Layout(RuntimeData(s, short), 35103, 35364)
    BY RuntimeDataBlock
  <2>3. Layout(MeterData(s, short), 36000, 36123)
    BY MeterDataBlock
  <2>4. Layout(BatteryData(s, short), 37003, 37008)
    BY BatteryDataBlock
  <2>5. Layout(Settings(s, c, short), 45127, 47906)
    BY SettingsBlock
  <2> QED  BY <2>1, <2>2, <2>3, <2>4, <2>5
<1>2. BuildRegisterMap(s, c, short) = Whole(B, 5)
  BY DEF BuildRegisterMap, Whole
<1> HIDE DEF B
<1>3. Stack(B, 5, <<35000, 35103, 36000, 37003, 45127>>, <<35075, 35364, 36123, 37008, 47906>>,
            35000, 47906)
  BY <1>1 DEF Stack
<1>4. Layout(Whole(B, 5), 35000, 47906)
  BY <1>3, Blocks
<1> QED  BY <1>2, <1>4 DEF LaidOut

------------------------------------------------------------------------------
(* Bounds *)

\* _transform_victron_battery_data shows no pack voltage outside the configured bounds
\* under a configuration that _validate accepts.
THEOREM PackVoltageBounded ==
  ASSUME NEW c, NEW data,
         c.battery_voltage_min_v \in Int, c.battery_voltage_max_v \in Int, Bounds(c),
         c.battery_scale[1] \in Int, c.battery_scale[2] \in Nat, c.battery_scale[2] > 0,
         data[<<"battery_voltage", 0>>] \in Int
  PROVE  /\ c.battery_voltage_min_v <= ScaledVoltage(c, data)
         /\ ScaledVoltage(c, data) <= c.battery_voltage_max_v
<1> DEFINE product == data[<<"battery_voltage", 0>>] * c.battery_scale[1]
           pack == Trunc(product, c.battery_scale[2])
           low == c.battery_voltage_min_v
           high == c.battery_voltage_max_v
<1>1. pack \in Int
  <2>1. product \in Int
    OBVIOUS
  <2> HIDE DEF product
  <2> QED  BY <2>1, TruncWithinUnit
<1>2. low <= high
  BY DEF Bounds
<1> HIDE DEF pack
<1>3. ScaledVoltage(c, data) = Within(low, high, pack)
  BY DEF ScaledVoltage, pack
<1>4. low \in Int /\ high \in Int
  OBVIOUS
<1> HIDE DEF low, high, product
<1>5. low <= Within(low, high, pack) /\ Within(low, high, pack) <= high
  BY <1>1, <1>2, <1>4, WithinBounds
<1>6. low <= ScaledVoltage(c, data) /\ ScaledVoltage(c, data) <= high
  BY <1>3, <1>5
<1> QED  BY <1>6 DEF low, high

------------------------------------------------------------------------------
(* What a refresh delivers *)

\* Whatever a bridge answers, it is as many words as were asked for.
Numbers(B) == \A w \in B : w[2] \in Int

LEMMA BridgeRegisters ==
  ASSUME NEW r \in [MeterFields \ AddedUp -> Int]
  PROVE  \A a \in First .. First + Count : Em540Registers(r)[a] \in Int
<1> DEFINE Phase(p) ==
             UNION {PutLow32(VoltageOf(p), r[<<"meter_voltage", p>>] \div 100),
                    PutLow32(VoltageOf(p) + 2, r[<<"meter_current", p>>]),
                    PutLow32(VoltageOf(p) + 4, r[<<"meter_power", p>>]),
                    PutLow32(VoltageOf(p) + 6, r[<<"meter_apparent_power", p>>]),
                    PutLow32(VoltageOf(p) + 8, r[<<"meter_reactive_power", p>>]),
                    PutI16(VoltageOf(p) + 11, r[<<"meter_power_factor", p>>]),
                    PutLow32(330 + 2 * p, r[<<"meter_energy_import", p>>] \div 10)}
           held == UNION {UNION {Phase(p) : p \in Phases},
                          PutLow32(262, r[<<"meter_power", 0>>]),
                          PutI16(269, r[<<"meter_power_factor", 0>>]),
                          PutI16(272, r[<<"meter_frequency", 0>>] \div 100),
                          PutLow32(274, r[<<"meter_energy_import", 0>>] \div 10),
                          PutLow32(278, r[<<"meter_energy_export", 0>>] \div 10)}
<1>1. \A a, v \in Int : Numbers(PutLow32(a, v)) /\ Numbers(PutI16(a, v))
  BY WordInt DEF Numbers, PutLow32, PutI16
<1>2. \A p \in Phases : Numbers(Phase(p))
  <2> SUFFICES ASSUME NEW p \in Phases PROVE Numbers(Phase(p))
    OBVIOUS
  <2>1. VoltageOf(p) \in Int /\ p \in Int
    BY DEF VoltageOf, Phases
  <2>2. /\ r[<<"meter_voltage", p>>] \in Int /\ r[<<"meter_current", p>>] \in Int
        /\ r[<<"meter_power", p>>] \in Int /\ r[<<"meter_apparent_power", p>>] \in Int
        /\ r[<<"meter_reactive_power", p>>] \in Int /\ r[<<"meter_power_factor", p>>] \in Int
        /\ r[<<"meter_energy_import", p>>] \in Int
    BY DEF MeterFields, AddedUp, Phases
  <2>3. /\ r[<<"meter_voltage", p>>] \div 100 \in Int
        /\ r[<<"meter_energy_import", p>>] \div 10 \in Int
    BY <2>2
  <2>4. /\ Numbers(PutLow32(VoltageOf(p), r[<<"meter_voltage", p>>] \div 100))
        /\ Numbers(PutLow32(VoltageOf(p) + 2, r[<<"meter_current", p>>]))
        /\ Numbers(PutLow32(VoltageOf(p) + 4, r[<<"meter_power", p>>]))
        /\ Numbers(PutLow32(VoltageOf(p) + 6, r[<<"meter_apparent_power", p>>]))
        /\ Numbers(PutLow32(VoltageOf(p) + 8, r[<<"meter_reactive_power", p>>]))
        /\ Numbers(PutI16(VoltageOf(p) + 11, r[<<"meter_power_factor", p>>]))
        /\ Numbers(PutLow32(330 + 2 * p, r[<<"meter_energy_import", p>>] \div 10))
    BY <1>1, <2>1, <2>2, <2>3
  <2> QED  BY <2>4 DEF Numbers
<1>3. Numbers(held)
  <2>1. /\ r[<<"meter_power", 0>>] \in Int /\ r[<<"meter_power_factor", 0>>] \in Int
        /\ r[<<"meter_frequency", 0>>] \in Int /\ r[<<"meter_energy_import", 0>>] \in Int
        /\ r[<<"meter_energy_export", 0>>] \in Int
    BY DEF MeterFields, AddedUp
  <2>2. /\ r[<<"meter_frequency", 0>>] \div 100 \in Int
        /\ r[<<"meter_energy_import", 0>>] \div 10 \in Int
        /\ r[<<"meter_energy_export", 0>>] \div 10 \in Int
    BY <2>1
  <2>3. /\ Numbers(PutLow32(262, r[<<"meter_power", 0>>]))
        /\ Numbers(PutI16(269, r[<<"meter_power_factor", 0>>]))
        /\ Numbers(PutI16(272, r[<<"meter_frequency", 0>>] \div 100))
        /\ Numbers(PutLow32(274, r[<<"meter_energy_import", 0>>] \div 10))
        /\ Numbers(PutLow32(278, r[<<"meter_energy_export", 0>>] \div 10))
    BY <1>1, <2>1, <2>2
  <2> HIDE DEF Phase
  <2> QED  BY <1>2, <2>3 DEF Numbers
<1>4. Em540Registers(r) = [a \in First .. First + Count |->
                             LET at == {w \in held : w[1] = a}
                             IN  IF at = {} THEN 0 ELSE (CHOOSE w \in at : TRUE)[2]]
  BY DEF Em540Registers
<1> HIDE DEF held
<1> SUFFICES ASSUME NEW a \in First .. First + Count PROVE Em540Registers(r)[a] \in Int
  OBVIOUS
<1> DEFINE at == {w \in held : w[1] = a}
           one == CHOOSE w \in at : TRUE
<1>5. Em540Registers(r)[a] = IF at = {} THEN 0 ELSE one[2]
  BY <1>4
<1>6. at # {} => one \in at
  OBVIOUS
<1> HIDE DEF one
<1> QED  BY <1>3, <1>5, <1>6 DEF Numbers

LEMMA BridgeReplies ==
  ASSUME NEW base, NEW regs, \A a \in First .. First + Count : regs[a] \in Int,
         NEW words \in Em540Replies(base, regs)
  PROVE  words \in [0 .. Count - 1 -> Int]
<1> USE DEF First, Count
<1>1. ASSUME NEW address \in {First, First + 1}, NEW reply \in Answers(base, regs, address),
             reply # Error
      PROVE  reply \in [0 .. Count - 1 -> Int]
  <2> DEFINE from == address - (IF base = "one" THEN 1 ELSE 0)
  <2>1. from \in Int /\ from <= First + 1
    OBVIOUS
  <2>2. reply \in (IF from < First THEN {Error}
                   ELSE {[k \in 0 .. Count - 1 |-> regs[from + k]]}
                        \cup (IF BusyBridge THEN {Error} ELSE {}))
    BY DEF Answers
  <2> HIDE DEF from
  <2>3. from >= First /\ reply = [k \in 0 .. Count - 1 |-> regs[from + k]]
    BY <1>1, <2>1, <2>2
  <2>4. \A k \in 0 .. Count - 1 : from + k \in First .. First + Count
    BY <2>1, <2>3
  <2>5. \A k \in 0 .. Count - 1 : regs[from + k] \in Int
    BY <2>4
  <2> HIDE DEF First, Count
  <2> QED  BY <2>3, <2>5
<1>2. \E address \in {First, First + 1} : words \in Answers(base, regs, address) \ {Error}
  BY DEF Em540Replies
<1> QED  BY <1>1, <1>2

\* What the three sources deliver with one refresh.
MeterUpdate(words) == WithSyntheticExport(cfg.em540_bridge, Em540Values(words))
InverterUpdate(r, answered, short) ==
  WithSyntheticPv(cfg.fronius, FroniusValues(cfg.fronius, plant.inverter, r, answered, short))
BatteryUpdate(r, answered) == Scaled(cfg.victron, VictronValues(cfg.victron, r, answered))
Update(words, inverter, battery, answered, short) ==
  Enabled(cfg.em540_bridge, MeterUpdate(words))
  ++ Enabled(cfg.fronius, InverterUpdate(inverter, answered, short))
  ++ Enabled(cfg.victron, BatteryUpdate(battery, answered))

\* The configuration and the plant of a behaviour.
Setting == cfg \in Configurations /\ Accepted(cfg) /\ plant \in Plants

LEMMA MeterUpdatePayload ==
  ASSUME Setting, NEW m \in plant.meters,
         NEW words \in Em540Replies(plant.base, Em540Registers(m))
  PROVE  /\ Payload(MeterUpdate(words), MeterFields)
         /\ cfg.em540_bridge.synthetic_grid_export_enabled =>
              ThreeShare(MeterUpdate(words), "meter_power")
         /\ \A name \in Summed : ThreeSum(MeterUpdate(words), name)
<1>1. m \in [MeterFields \ AddedUp -> Int]
  BY PlantsAssumption DEF Setting
<1>2. words \in [0 .. Count - 1 -> Int]
  BY <1>1, BridgeRegisters, BridgeReplies
<1>3. /\ cfg.em540_bridge.synthetic_grid_total_power_w \in Int
      /\ cfg.em540_bridge.synthetic_grid_frequency_hz \in Int
  BY ConfigurationsAssumption DEF Setting
<1>4. /\ Payload(Em540Values(words), MeterFields) /\ WholeTenths(Em540Values(words))
      /\ \A name \in Summed : ThreeSum(Em540Values(words), name)
  BY <1>2, Em540Payload
<1> QED  BY <1>3, <1>4, ExportPayload DEF MeterUpdate

LEMMA InverterReading ==
  ASSUME Setting, NEW r \in plant.inverters
  PROVE  Reading(r)
<1>1. /\ PvFields \subseteq DOMAIN r
      /\ r \in [DOMAIN r -> Int]
  BY PlantsAssumption DEF Setting
<1> QED  BY <1>1 DEF Reading

LEMMA InverterUpdatePayload ==
  ASSUME Setting, NEW r \in plant.inverters, NEW answered, NEW short \in BOOLEAN
  PROVE  LET m == InverterUpdate(r, answered, short)
         IN  /\ Payload(m, InverterFields \cup PvFields)
             /\ \A name \in Powers : PowerOf(plant.inverter, m, name)
             /\ cfg.fronius.synthetic_pv_enabled =>
                  \E a, b \in Nat : HasParts(m, "pv_power", WithTotal(a + b, <<a, b, 0, 0>>))
<1> DEFINE c == cfg.fronius
           inverter == plant.inverter
           data == FroniusValues(c, inverter, r, answered, short)
           m == InverterUpdate(r, answered, short)
<1>1. /\ c.pv_string_count \in Int
      /\ c.synthetic_pv_total_power_w \in Int
      /\ c.synthetic_pv1_voltage_v \in Int
      /\ c.synthetic_pv2_voltage_v \in Int
  BY ConfigurationsAssumption DEF Setting
<1>2. /\ inverter.model \in {"none", "101", "103", "111", "113"}
      /\ inverter.scale \in 0 .. 6
      /\ inverter.modules \in Nat
      /\ inverter.model \in {"111", "113"} => inverter.layout \in Int \X Int \X Int
  BY PlantsAssumption DEF Setting
<1>3. Reading(r)
  BY InverterReading
<1> HIDE DEF c, inverter
<1>4. /\ Payload(data, InverterFields \cup PvFields)
      /\ \A name \in Powers : PowerOf(inverter, data, name)
  BY <1>1, <1>2, <1>3, FroniusPayload
<1>5. m = WithSyntheticPv(c, data)
  BY DEF InverterUpdate, c, inverter
<1> HIDE DEF data, m
<1>6. /\ Payload(m, InverterFields \cup PvFields)
      /\ c.synthetic_pv_enabled =>
           \E a, b \in Nat : HasParts(m, "pv_power", WithTotal(a + b, <<a, b, 0, 0>>))
      /\ \A name : (\A k \in PvFields : k[1] # name) =>
           /\ Lacks(data, name) => Lacks(m, name)
           /\ \A values : HasParts(data, name, values) => HasParts(m, name, values)
  BY <1>1, <1>4, <1>5, SyntheticPvPayload
<1>7. \A name \in Powers : /\ Lacks(data, name) => Lacks(m, name)
                           /\ BothShow(data, name) => BothShow(m, name)
                           /\ ThreeShare(data, name) => ThreeShare(m, name)
  BY <1>6, PvLacksPowers DEF BothShow, ThreeShare
<1>8. \A name \in Powers : PowerOf(inverter, m, name)
  BY <1>4, <1>7 DEF PowerOf
<1> QED  BY <1>6, <1>8 DEF m, c, inverter

LEMMA BatteryUpdatePayload ==
  ASSUME Setting, NEW r \in plant.batteries, NEW answered
  PROVE  Payload(BatteryUpdate(r, answered), BatteryFields)
<1> DEFINE c == cfg.victron
           data == VictronValues(c, r, answered)
<1>1. c.battery_scale \in Int \X (Nat \ {0}) /\ c.battery_voltage_min_v \in Int
      /\ c.battery_voltage_max_v \in Int
  BY ConfigurationsAssumption DEF Setting
<1>2. c.battery_scale[1] > 0
  BY DEF Setting, Accepted
<1>3. c.battery_scale[1] \in Nat \ {0} /\ c.battery_scale[2] \in Nat \ {0}
  BY <1>1, <1>2
<1>4. r \in [BatteryFields -> Int]
  BY PlantsAssumption DEF Setting
<1>5. /\ Payload(data, BatteryFields)
      /\ {<<"battery_voltage", 0>>, <<"battery_current", 0>>} \subseteq DOMAIN data
  BY <1>4, VictronPayload
<1>6. BatteryUpdate(r, answered) = Scaled(c, data)
  BY DEF BatteryUpdate
<1> HIDE DEF c, data
<1> QED  BY <1>1, <1>3, <1>5, <1>6, ScaledPayload

LEMMA UpdatePayload ==
  ASSUME Setting, NEW m \in plant.meters, NEW i \in plant.inverters, NEW b \in plant.batteries,
         NEW words \in Em540Replies(plant.base, Em540Registers(m)), NEW answered,
         NEW short \in BOOLEAN
  PROVE  Payload(Update(words, i, b, answered, short), Fields)
<1>1. Payload(Enabled(cfg.em540_bridge, MeterUpdate(words)), Fields)
  <2>1. Payload(MeterUpdate(words), Fields)
    BY MeterUpdatePayload, WiderPayload DEF Fields
  <2> QED  BY <2>1, EmptyPayload DEF Enabled
<1>2. Payload(Enabled(cfg.fronius, InverterUpdate(i, answered, short)), Fields)
  <2>1. Payload(InverterUpdate(i, answered, short), InverterFields \cup PvFields)
    BY InverterUpdatePayload
  <2>2. InverterFields \cup PvFields \subseteq Fields
    BY DEF Fields
  <2>3. Payload(InverterUpdate(i, answered, short), Fields)
    BY <2>1, <2>2, WiderPayload
  <2> QED  BY <2>3, EmptyPayload DEF Enabled
<1>3. Payload(Enabled(cfg.victron, BatteryUpdate(b, answered)), Fields)
  <2>1. Payload(BatteryUpdate(b, answered), Fields)
    BY BatteryUpdatePayload, WiderPayload DEF Fields
  <2> QED  BY <2>1, EmptyPayload DEF Enabled
<1> QED  BY <1>1, <1>2, <1>3, OverlayPayload DEF Update

LEMMA RefreshDelivers ==
  ASSUME NEW words, NEW i, NEW b, NEW answered, NEW short,
         NEW update \in Delivered(words, i, b, answered, short)
  PROVE  update = Update(words, i, b, answered, short)
BY DEF Delivered, Update, MeterUpdate, InverterUpdate, BatteryUpdate

------------------------------------------------------------------------------
(* The types *)

LEMMA DefaultsType == Defaults \in [Fields -> Int]
<1> DEFINE default(f) ==
             CASE f[1] \in {"meter_power_factor", "inverter_power_factor"} -> 1000
               [] f[1] \in {"meter_frequency", "inverter_frequency"} -> 50000
               [] f[1] = "meter_voltage" -> 230000
               [] f[1] = "battery_soc" -> 50
               [] f[1] = "battery_voltage" -> 52000
               [] f[1] = "battery_temperature" -> 25000
               [] f[1] = "battery_health" -> 100000
               [] OTHER -> 0
<1>1. \A f : default(f) \in Int
  OBVIOUS
<1>2. Defaults = [f \in Fields |-> default(f)]
  BY DEF Defaults
<1> HIDE DEF default
<1> QED  BY <1>1, <1>2

LEMMA MergeType ==
  ASSUME NEW s \in [Fields -> Int], NEW update, Payload(update, Fields)
  PROVE  Merge(s, update) \in [Fields -> Int]
BY DEF Merge, Payload

LEMMA KnownFields ==
  ASSUME NEW m, NEW i, NEW b, NEW answered
  PROVE  DOMAIN Known(m, i, b, answered) \subseteq Fields
<1> DEFINE integers == IF plant.inverter.model \in FloatModels THEN {} ELSE Fields
           meter == Said(m, MeterFields, {})
           inverter == Said(i, InverterMeasures(plant.inverter), integers)
           strings == Said(i, PvMeasures(cfg.fronius, plant.inverter, i, answered), {})
           battery == Said(b, BatteryFields, {})
<1>1. \A reading, fields, zero : DOMAIN Said(reading, fields, zero) \subseteq fields
  BY DEF Said
<1>2. InverterMeasures(plant.inverter) \subseteq Fields
  BY DEF InverterMeasures, Fields
<1>3. PvMeasures(cfg.fronius, plant.inverter, i, answered) \subseteq Fields
  <2>1. PvMeasures(cfg.fronius, plant.inverter, i, answered) \subseteq PvFields
    BY DEF PvMeasures
  <2> QED  BY <2>1 DEF Fields
<1>4. MeterFields \subseteq Fields /\ BatteryFields \subseteq Fields
  BY DEF Fields
<1>5. /\ DOMAIN meter \subseteq Fields /\ DOMAIN inverter \subseteq Fields
      /\ DOMAIN strings \subseteq Fields /\ DOMAIN battery \subseteq Fields
  BY <1>1, <1>2, <1>3, <1>4
<1>6. Known(m, i, b, answered) = Joined({meter, inverter, strings, battery})
  BY DEF Known
<1> HIDE DEF meter, inverter, strings, battery
<1> QED  BY <1>5, <1>6 DEF Joined

LEMMA MapLaidOut ==
  ASSUME Setting, NEW s \in [Fields -> Int], NEW short
  PROVE  LaidOut(BuildRegisterMap(s, cfg.goodwe_emulator, short))
<1> DEFINE c == cfg.goodwe_emulator
<1>1. /\ c.rated_power \in Int /\ c.comm_addr \in Int /\ c.serial_number \in Seq(Nat)
      /\ c.model_name \in Seq(Nat) /\ c.external_model_name \in Seq(Nat)
  BY ConfigurationsAssumption DEF Setting
<1> HIDE DEF c
<1>2. LaidOut(BuildRegisterMap(s, c, short))
  BY <1>1, OneWordPerRegister
<1> QED  BY <1>2 DEF c

\* The inductive invariant of the types.  It says of the registers how they are laid out,
\* which the number of addresses in TypeOK follows from.
PublishedInv ==
  /\ Setting
  /\ snapshot \in [Fields -> Int]
  /\ LaidOut(registers)
  /\ DOMAIN measured \subseteq Fields

LEMMA PublishedInit == Init => PublishedInv
<1> SUFFICES ASSUME Init PROVE PublishedInv
  OBVIOUS
<1>1. Setting
  BY DEF Init, Setting
<1>2. snapshot \in [Fields -> Int]
  BY DefaultsType DEF Init
<1>3. LaidOut(registers)
  BY DEF Init, LaidOut, Layout
<1>4. DOMAIN measured \subseteq Fields
  BY DEF Init
<1> QED  BY <1>1, <1>2, <1>3, <1>4 DEF PublishedInv

LEMMA PublishedStep == PublishedInv /\ [Next]_vars => PublishedInv'
<1> SUFFICES ASSUME PublishedInv, [Next]_vars PROVE PublishedInv'
  OBVIOUS
<1>1. ASSUME NEW m \in plant.meters, NEW i \in plant.inverters, NEW b \in plant.batteries,
             NEW answered, NEW short \in BOOLEAN, Refresh(m, i, b, answered, short)
      PROVE  PublishedInv'
  <2>1. PICK words \in Em540Replies(plant.base, Em540Registers(m)) :
          \E update \in Delivered(words, i, b, answered, short) :
            \E known \in {Known(m, i, b, answered)} :
              /\ snapshot' = Merge(snapshot, update)
              /\ registers' = BuildRegisterMap(snapshot', cfg.goodwe_emulator, short)
              /\ measured' = [f \in (DOMAIN measured \ DOMAIN update)
                                    \cup (DOMAIN known \cap DOMAIN update) |->
                                IF f \in DOMAIN update THEN known[f] ELSE measured[f]]
              /\ UNCHANGED <<cfg, plant>>
    BY <1>1 DEF Refresh
  <2>2. PICK update \in Delivered(words, i, b, answered, short) :
          /\ snapshot' = Merge(snapshot, update)
          /\ registers' = BuildRegisterMap(snapshot', cfg.goodwe_emulator, short)
          /\ DOMAIN measured' \subseteq DOMAIN measured \cup DOMAIN Known(m, i, b, answered)
          /\ UNCHANGED <<cfg, plant>>
    BY <2>1
  <2>3. Setting /\ snapshot \in [Fields -> Int] /\ DOMAIN measured \subseteq Fields
    BY DEF PublishedInv
  <2>4. Payload(update, Fields)
    BY <2>3, RefreshDelivers, UpdatePayload
  <2>5. Merge(snapshot, update) \in [Fields -> Int]
    BY <2>3, <2>4, MergeType
  <2>6. Setting'
    BY <2>2, <2>3 DEF Setting
  <2>7. LaidOut(registers)'
    <3>1. LaidOut(BuildRegisterMap(Merge(snapshot, update), cfg.goodwe_emulator, short))
      BY <2>3, <2>5, MapLaidOut
    <3> QED  BY <2>2, <3>1 DEF LaidOut, Layout
  <2>8. (DOMAIN measured \subseteq Fields)'
    BY <2>2, <2>3, KnownFields
  <2> QED  BY <2>2, <2>5, <2>6, <2>7, <2>8 DEF PublishedInv
<1>2. CASE Next
  BY <1>1, <1>2 DEF Next
<1>3. CASE UNCHANGED vars
  BY <1>3 DEF vars, PublishedInv, Setting, LaidOut, Layout
<1> QED  BY <1>2, <1>3

\* Registers laid out without overlap are as many as their addresses.
LEMMA AsManyAddresses ==
  ASSUME NEW B, LaidOut(B)
  PROVE  Cardinality({r[1] : r \in B}) = Cardinality(B)
<1> DEFINE addresses == {r[1] : r \in B}
           address == [r \in B |-> r[1]]
<1> PICK first \in Int, last \in Int : Layout(B, first, last)
  BY DEF LaidOut
<1>1. IsFiniteSet(first .. last) /\ addresses \subseteq first .. last
  BY FS_Interval DEF Layout
<1>2. IsFiniteSet(addresses)
  BY <1>1, FS_Subset
<1>3. address \in [B -> addresses] /\ \A a \in addresses : \E r \in B : address[r] = a
  OBVIOUS
<1>4. address \in Injection(B, addresses) /\ address \in Surjection(B, addresses)
  BY <1>3 DEF Injection, Surjection, IsInjective, Layout
<1> HIDE DEF addresses, address
<1>5. Cardinality(B) = Cardinality(addresses)
  BY <1>2, <1>4, FS_Injection
<1> QED  BY <1>5 DEF addresses

\* After any number of refreshes every field is a number, every word fits into a register,
\* and no register of the published map has two words: whatever the configuration that
\* config.py accepts, the devices and what they answer.
THEOREM TypesHold == Spec => []TypeOK
<1>1. PublishedInv => TypeOK
  <2> SUFFICES ASSUME PublishedInv PROVE TypeOK
    OBVIOUS
  <2>1. /\ cfg \in Configurations /\ plant \in Plants /\ snapshot \in [Fields -> Int]
        /\ DOMAIN measured \subseteq Fields
    BY DEF PublishedInv, Setting
  <2>2. LaidOut(registers)
    BY DEF PublishedInv
  <2>3. Cardinality({r[1] : r \in registers}) = Cardinality(registers)
    BY <2>2, AsManyAddresses
  <2>4. \A r \in registers : r[1] \in Floating \/ r[2] \in Word
    BY <2>2 DEF LaidOut, Layout
  <2> QED  BY <2>1, <2>3, <2>4 DEF TypeOK
<1> QED  BY <1>1, PublishedInit, PublishedStep, PTL DEF Spec

------------------------------------------------------------------------------
(* The parts of a divided power *)

\* Totals with the only phase of an inverter, and with two strings.
OnePhase(m, name) == \E x \in Int : HasParts(m, name, WithTotal(x, <<x, 0, 0>>))
TwoStrings(m) == \E a, b \in Nat : HasParts(m, "pv_power", WithTotal(a + b, <<a, b, 0, 0>>))

LEMMA TotalAndParts ==
  ASSUME NEW total, NEW n \in {3, 4}, NEW parts, DOMAIN parts = 1 .. n
  PROVE  /\ DOMAIN WithTotal(total, parts) = 0 .. n
         /\ WithTotal(total, parts)[0] = total
         /\ \A p \in 1 .. n : WithTotal(total, parts)[p] = parts[p]
BY DEF WithTotal, At, ++

LEMMA PowerKeys ==
  /\ \A name \in Powers \cup {"meter_power"} \cup Summed :
       \A p : <<name, p>> \in Fields <=> p \in 0 .. 3
  /\ \A p : <<"pv_power", p>> \in Fields <=> p \in 0 .. 4
BY DEF Fields, MeterFields, InverterFields, PvFields, BatteryFields, Powers, Summed

\* A merge takes a quantity with all of its parts from the update that has them, and keeps
\* the one that the update lacks.
LEMMA MergeKeeps ==
  ASSUME NEW s \in [Fields -> Int], NEW update, NEW name, NEW values,
         Lacks(update, name), HasParts(s, name, values)
  PROVE  HasParts(Merge(s, update), name, values)
<1>1. \A p : <<name, p>> \notin DOMAIN update
  BY DEF Lacks
<1> QED  BY <1>1 DEF Merge, HasParts

LEMMA MergeTakes ==
  ASSUME NEW s, NEW update, NEW name, NEW values, HasParts(update, name, values),
         \A p : <<name, p>> \in Fields <=> p \in DOMAIN values
  PROVE  HasParts(Merge(s, update), name, values)
BY DEF Merge, HasParts

LEMMA MergeShares ==
  ASSUME NEW s \in [Fields -> Int], NEW update, NEW name \in Powers \cup {"meter_power"},
         ThreeShare(s, name), Lacks(update, name) \/ ThreeShare(update, name)
  PROVE  ThreeShare(Merge(s, update), name)
<1>1. CASE Lacks(update, name)
  BY <1>1, MergeKeeps DEF ThreeShare
<1>2. CASE ThreeShare(update, name)
  <2>1. PICK total \in Int, parts \in [1 .. 3 -> Int] :
          AddUp(total, parts) /\ HasParts(update, name, WithTotal(total, parts))
    BY <1>2 DEF ThreeShare
  <2>2. DOMAIN WithTotal(total, parts) = 0 .. 3
    BY TotalAndParts
  <2>3. HasParts(Merge(s, update), name, WithTotal(total, parts))
    BY <2>1, <2>2, PowerKeys, MergeTakes
  <2> QED  BY <2>1, <2>3 DEF ThreeShare
<1> QED  BY <1>1, <1>2

LEMMA MergeSums ==
  ASSUME NEW s \in [Fields -> Int], NEW update, NEW name \in Summed,
         ThreeSum(s, name), Lacks(update, name) \/ ThreeSum(update, name)
  PROVE  ThreeSum(Merge(s, update), name)
<1>1. CASE Lacks(update, name)
  BY <1>1, MergeKeeps DEF ThreeSum
<1>2. CASE ThreeSum(update, name)
  <2>1. PICK values \in [0 .. 3 -> Int] :
          /\ values[1] + values[2] + values[3] = values[0]
          /\ HasParts(update, name, values)
    BY <1>2 DEF ThreeSum
  <2>2. HasParts(Merge(s, update), name, values)
    BY <2>1, PowerKeys, MergeTakes
  <2> QED  BY <2>1, <2>2 DEF ThreeSum
<1> QED  BY <1>1, <1>2

\* The phases that a single-phase inverter does not have stay at zero.
LEMMA MergeOnePhase ==
  ASSUME NEW s \in [Fields -> Int], NEW update, NEW name \in Powers,
         OnePhase(s, name), Lacks(update, name) \/ BothShow(update, name)
  PROVE  OnePhase(Merge(s, update), name)
<1>1. CASE Lacks(update, name)
  BY <1>1, MergeKeeps DEF OnePhase
<1>2. CASE BothShow(update, name)
  <2>1. PICK x \in Int : HasParts(update, name, Both(x))
    BY <1>2 DEF BothShow
  <2>2. PICK y \in Int : HasParts(s, name, WithTotal(y, <<y, 0, 0>>))
    BY DEF OnePhase
  <2>3. /\ \A p : <<name, p>> \in DOMAIN update <=> p \in 0 .. 1
        /\ \A p \in 0 .. 1 : update[<<name, p>>] = x
    BY <2>1 DEF HasParts, Both
  <2>4. s[<<name, 2>>] = 0 /\ s[<<name, 3>>] = 0
    BY <2>2, TotalAndParts DEF HasParts
  <2>5. /\ DOMAIN WithTotal(x, <<x, 0, 0>>) = 0 .. 3
        /\ WithTotal(x, <<x, 0, 0>>)[0] = x /\ WithTotal(x, <<x, 0, 0>>)[1] = x
        /\ WithTotal(x, <<x, 0, 0>>)[2] = 0 /\ WithTotal(x, <<x, 0, 0>>)[3] = 0
    BY TotalAndParts
  <2>6. \A p \in 0 .. 3 : Merge(s, update)[<<name, p>>] = IF p \in 0 .. 1 THEN x ELSE 0
    BY <2>3, <2>4, PowerKeys DEF Merge
  <2>7. \A p : <<name, p>> \in DOMAIN Merge(s, update) <=> p \in 0 .. 3
    BY PowerKeys DEF Merge
  <2>8. HasParts(Merge(s, update), name, WithTotal(x, <<x, 0, 0>>))
    <3> DEFINE values == WithTotal(x, <<x, 0, 0>>)
    <3>1. \A p \in 0 .. 3 : values[p] = IF p \in 0 .. 1 THEN x ELSE 0
      BY <2>5
    <3> HIDE DEF values
    <3>2. DOMAIN values = 0 .. 3
      BY <2>5 DEF values
    <3>3. HasParts(Merge(s, update), name, values)
      BY <2>6, <2>7, <3>1, <3>2 DEF HasParts
    <3> QED  BY <3>3 DEF values
  <2> QED  BY <2>8 DEF OnePhase
<1> QED  BY <1>1, <1>2

LEMMA MergeStrings ==
  ASSUME NEW s \in [Fields -> Int], NEW update, TwoStrings(s),
         Lacks(update, "pv_power") \/ TwoStrings(update)
  PROVE  TwoStrings(Merge(s, update))
<1>1. CASE Lacks(update, "pv_power")
  BY <1>1, MergeKeeps DEF TwoStrings
<1>2. CASE TwoStrings(update)
  <2>1. PICK a \in Nat, b \in Nat :
          HasParts(update, "pv_power", WithTotal(a + b, <<a, b, 0, 0>>))
    BY <1>2 DEF TwoStrings
  <2>2. DOMAIN WithTotal(a + b, <<a, b, 0, 0>>) = 0 .. 4
    BY TotalAndParts
  <2>3. HasParts(Merge(s, update), "pv_power", WithTotal(a + b, <<a, b, 0, 0>>))
    BY <2>1, <2>2, PowerKeys, MergeTakes
  <2> QED  BY <2>1, <2>3 DEF TwoStrings
<1> QED  BY <1>1, <1>2

\* What a refresh delivers of a power comes from one of the sources.
LEMMA OneSource ==
  ASSUME NEW f, NEW g, NEW h, NEW name
  PROVE  /\ Lacks(f, name) /\ Lacks(g, name) /\ Lacks(h, name) => Lacks(f ++ g ++ h, name)
         /\ \A values :
              /\ HasParts(f, name, values) /\ Lacks(g, name) /\ Lacks(h, name)
                   => HasParts(f ++ g ++ h, name, values)
              /\ Lacks(f, name) /\ HasParts(g, name, values) /\ Lacks(h, name)
                   => HasParts(f ++ g ++ h, name, values)
BY OverlayParts

LEMMA OthersLack ==
  /\ \A k \in MeterFields : k[1] \notin Powers \cup {"pv_power"}
  /\ \A k \in InverterFields \cup PvFields : k[1] \notin {"meter_power"} \cup Summed
  /\ \A k \in BatteryFields : k[1] \notin Powers \cup {"pv_power", "meter_power"} \cup Summed
BY DEF MeterFields, InverterFields, PvFields, BatteryFields, Powers, Summed

LEMMA UpdateParts ==
  ASSUME Setting, NEW m \in plant.meters, NEW i \in plant.inverters, NEW b \in plant.batteries,
         NEW words \in Em540Replies(plant.base, Em540Registers(m)), NEW answered,
         NEW short \in BOOLEAN
  PROVE  LET u == Update(words, i, b, answered, short)
         IN  /\ cfg.em540_bridge.synthetic_grid_export_enabled =>
                  Lacks(u, "meter_power") \/ ThreeShare(u, "meter_power")
             /\ \A name \in Summed : Lacks(u, name) \/ ThreeSum(u, name)
             /\ \A name \in Powers : PowerOf(plant.inverter, u, name)
             /\ cfg.fronius.synthetic_pv_enabled => Lacks(u, "pv_power") \/ TwoStrings(u)
<1> DEFINE meter == Enabled(cfg.em540_bridge, MeterUpdate(words))
           inverter == Enabled(cfg.fronius, InverterUpdate(i, answered, short))
           battery == Enabled(cfg.victron, BatteryUpdate(b, answered))
           u == Update(words, i, b, answered, short)
<1>1. /\ Payload(meter, MeterFields)
      /\ cfg.em540_bridge.synthetic_grid_export_enabled =>
           meter = <<>> \/ ThreeShare(meter, "meter_power")
      /\ meter = <<>> \/ \A name \in Summed : ThreeSum(meter, name)
  BY MeterUpdatePayload, EmptyPayload DEF Enabled
<1>2. /\ Payload(inverter, InverterFields \cup PvFields)
      /\ inverter = <<>> \/ \A name \in Powers : PowerOf(plant.inverter, inverter, name)
      /\ cfg.fronius.synthetic_pv_enabled => inverter = <<>> \/ TwoStrings(inverter)
  <2>1. CASE cfg.fronius.enabled
    BY <2>1, InverterUpdatePayload DEF Enabled, TwoStrings
  <2>2. CASE ~cfg.fronius.enabled
    BY <2>2, EmptyPayload DEF Enabled
  <2> QED  BY <2>1, <2>2
<1>3. Payload(battery, BatteryFields)
  BY BatteryUpdatePayload, EmptyPayload DEF Enabled
<1>4. u = meter ++ inverter ++ battery
  BY DEF Update
<1> HIDE DEF meter, inverter, battery, u
<1>5. \A name : Lacks(<<>>, name)
  BY DEF Lacks
<1>6. cfg.em540_bridge.synthetic_grid_export_enabled =>
        Lacks(u, "meter_power") \/ ThreeShare(u, "meter_power")
  <2>1. Lacks(inverter, "meter_power") /\ Lacks(battery, "meter_power")
    BY <1>2, <1>3, OthersLack, PayloadLacks
  <2> QED  BY <1>1, <1>4, <1>5, <2>1, OneSource DEF ThreeShare
<1>7. ASSUME NEW name \in Powers PROVE PowerOf(plant.inverter, u, name)
  <2>1. Lacks(meter, name) /\ Lacks(battery, name)
    BY <1>1, <1>3, OthersLack, PayloadLacks
  <2>2. /\ Lacks(inverter, name) => Lacks(u, name)
        /\ BothShow(inverter, name) => BothShow(u, name)
        /\ ThreeShare(inverter, name) => ThreeShare(u, name)
    BY <1>4, <2>1, OneSource DEF BothShow, ThreeShare
  <2>3. inverter = <<>> \/ PowerOf(plant.inverter, inverter, name)
    BY <1>2
  <2> QED  BY <1>5, <2>2, <2>3 DEF PowerOf
<1>8. cfg.fronius.synthetic_pv_enabled => Lacks(u, "pv_power") \/ TwoStrings(u)
  <2>1. Lacks(meter, "pv_power") /\ Lacks(battery, "pv_power")
    BY <1>1, <1>3, OthersLack, PayloadLacks
  <2>2. /\ Lacks(inverter, "pv_power") => Lacks(u, "pv_power")
        /\ \A values : HasParts(inverter, "pv_power", values) => HasParts(u, "pv_power", values)
    BY <1>4, <2>1, OneSource
  <2>3. TwoStrings(inverter) => TwoStrings(u)
    BY <2>2 DEF TwoStrings
  <2>4. Lacks(<<>>, "pv_power")
    BY <1>5
  <2> QED  BY <1>2, <2>2, <2>3, <2>4
<1>9. ASSUME NEW name \in Summed PROVE Lacks(u, name) \/ ThreeSum(u, name)
  <2>1. Lacks(inverter, name) /\ Lacks(battery, name)
    BY <1>2, <1>3, OthersLack, PayloadLacks
  <2>2. ThreeSum(meter, name) => ThreeSum(u, name)
    BY <1>4, <2>1, OneSource DEF ThreeSum
  <2> QED  BY <1>1, <1>4, <1>5, <2>1, <2>2, OneSource
<1> QED  BY <1>6, <1>7, <1>8, <1>9 DEF u

\* The inductive invariant of the parts.  It remembers more than PartsAddUp asks: that the
\* phases and strings which no source delivers are still at zero.
PartsInv ==
  /\ cfg.em540_bridge.synthetic_grid_export_enabled => ThreeShare(snapshot, "meter_power")
  /\ \A name \in Summed : ThreeSum(snapshot, name)
  /\ plant.inverter.model \in {"none", "113"} => \A name \in Powers : ThreeShare(snapshot, name)
  /\ plant.inverter.model \in {"101", "111"} => \A name \in Powers : OnePhase(snapshot, name)
  /\ cfg.fronius.synthetic_pv_enabled => TwoStrings(snapshot)

LEMMA DefaultParts ==
  /\ \A name \in Powers \cup {"meter_power"} :
       ThreeShare(Defaults, name) /\ OnePhase(Defaults, name)
  /\ \A name \in Summed : ThreeSum(Defaults, name)
  /\ TwoStrings(Defaults)
<1>1. /\ \A name \in Powers \cup {"meter_power", "pv_power"} \cup Summed :
           \A p : <<name, p>> \in Fields => Defaults[<<name, p>>] = 0
      /\ DOMAIN Defaults = Fields
  BY DEF Defaults, Powers, Summed
<1>2. ASSUME NEW name \in Powers \cup {"meter_power"}
      PROVE  HasParts(Defaults, name, WithTotal(0, <<0, 0, 0>>))
  <2> DEFINE values == WithTotal(0, <<0, 0, 0>>)
  <2>1. DOMAIN values = 0 .. 3 /\ \A p \in 0 .. 3 : values[p] = 0
    BY DEF WithTotal, At, ++
  <2> HIDE DEF values
  <2>2. HasParts(Defaults, name, values)
    BY <1>1, <2>1, PowerKeys DEF HasParts
  <2> QED  BY <2>2 DEF values
<1>3. HasParts(Defaults, "pv_power", WithTotal(0, <<0, 0, 0, 0>>))
  <2> DEFINE values == WithTotal(0, <<0, 0, 0, 0>>)
  <2>1. DOMAIN values = 0 .. 4 /\ \A p \in 0 .. 4 : values[p] = 0
    BY DEF WithTotal, At, ++
  <2> HIDE DEF values
  <2>2. HasParts(Defaults, "pv_power", values)
    BY <1>1, <2>1, PowerKeys DEF HasParts
  <2> QED  BY <2>2 DEF values
<1>4. AddUp(0, <<0, 0, 0>>) /\ <<0, 0, 0>> \in [1 .. 3 -> Int]
  BY DEF AddUp
<1>5. \A name \in Powers \cup {"meter_power"} : ThreeShare(Defaults, name)
  BY <1>2, <1>4 DEF ThreeShare
<1>6. \A name \in Powers \cup {"meter_power"} : OnePhase(Defaults, name)
  BY <1>2 DEF OnePhase
<1>7. TwoStrings(Defaults)
  <2>1. 0 + 0 = 0
    OBVIOUS
  <2> QED  BY <1>3, <2>1 DEF TwoStrings
<1>8. \A name \in Summed : ThreeSum(Defaults, name)
  <2> DEFINE values == [p \in 0 .. 3 |-> 0]
  <2> TAKE name \in Summed
  <2>1. HasParts(Defaults, name, values)
    BY <1>1, PowerKeys DEF HasParts
  <2>2. values \in [0 .. 3 -> Int] /\ values[1] + values[2] + values[3] = values[0]
    OBVIOUS
  <2> HIDE DEF values
  <2> QED  BY <2>1, <2>2 DEF ThreeSum
<1> QED  BY <1>5, <1>6, <1>7, <1>8

LEMMA PartsInit == Init => PartsInv
BY DefaultParts DEF Init, PartsInv

LEMMA PartsStep == PublishedInv /\ PartsInv /\ [Next]_vars => PartsInv'
<1> SUFFICES ASSUME PublishedInv, PartsInv, [Next]_vars PROVE PartsInv'
  OBVIOUS
<1>1. ASSUME NEW m \in plant.meters, NEW i \in plant.inverters, NEW b \in plant.batteries,
             NEW answered, NEW short \in BOOLEAN, Refresh(m, i, b, answered, short)
      PROVE  PartsInv'
  <2>1. PICK words \in Em540Replies(plant.base, Em540Registers(m)) :
          \E update \in Delivered(words, i, b, answered, short) :
            snapshot' = Merge(snapshot, update) /\ UNCHANGED <<cfg, plant>>
    BY <1>1 DEF Refresh
  <2>2. PICK u \in Delivered(words, i, b, answered, short) :
          snapshot' = Merge(snapshot, u) /\ UNCHANGED <<cfg, plant>>
    BY <2>1
  <2>3. Setting /\ snapshot \in [Fields -> Int]
    BY DEF PublishedInv
  <2>4. u = Update(words, i, b, answered, short)
    BY RefreshDelivers
  <2>5. cfg.em540_bridge.synthetic_grid_export_enabled => ThreeShare(snapshot', "meter_power")
    <3>1. cfg.em540_bridge.synthetic_grid_export_enabled =>
            Lacks(u, "meter_power") \/ ThreeShare(u, "meter_power")
      BY <2>3, <2>4, UpdateParts
    <3>2. cfg.em540_bridge.synthetic_grid_export_enabled =>
            ThreeShare(Merge(snapshot, u), "meter_power")
      BY <2>3, <3>1, MergeShares DEF PartsInv
    <3> QED  BY <2>2, <3>2
  <2>6. \A name \in Powers : PowerOf(plant.inverter, u, name)
    BY <2>3, <2>4, UpdateParts
  <2>7. plant.inverter.model \in {"none", "113"} =>
          \A name \in Powers : ThreeShare(snapshot', name)
    <3> SUFFICES ASSUME plant.inverter.model \in {"none", "113"}, NEW name \in Powers
                 PROVE  ThreeShare(Merge(snapshot, u), name)
      BY <2>2
    <3>1. ThreeShare(snapshot, name)
      BY DEF PartsInv
    <3>2. Lacks(u, name) \/ ThreeShare(u, name)
      BY <2>6 DEF PowerOf
    <3> QED  BY <2>3, <3>1, <3>2, MergeShares
  <2>8. plant.inverter.model \in {"101", "111"} =>
          \A name \in Powers : OnePhase(snapshot', name)
    <3> SUFFICES ASSUME plant.inverter.model \in {"101", "111"}, NEW name \in Powers
                 PROVE  OnePhase(Merge(snapshot, u), name)
      BY <2>2
    <3>1. OnePhase(snapshot, name)
      BY DEF PartsInv
    <3>2. Lacks(u, name) \/ BothShow(u, name)
      BY <2>6 DEF PowerOf
    <3> QED  BY <2>3, <3>1, <3>2, MergeOnePhase
  <2>9. cfg.fronius.synthetic_pv_enabled => TwoStrings(snapshot')
    <3>1. cfg.fronius.synthetic_pv_enabled => Lacks(u, "pv_power") \/ TwoStrings(u)
      BY <2>3, <2>4, UpdateParts
    <3>2. cfg.fronius.synthetic_pv_enabled => TwoStrings(Merge(snapshot, u))
      BY <2>3, <3>1, MergeStrings DEF PartsInv
    <3> QED  BY <2>2, <3>2
  <2>10. \A name \in Summed : ThreeSum(snapshot', name)
    <3> TAKE name \in Summed
    <3>1. ThreeSum(snapshot, name)
      BY DEF PartsInv
    <3>2. Lacks(u, name) \/ ThreeSum(u, name)
      BY <2>3, <2>4, UpdateParts
    <3>3. ThreeSum(Merge(snapshot, u), name)
      BY <2>3, <3>1, <3>2, MergeSums
    <3> QED  BY <2>2, <3>3
  <2> QED  BY <2>2, <2>5, <2>7, <2>8, <2>9, <2>10 DEF PartsInv
<1>2. CASE Next
  BY <1>1, <1>2 DEF Next
<1>3. CASE UNCHANGED vars
  BY <1>3 DEF vars, PartsInv
<1> QED  BY <1>2, <1>3

\* What PartsAddUp says of one quantity.
PartOf(name, p) == IF <<name, p>> \in Fields THEN snapshot[<<name, p>>] ELSE 0
SumsUp(name) ==
  PartOf(name, 1) + PartOf(name, 2) + PartOf(name, 3) + PartOf(name, 4) = PartOf(name, 0)
AddsUp(name) ==
  /\ SumsUp(name)
  /\ \A p \in 1 .. 4 :
       /\ ~(PartOf(name, p) > 0 /\ PartOf(name, 0) < 0)
       /\ ~(PartOf(name, p) < 0 /\ PartOf(name, 0) > 0)

LEMMA ThreeAddUp ==
  ASSUME NEW name \in Powers \cup {"meter_power"}, ThreeShare(snapshot, name)
  PROVE  AddsUp(name)
<1>1. PICK total \in Int, parts \in [1 .. 3 -> Int] :
        AddUp(total, parts) /\ HasParts(snapshot, name, WithTotal(total, parts))
  BY DEF ThreeShare
<1>2. /\ DOMAIN WithTotal(total, parts) = 0 .. 3 /\ WithTotal(total, parts)[0] = total
      /\ \A p \in 1 .. 3 : WithTotal(total, parts)[p] = parts[p]
  BY TotalAndParts
<1>3. snapshot[<<name, 0>>] = total /\ \A p \in 1 .. 3 : snapshot[<<name, p>>] = parts[p]
  BY <1>1, <1>2 DEF HasParts
<1>4. /\ PartOf(name, 0) = total /\ PartOf(name, 4) = 0
      /\ \A p \in 1 .. 3 : PartOf(name, p) = parts[p]
  BY <1>3, PowerKeys DEF PartOf
<1> QED  BY <1>1, <1>4 DEF AddsUp, SumsUp, AddUp

LEMMA ThreeSumUp ==
  ASSUME NEW name \in Summed, ThreeSum(snapshot, name)
  PROVE  SumsUp(name)
<1>1. PICK values \in [0 .. 3 -> Int] :
        /\ values[1] + values[2] + values[3] = values[0]
        /\ HasParts(snapshot, name, values)
  BY DEF ThreeSum
<1>2. \A p \in 0 .. 3 : snapshot[<<name, p>>] = values[p]
  BY <1>1 DEF HasParts
<1>3. (\A p \in 0 .. 3 : PartOf(name, p) = values[p]) /\ PartOf(name, 4) = 0
  BY <1>2, PowerKeys DEF PartOf
<1> QED  BY <1>1, <1>3 DEF SumsUp

LEMMA OnePhaseAddsUp ==
  ASSUME NEW name \in Powers, OnePhase(snapshot, name)
  PROVE  AddsUp(name)
<1>1. PICK x \in Int : HasParts(snapshot, name, WithTotal(x, <<x, 0, 0>>))
  BY DEF OnePhase
<1>2. <<x, 0, 0>> \in [1 .. 3 -> Int] /\ AddUp(x, <<x, 0, 0>>)
  BY DEF AddUp
<1>3. ThreeShare(snapshot, name)
  BY <1>1, <1>2 DEF ThreeShare
<1> QED  BY <1>3, ThreeAddUp

LEMMA StringsAddUp == ASSUME TwoStrings(snapshot) PROVE AddsUp("pv_power")
<1>1. PICK a \in Nat, b \in Nat :
        HasParts(snapshot, "pv_power", WithTotal(a + b, <<a, b, 0, 0>>))
  BY DEF TwoStrings
<1> DEFINE parts == <<a, b, 0, 0>>
<1>2. parts[1] = a /\ parts[2] = b /\ parts[3] = 0 /\ parts[4] = 0 /\ DOMAIN parts = 1 .. 4
  OBVIOUS
<1> HIDE DEF parts
<1>3. /\ DOMAIN WithTotal(a + b, parts) = 0 .. 4 /\ WithTotal(a + b, parts)[0] = a + b
      /\ \A p \in 1 .. 4 : WithTotal(a + b, parts)[p] = parts[p]
  BY <1>2, TotalAndParts
<1>4. /\ snapshot[<<"pv_power", 0>>] = a + b
      /\ \A p \in 1 .. 4 : snapshot[<<"pv_power", p>>] = parts[p]
  BY <1>1, <1>3 DEF HasParts, parts
<1>5. \A p \in 1 .. 4 : PartOf("pv_power", p) = parts[p]
  <2>1. \A p \in 1 .. 4 : p \in 0 .. 4
    OBVIOUS
  <2>2. \A p \in 1 .. 4 : <<"pv_power", p>> \in Fields
    BY <2>1, PowerKeys, Zenon
  <2> QED  BY <1>4, <2>2, Zenon DEF PartOf
<1>6. PartOf("pv_power", 0) = a + b
  <2>1. <<"pv_power", 0>> \in Fields
    BY PowerKeys
  <2> QED  BY <1>4, <2>1 DEF PartOf
<1> QED  BY <1>2, <1>5, <1>6 DEF AddsUp, SumsUp

\* The parts of a power that the program divides add up to the total after any number of
\* refreshes, and none of them feeds in while the total draws: _split_total_by_weights, the
\* single-phase models, _apply_em540_synthetic_grid_export and _apply_fronius_synthetic_pv,
\* whichever requests fail and whichever fields the payloads then lack.  The meter's
\* reactive and apparent totals stay the sums of their phases.
THEOREM DividedPowersAddUp == Spec => []PartsAddUp
<1>1. PublishedInv /\ PartsInv => PartsAddUp
  <2> SUFFICES ASSUME PublishedInv, PartsInv
               PROVE  (\A name \in Divided : AddsUp(name)) /\ \A name \in Summed : SumsUp(name)
    BY Zenon DEF PartsAddUp, AddsUp, SumsUp, PartOf, Summed
  <2>0. \A name \in Summed : SumsUp(name)
    BY ThreeSumUp DEF PartsInv
  <2> SUFFICES ASSUME NEW name \in Divided PROVE AddsUp(name)
    BY <2>0
  <2>1. plant.inverter.model \in {"none", "101", "103", "111", "113"}
    BY PlantsAssumption DEF PublishedInv, Setting
  <2>2. CASE plant.inverter.model # "103" /\ name \in Powers
    BY <2>1, <2>2, ThreeAddUp, OnePhaseAddsUp DEF PartsInv
  <2>3. CASE cfg.em540_bridge.synthetic_grid_export_enabled /\ name = "meter_power"
    BY <2>3, ThreeAddUp DEF PartsInv
  <2>4. CASE cfg.fronius.synthetic_pv_enabled /\ name = "pv_power"
    BY <2>4, StringsAddUp DEF PartsInv
  <2> QED  BY <2>2, <2>3, <2>4 DEF Divided
<1> QED  BY <1>1, PublishedInit, PublishedStep, PartsInit, PartsStep, PTL DEF Spec

------------------------------------------------------------------------------
(* What a master reads of the snapshot *)

\* A number of a kind as register_map.py writes it.
Encoded(kind, a, k) ==
  CASE kind = "u16" -> PutU16(a, k)
    [] kind = "i16" -> PutI16(a, k)
    [] kind = "u32" -> PutU32(a, k)
    [] kind = "i32" -> PutI32(a, k)
    [] kind = "u64" -> PutU64(a, k)
Kinds == {"u16", "i16", "u32", "i32", "u64"}
Units == {1, 10, 100, 1000}

LEMMA HeldWord ==
  ASSUME LaidOut(registers), NEW a, NEW w, <<a, w>> \in registers
  PROVE  Held(a) = w
<1>1. \A r, q \in registers : r[1] = q[1] => r = q
  BY DEF LaidOut, Layout
<1>2. \A r \in registers : r[1] = a => r = <<a, w>>
  BY <1>1
<1>3. \E r \in registers : r[1] = a
  OBVIOUS
<1> DEFINE found == CHOOSE r \in registers : r[1] = a
<1>4. found \in registers /\ found[1] = a
  BY <1>3
<1>5. found = <<a, w>>
  BY <1>2, <1>4
<1>6. Held(a) = found[2]
  BY DEF Held
<1> HIDE DEF found
<1> QED  BY <1>5, <1>6

\* The decoders undo the encoders for what the registers can hold.
LEMMA ReadBack ==
  ASSUME LaidOut(registers), NEW kind \in Kinds, NEW a \in Int, NEW k \in Int,
         Encoded(kind, a, k) \subseteq registers, Holds(kind, k)
  PROVE  Decoded(kind, a) = k
<1>1. CASE kind = "u16"
  <2>1. Held(a) = LowWord(k)
    BY <1>1, HeldWord DEF Encoded, PutU16
  <2>2. LowWord(k) = k
    BY <1>1 DEF Holds, FitsInto, LowWord, WordSize
  <2>3. Decoded(kind, a) = Held(a)
    BY <1>1 DEF Decoded
  <2> QED  BY <2>1, <2>2, <2>3
<1>2. CASE kind = "i16"
  <2>1. Held(a) = LowWord(k)
    BY <1>2, HeldWord DEF Encoded, PutI16
  <2>2. I16(LowWord(k)) = k
    BY <1>2, RoundTrip16 DEF Holds, FitsInto
  <2> QED  BY <1>2, <2>1, <2>2 DEF Decoded
<1>3. CASE kind = "u32"
  <2>1. Held(a) = HighWord(k) /\ Held(a + 1) = LowWord(k)
    BY <1>3, HeldWord DEF Encoded, PutU32
  <2>2. k \in Nat /\ k < WordSize * WordSize
    BY <1>3 DEF Holds, FitsInto, WordSize
  <2> QED  BY <1>3, <2>1, <2>2, RoundTripU32 DEF Decoded
<1>4. CASE kind = "i32"
  <2>1. Held(a) = HighWord(k) /\ Held(a + 1) = LowWord(k)
    BY <1>4, HeldWord DEF Encoded, PutI32, PutU32
  <2>2. -2147483648 <= k /\ k < 2147483648
    BY <1>4 DEF Holds, FitsInto, WordSize
  <2> QED  BY <1>4, <2>1, <2>2, RoundTrip32 DEF Decoded
<1>5. CASE kind = "u64"
  <2>1. PutU32(a + 2, k) \subseteq registers
    BY <1>5 DEF Encoded, PutU64
  <2>2. Held(a + 2) = HighWord(k) /\ Held(a + 2 + 1) = LowWord(k) /\ a + 2 + 1 = a + 3
    BY <2>1, HeldWord DEF PutU32
  <2>3. k \in Nat /\ k < WordSize * WordSize
    BY <1>5 DEF Holds, FitsInto, WordSize
  <2> QED  BY <1>5, <2>2, <2>3, RoundTripU32 DEF Decoded
<1> QED  BY <1>1, <1>2, <1>3, <1>4, <1>5 DEF Kinds

\* A number that the registers can hold is written to within a unit, and stays within what
\* they can hold.  Unsigned numbers are not negative, so cutting off below zero changes
\* nothing.
Close(v, unit, k) ==
  /\ v - unit <= unit * k /\ unit * k <= v + unit
  /\ ~(unit * k > 0 /\ v < 0) /\ ~(unit * k < 0 /\ v > 0)

LEMMA CutHeld ==
  ASSUME NEW kind \in Kinds, NEW v \in Int, NEW unit \in Units,
         NEW short \in BOOLEAN, Holds(kind, v \div unit)
  PROVE  Holds(kind, Cut(v, unit, short)) /\ Close(v, unit, Cut(v, unit, short))
<1> DEFINE k == Cut(v, unit, short)
           q == v \div unit
<1>0. unit \in Nat /\ unit > 0
  BY DEF Units
<1>1. /\ k \in Int
      /\ v >= 0 => 0 <= k /\ k * unit <= v /\ v <= (k + 1) * unit
      /\ v <= 0 => k <= 0 /\ v <= k * unit /\ (k - 1) * unit <= v
  <2> DEFINE Cuts(n, d) ==
               /\ Cut(n, d, short) \in Int
               /\ n >= 0 => /\ 0 <= Cut(n, d, short) /\ Cut(n, d, short) * d <= n
                            /\ n <= (Cut(n, d, short) + 1) * d
               /\ n <= 0 => /\ Cut(n, d, short) <= 0 /\ n <= Cut(n, d, short) * d
                            /\ (Cut(n, d, short) - 1) * d <= n
  <2>1. \A n \in Int, d \in Nat : d > 0 => Cuts(n, d)
    BY CutWithinUnit
  <2> HIDE DEF Cuts
  <2>2. Cuts(v, unit)
    BY <1>0, <2>1
  <2> QED  BY <2>2 DEF Cuts
<1>2. q \in Int /\ q * unit <= v /\ v < (q + 1) * unit
  <2>1. CASE unit = 1
    <3>1. v \div 1 = v
      OBVIOUS
    <3>2. q = v
      BY <2>1, <3>1
    <3> HIDE DEF q
    <3> QED  BY <2>1, <3>2
  <2>2. CASE unit = 10
    BY <2>2
  <2>3. CASE unit = 100
    BY <2>3
  <2>4. CASE unit = 1000
    BY <2>4
  <2> QED  BY <2>1, <2>2, <2>3, <2>4 DEF Units
<1> HIDE DEF k, q
<1>3. Close(v, unit, k)
  BY <1>0, <1>1 DEF Close
<1>4. (v >= 0 => 0 <= k /\ k <= q /\ 0 <= q) /\ (v < 0 => q <= k /\ k <= 0 /\ q < 0)
  BY <1>0, <1>1, <1>2
<1>5. Holds(kind, q) => Holds(kind, k)
  BY <1>1, <1>2, <1>4 DEF Holds, FitsInto, Kinds, WordSize
<1> QED  BY <1>3, <1>5 DEF k, q

\* The registers carry a number, to within a unit, if they can hold it.  Double registers
\* are only used for whole numbers.
Doubles == {"i32", "u32"}
Carries(kind, a, unit, v) ==
  \E k \in Int : /\ Encoded(kind, a, k) \subseteq registers
                 /\ Holds(kind, v \div unit) =>
                      Holds(kind, k) /\ Close(v, unit, k) /\ (kind \in Doubles => k = v)

LEMMA CarriedIsRead ==
  ASSUME LaidOut(registers), NEW kind \in Kinds, NEW a \in Int, NEW unit \in Int, NEW v \in Int,
         Carries(kind, a, unit, v), Holds(kind, v \div unit)
  PROVE  Close(v, unit, Decoded(kind, a)) /\ (kind \in Doubles => Decoded(kind, a) = v)
<1>1. PICK k \in Int : /\ Encoded(kind, a, k) \subseteq registers
                       /\ Holds(kind, k) /\ Close(v, unit, k) /\ (kind \in Doubles => k = v)
  BY DEF Carries
<1>2. Decoded(kind, a) = k
  BY <1>1, ReadBack
<1> QED  BY <1>1, <1>2

\* The registers hold just the number.
Written(kind, a, v) == Encoded(kind, a, v) \subseteq registers

\* The ways in which register_map.py writes a field.
LEMMA WholeCarried ==
  ASSUME NEW kind \in Kinds, NEW a, NEW v \in Int, Encoded(kind, a, v) \subseteq registers
  PROVE  Carries(kind, a, 1, v)
<1>1. v \div 1 = v
  OBVIOUS
<1>2. Close(v, 1, v)
  BY DEF Close
<1> QED  BY <1>1, <1>2 DEF Carries

LEMMA CutCarried ==
  ASSUME NEW kind \in Kinds \ Doubles, NEW a, NEW v \in Int, NEW unit \in Units,
         NEW short \in BOOLEAN, Encoded(kind, a, Cut(v, unit, short)) \subseteq registers
  PROVE  Carries(kind, a, unit, v)
<1>1. Cut(v, unit, short) \in Int
  BY ShownInt DEF Units
<1>2. Holds(kind, v \div unit) =>
        Holds(kind, Cut(v, unit, short)) /\ Close(v, unit, Cut(v, unit, short))
  BY CutHeld, Zenon
<1> QED  BY <1>1, <1>2 DEF Carries

Unsigned == {"u16", "u32", "u64"}

LEMMA HeldUnsigned ==
  ASSUME NEW kind \in Unsigned, NEW v \in Int, NEW unit \in Units,
         Holds(kind, v \div unit)
  PROVE  v >= 0
<1>1. 0 <= v \div unit
  BY DEF Holds, FitsInto, Unsigned
<1> QED  BY <1>1 DEF Units

LEMMA PositiveCarried ==
  ASSUME NEW kind \in Unsigned, NEW a, NEW v \in Int, NEW unit \in Units,
         NEW short \in BOOLEAN, NEW k,
         \/ kind \notin Doubles /\ k = Positive(Cut(v, unit, short))
         \/ kind \notin Doubles /\ k = Cut(Positive(v), unit, short)
         \/ unit = 1 /\ k = Positive(v),
         Encoded(kind, a, k) \subseteq registers
  PROVE  Carries(kind, a, unit, v)
<1>1. k \in Int
  <2>1. \A x \in Int : Positive(x) \in Int /\ Cut(x, unit, short) \in Int
    BY ShownInt DEF Units
  <2> QED  BY <2>1
<1>2. kind \in Kinds
  BY DEF Kinds, Unsigned
<1>3. ASSUME Holds(kind, v \div unit)
      PROVE  Holds(kind, k) /\ Close(v, unit, k) /\ (kind \in Doubles => k = v)
  <2>1. v >= 0
    BY <1>3, HeldUnsigned
  <2>2. Positive(v) = v
    BY <2>1 DEF Positive
  <2>3. CASE unit = 1 /\ k = Positive(v)
    <3>1. v \div 1 = v
      OBVIOUS
    <3>2. Close(v, 1, v)
      BY DEF Close
    <3> QED  BY <1>3, <2>2, <2>3, <3>1, <3>2
  <2>4. CASE kind \notin Doubles /\ k = Cut(Positive(v), unit, short)
    <3>1. Holds(kind, Cut(v, unit, short)) /\ Close(v, unit, Cut(v, unit, short))
      BY <1>2, <1>3, CutHeld, Zenon
    <3> QED  BY <2>2, <2>4, <3>1
  <2>5. CASE kind \notin Doubles /\ k = Positive(Cut(v, unit, short))
    <3>1. Holds(kind, Cut(v, unit, short)) /\ Close(v, unit, Cut(v, unit, short))
      BY <1>2, <1>3, CutHeld, Zenon
    <3>2. Cut(v, unit, short) \in Int
      BY ShownInt DEF Units
    <3>3. 0 <= Cut(v, unit, short)
      BY <3>1, <3>2 DEF Holds, FitsInto, Unsigned, WordSize
    <3>4. k = Cut(v, unit, short)
      BY <2>5, <3>2, <3>3 DEF Positive
    <3> QED  BY <2>5, <3>1, <3>4
  <2> QED  BY <2>3, <2>4, <2>5
<1> QED  BY <1>1, <1>3 DEF Carries

LEMMA Among ==
  ASSUME NEW S, NEW X \in S, NEW R, UNION S \subseteq R
  PROVE  X \subseteq R
OBVIOUS

StringCarries(i) ==
  /\ Carries("u16", 35099 + 4 * i, 100, snapshot[<<"pv_voltage", i>>])
  /\ Carries("u16", 35100 + 4 * i, 100, snapshot[<<"pv_current", i>>])
  /\ Carries("u32", 35101 + 4 * i, 1, snapshot[<<"pv_power", i>>])

LEMMA StringCarried ==
  ASSUME NEW short \in BOOLEAN, snapshot \in [Fields -> Int],
         StringRows(snapshot, short) \subseteq registers, NEW i \in Strings
  PROVE  StringCarries(i)
<1> DEFINE a == 35103 + 4 * (i - 1)
           voltage == snapshot[<<"pv_voltage", i>>]
           current == snapshot[<<"pv_current", i>>]
           power == snapshot[<<"pv_power", i>>]
           T == {PutU16(a, Cut(Positive(voltage), 100, short)),
                 PutU16(a + 1, Cut(Positive(current), 100, short)),
                 PutU32(a + 2, Positive(power))}
<1>1. UNION T \subseteq registers
  <2> HIDE DEF T
  <2>1. PvString(snapshot, i, short) \in {PvString(snapshot, j, short) : j \in Strings}
    OBVIOUS
  <2>2. PvString(snapshot, i, short) \subseteq registers
    BY <2>1, Among DEF StringRows
  <2>3. PvString(snapshot, i, short) = UNION T
    BY DEF PvString, T
  <2> QED  BY <2>2, <2>3
<1>2. voltage \in Int /\ current \in Int /\ power \in Int
  BY KeptFields DEF Strings
<1>3. i \in Int /\ a = 35099 + 4 * i /\ a + 1 = 35100 + 4 * i /\ a + 2 = 35101 + 4 * i
  BY DEF Strings
<1> HIDE DEF a, voltage, current, power
<1>4. /\ PutU16(a, Cut(Positive(voltage), 100, short)) \in T
      /\ PutU16(a + 1, Cut(Positive(current), 100, short)) \in T
      /\ PutU32(a + 2, Positive(power)) \in T
  OBVIOUS
<1> HIDE DEF T
<1>5. /\ Encoded("u16", a, Cut(Positive(voltage), 100, short)) \subseteq registers
      /\ Encoded("u16", a + 1, Cut(Positive(current), 100, short)) \subseteq registers
      /\ Encoded("u32", a + 2, Positive(power)) \subseteq registers
  BY <1>1, <1>4, Among DEF Encoded
<1>6. Carries("u16", a, 100, voltage) /\ Carries("u16", a + 1, 100, current)
  BY <1>2, <1>5, PositiveCarried DEF Unsigned, Units, Doubles
<1>7. Carries("u32", a + 2, 1, power)
  BY <1>2, <1>5, PositiveCarried DEF Unsigned, Units, Doubles
<1> QED  BY <1>3, <1>6, <1>7 DEF StringCarries, voltage, current, power

InverterCarries(p) ==
  /\ Carries("u16", 35116 + 5 * p, 100, snapshot[<<"inverter_voltage", p>>])
  /\ Carries("u16", 35117 + 5 * p, 100, snapshot[<<"inverter_current", p>>])
  /\ Carries("u16", 35118 + 5 * p, 10, snapshot[<<"inverter_frequency", 0>>])
  /\ Carries("i32", 35119 + 5 * p, 1, snapshot[<<"inverter_power", p>>])
  /\ Carries("i32", 35351 + 2 * p, 1, snapshot[<<"inverter_reactive_power", p>>])
  /\ Carries("i32", 35357 + 2 * p, 1, snapshot[<<"inverter_apparent_power", p>>])

LEMMA InverterCarried ==
  ASSUME NEW short \in BOOLEAN, snapshot \in [Fields -> Int],
         InverterRows(snapshot, short) \subseteq registers, NEW p \in Phases
  PROVE  InverterCarries(p)
<1> DEFINE a == 35121 + 5 * (p - 1)
           b == 35353 + 2 * (p - 1)
           voltage == snapshot[<<"inverter_voltage", p>>]
           current == snapshot[<<"inverter_current", p>>]
           frequency == snapshot[<<"inverter_frequency", 0>>]
           power == snapshot[<<"inverter_power", p>>]
           reactive == snapshot[<<"inverter_reactive_power", p>>]
           apparent == snapshot[<<"inverter_apparent_power", p>>]
           T == {PutU16(a, Cut(Positive(voltage), 100, short)),
                 PutU16(a + 1, Cut(Positive(current), 100, short)),
                 PutU16(a + 2, Cut(Positive(frequency), 10, short)),
                 PutI32(a + 3, power), PutI32(b, reactive), PutI32(b + 6, apparent)}
<1>1. UNION T \subseteq registers
  <2> HIDE DEF T
  <2>1. InverterPhase(snapshot, p, short) \in {InverterPhase(snapshot, q, short) : q \in Phases}
    OBVIOUS
  <2>2. InverterPhase(snapshot, p, short) \subseteq registers
    BY <2>1, Among DEF InverterRows
  <2>3. InverterPhase(snapshot, p, short) = UNION T
    BY DEF InverterPhase, T
  <2> QED  BY <2>2, <2>3
<1>2. /\ voltage \in Int /\ current \in Int /\ frequency \in Int
      /\ power \in Int /\ reactive \in Int /\ apparent \in Int
  <2>1. p \in 1 .. 3 /\ p \in 0 .. 3
    BY DEF Phases
  <2>2. /\ <<"inverter_voltage", p>> \in Fields /\ <<"inverter_current", p>> \in Fields
        /\ <<"inverter_frequency", 0>> \in Fields
    BY <2>1, KeptFields
  <2>3. /\ <<"inverter_power", p>> \in Fields /\ <<"inverter_reactive_power", p>> \in Fields
        /\ <<"inverter_apparent_power", p>> \in Fields
    BY <2>1, KeptFields
  <2> QED  BY <2>2, <2>3
<1>3. /\ a = 35116 + 5 * p /\ a + 1 = 35117 + 5 * p /\ a + 2 = 35118 + 5 * p
      /\ a + 3 = 35119 + 5 * p /\ b = 35351 + 2 * p /\ b + 6 = 35357 + 2 * p
  BY DEF Phases
<1> HIDE DEF a, b, voltage, current, frequency, power, reactive, apparent
<1>4. /\ PutU16(a, Cut(Positive(voltage), 100, short)) \in T
      /\ PutU16(a + 1, Cut(Positive(current), 100, short)) \in T
      /\ PutU16(a + 2, Cut(Positive(frequency), 10, short)) \in T
      /\ PutI32(a + 3, power) \in T /\ PutI32(b, reactive) \in T /\ PutI32(b + 6, apparent) \in T
  OBVIOUS
<1> HIDE DEF T
<1>5. /\ Encoded("u16", a, Cut(Positive(voltage), 100, short)) \subseteq registers
      /\ Encoded("u16", a + 1, Cut(Positive(current), 100, short)) \subseteq registers
      /\ Encoded("u16", a + 2, Cut(Positive(frequency), 10, short)) \subseteq registers
  BY <1>1, <1>4, Among DEF Encoded
<1>6. /\ Encoded("i32", a + 3, power) \subseteq registers
      /\ Encoded("i32", b, reactive) \subseteq registers
      /\ Encoded("i32", b + 6, apparent) \subseteq registers
  BY <1>1, <1>4, Among DEF Encoded
<1>7. /\ Carries("u16", a, 100, voltage) /\ Carries("u16", a + 1, 100, current)
      /\ Carries("u16", a + 2, 10, frequency)
  BY <1>2, <1>5, PositiveCarried DEF Unsigned, Units, Doubles
<1>8. /\ Carries("i32", a + 3, 1, power) /\ Carries("i32", b, 1, reactive)
      /\ Carries("i32", b + 6, 1, apparent)
  BY <1>2, <1>6, WholeCarried DEF Kinds
<1> QED  BY <1>3, <1>7, <1>8
         DEF InverterCarries, voltage, current, frequency, power, reactive, apparent

\* The total power, the inverter's totals, its temperatures and the battery's runtime values.
RuntimeCarries ==
  /\ Written("i32", 35137, TotalPower(snapshot))
  /\ Carries("i16", 35140, 1, snapshot[<<"inverter_power", 0>>])
  /\ Carries("i16", 35142, 1, snapshot[<<"inverter_reactive_power", 0>>])
  /\ Carries("u16", 35144, 1, snapshot[<<"inverter_apparent_power", 0>>])
  /\ Carries("i16", 35174, 100, snapshot[<<"temperature_air", 0>>])
  /\ Carries("i16", 35175, 100, snapshot[<<"temperature_module", 0>>])
  /\ Carries("i16", 35176, 100, snapshot[<<"temperature_radiator", 0>>])
  /\ Carries("u16", 35180, 100, snapshot[<<"battery_voltage", 0>>])
  /\ Carries("i16", 35181, 100, snapshot[<<"battery_current", 0>>])
  /\ Carries("i32", 35182, 1, snapshot[<<"battery_power", 0>>])

LEMMA RuntimeCarried ==
  ASSUME NEW short \in BOOLEAN, snapshot \in [Fields -> Int],
         RuntimeData(snapshot, short) \subseteq registers
  PROVE  /\ StringRows(snapshot, short) \subseteq registers
         /\ InverterRows(snapshot, short) \subseteq registers
         /\ RuntimeCarries
<1> DEFINE total == TotalPower(snapshot)
           active == snapshot[<<"inverter_power", 0>>]
           reactive == snapshot[<<"inverter_reactive_power", 0>>]
           apparent == snapshot[<<"inverter_apparent_power", 0>>]
           air == snapshot[<<"temperature_air", 0>>]
           module == snapshot[<<"temperature_module", 0>>]
           radiator == snapshot[<<"temperature_radiator", 0>>]
           voltage == snapshot[<<"battery_voltage", 0>>]
           current == snapshot[<<"battery_current", 0>>]
           power == snapshot[<<"battery_power", 0>>]
           strings == StringRows(snapshot, short)
           phases == InverterRows(snapshot, short)
           T == {strings, phases, PutU16(35136, 1), PutI32(35137, total),
                 PutI16(35140, active), PutI16(35142, reactive),
                 PutU16(35144, Positive(apparent)),
                 PutI16(35174, Cut(air, 100, short)), PutI16(35175, Cut(module, 100, short)),
                 PutI16(35176, Cut(radiator, 100, short)), PutI32(35182, power),
                 PutU16(35180, Cut(voltage, 100, short)), PutI16(35181, Cut(current, 100, short)),
                 PutU16(35184, 3), PutU16(35187, 1), PutU16(35188, 0)}
<1>1. UNION T \subseteq registers
  <2>1. RuntimeData(snapshot, short) = UNION T
    BY DEF RuntimeData, StringRows, InverterRows
  <2> HIDE DEF T
  <2> QED  BY <2>1
<1>2. active \in Int /\ reactive \in Int /\ apparent \in Int /\ power \in Int
  BY KeptFields
<1>3. air \in Int /\ module \in Int /\ radiator \in Int /\ voltage \in Int /\ current \in Int
  BY KeptFields
<1> HIDE DEF total, active, reactive, apparent, air, module, radiator, voltage, current, power,
             strings, phases
<1>4. /\ strings \in T /\ phases \in T /\ PutI32(35137, total) \in T
      /\ PutI16(35140, active) \in T /\ PutI16(35142, reactive) \in T
      /\ PutU16(35144, Positive(apparent)) \in T
      /\ PutI16(35174, Cut(air, 100, short)) \in T /\ PutI16(35175, Cut(module, 100, short)) \in T
      /\ PutI16(35176, Cut(radiator, 100, short)) \in T
      /\ PutU16(35180, Cut(voltage, 100, short)) \in T
      /\ PutI16(35181, Cut(current, 100, short)) \in T
      /\ PutI32(35182, power) \in T
  OBVIOUS
<1> HIDE DEF T
<1>5. strings \subseteq registers /\ phases \subseteq registers
  BY <1>1, <1>4, Among
<1>6. /\ Encoded("i16", 35140, active) \subseteq registers
      /\ Encoded("i16", 35142, reactive) \subseteq registers
      /\ Encoded("u16", 35144, Positive(apparent)) \subseteq registers
      /\ Encoded("i32", 35182, power) \subseteq registers
  BY <1>1, <1>4, Among DEF Encoded
<1>7. /\ Encoded("i16", 35174, Cut(air, 100, short)) \subseteq registers
      /\ Encoded("i16", 35175, Cut(module, 100, short)) \subseteq registers
      /\ Encoded("i16", 35176, Cut(radiator, 100, short)) \subseteq registers
      /\ Encoded("u16", 35180, Cut(voltage, 100, short)) \subseteq registers
      /\ Encoded("i16", 35181, Cut(current, 100, short)) \subseteq registers
  BY <1>1, <1>4, Among DEF Encoded
<1>8. /\ Carries("i16", 35140, 1, active) /\ Carries("i16", 35142, 1, reactive)
      /\ Carries("i32", 35182, 1, power)
  BY <1>2, <1>6, WholeCarried DEF Kinds
<1>9. Carries("u16", 35144, 1, apparent)
  BY <1>2, <1>6, PositiveCarried DEF Unsigned, Units, Doubles
<1>10. /\ Carries("i16", 35174, 100, air) /\ Carries("i16", 35175, 100, module)
       /\ Carries("i16", 35176, 100, radiator) /\ Carries("u16", 35180, 100, voltage)
       /\ Carries("i16", 35181, 100, current)
  BY <1>3, <1>7, CutCarried DEF Kinds, Units, Doubles
<1>11. Written("i32", 35137, total)
  BY <1>1, <1>4, Among DEF Written, Encoded
<1> QED  BY <1>5, <1>8, <1>9, <1>10, <1>11
         DEF RuntimeCarries, total, active, reactive, apparent, air, module, radiator, voltage,
             current, power, strings, phases

MeterPhaseCarries(p) ==
  /\ Written("i16", 36004 + p, snapshot[<<"meter_power", p>>])
  /\ Carries("i16", 36009 + p, 1, snapshot[<<"meter_power_factor", p>>])
  /\ Written("i32", 36017 + 2 * p, snapshot[<<"meter_power", p>>])
  /\ Written("i32", 36025 + 2 * p, snapshot[<<"meter_reactive_power", p>>])
  /\ Written("i32", 36033 + 2 * p, snapshot[<<"meter_apparent_power", p>>])
  /\ Carries("u16", 36051 + p, 100, snapshot[<<"meter_voltage", p>>])
  /\ Carries("u16", 36054 + p, 100, snapshot[<<"meter_current", p>>])
  /\ Carries("u64", 36104 + 4 * p, 1, snapshot[<<"meter_energy_import", p>>])

LEMMA MeterPhaseCarried ==
  ASSUME NEW short \in BOOLEAN, snapshot \in [Fields -> Int],
         MeterRows(snapshot, short) \subseteq registers, NEW p \in Phases
  PROVE  MeterPhaseCarries(p)
<1> DEFINE active == snapshot[<<"meter_power", p>>]
           factor == snapshot[<<"meter_power_factor", p>>]
           reactive == snapshot[<<"meter_reactive_power", p>>]
           apparent == snapshot[<<"meter_apparent_power", p>>]
           voltage == snapshot[<<"meter_voltage", p>>]
           current == snapshot[<<"meter_current", p>>]
           energy == snapshot[<<"meter_energy_import", p>>]
           T == {PutI16(36004 + p, active), PutI16(36009 + p, Cut(factor, 1, short)),
                 PutI32(36017 + 2 * p, active), PutI32(36025 + 2 * p, reactive),
                 PutI32(36033 + 2 * p, apparent),
                 PutU16(36051 + p, Cut(voltage, 100, short)),
                 PutU16(36054 + p, Cut(current, 100, short)),
                 PutU64(36104 + 4 * p, Positive(Cut(energy, 1, short)))}
<1>1. UNION T \subseteq registers
  <2> HIDE DEF T
  <2>1. MeterPhase(snapshot, p, short) \in {MeterPhase(snapshot, q, short) : q \in Phases}
    OBVIOUS
  <2>2. MeterPhase(snapshot, p, short) \subseteq registers
    BY <2>1, Among DEF MeterRows
  <2>3. MeterPhase(snapshot, p, short) = UNION T
    BY DEF MeterPhase, WattHours, T
  <2> QED  BY <2>2, <2>3
<1>2. /\ active \in Int /\ reactive \in Int /\ apparent \in Int /\ factor \in Int
      /\ voltage \in Int /\ current \in Int /\ energy \in Int
  <2>1. p \in 1 .. 3 /\ p \in 0 .. 3
    BY DEF Phases
  <2>2. /\ <<"meter_power", p>> \in Fields /\ <<"meter_reactive_power", p>> \in Fields
        /\ <<"meter_apparent_power", p>> \in Fields /\ <<"meter_power_factor", p>> \in Fields
    BY <2>1, KeptFields
  <2>3. /\ <<"meter_voltage", p>> \in Fields /\ <<"meter_current", p>> \in Fields
        /\ <<"meter_energy_import", p>> \in Fields
    BY <2>1, KeptFields
  <2> QED  BY <2>2, <2>3
<1> HIDE DEF active, factor, reactive, apparent, voltage, current, energy
<1>3. /\ PutI16(36004 + p, active) \in T /\ PutI16(36009 + p, Cut(factor, 1, short)) \in T
      /\ PutI32(36017 + 2 * p, active) \in T /\ PutI32(36025 + 2 * p, reactive) \in T
      /\ PutI32(36033 + 2 * p, apparent) \in T
      /\ PutU16(36051 + p, Cut(voltage, 100, short)) \in T
      /\ PutU16(36054 + p, Cut(current, 100, short)) \in T
      /\ PutU64(36104 + 4 * p, Positive(Cut(energy, 1, short))) \in T
  OBVIOUS
<1> HIDE DEF T
<1>4. /\ Encoded("i16", 36004 + p, active) \subseteq registers
      /\ Encoded("i32", 36017 + 2 * p, active) \subseteq registers
      /\ Encoded("i32", 36025 + 2 * p, reactive) \subseteq registers
      /\ Encoded("i32", 36033 + 2 * p, apparent) \subseteq registers
  BY <1>1, <1>3, Among DEF Encoded
<1>5. /\ Encoded("i16", 36009 + p, Cut(factor, 1, short)) \subseteq registers
      /\ Encoded("u16", 36051 + p, Cut(voltage, 100, short)) \subseteq registers
      /\ Encoded("u16", 36054 + p, Cut(current, 100, short)) \subseteq registers
      /\ Encoded("u64", 36104 + 4 * p, Positive(Cut(energy, 1, short))) \subseteq registers
  BY <1>1, <1>3, Among DEF Encoded
<1>6. /\ Written("i16", 36004 + p, active) /\ Written("i32", 36017 + 2 * p, active)
      /\ Written("i32", 36025 + 2 * p, reactive) /\ Written("i32", 36033 + 2 * p, apparent)
  BY <1>4 DEF Written
<1>7. /\ Carries("i16", 36009 + p, 1, factor) /\ Carries("u16", 36051 + p, 100, voltage)
      /\ Carries("u16", 36054 + p, 100, current)
  BY <1>2, <1>5, CutCarried DEF Kinds, Units, Doubles
<1>8. Carries("u64", 36104 + 4 * p, 1, energy)
  BY <1>2, <1>5, PositiveCarried DEF Unsigned, Units, Doubles
<1> QED  BY <1>6, <1>7, <1>8
         DEF MeterPhaseCarries, active, factor, reactive, apparent, voltage, current, energy

MeterCarries ==
  /\ Written("i16", 36008, snapshot[<<"meter_power", 0>>])
  /\ Written("i16", 36009, snapshot[<<"meter_reactive_power", 0>>])
  /\ Written("i32", 36033, snapshot[<<"meter_reactive_power", 0>>])
  /\ Written("i32", 36041, snapshot[<<"meter_apparent_power", 0>>])
  /\ Carries("i16", 36013, 1, snapshot[<<"meter_power_factor", 0>>])
  /\ Carries("u16", 36014, 10, snapshot[<<"meter_frequency", 0>>])
  /\ Written("i32", 36025, snapshot[<<"meter_power", 0>>])
  /\ Carries("u64", 36104, 1, snapshot[<<"meter_energy_export", 0>>])
  /\ Carries("u64", 36120, 1, snapshot[<<"meter_energy_import", 0>>])

LEMMA MeterCarried ==
  ASSUME NEW short \in BOOLEAN, snapshot \in [Fields -> Int],
         MeterData(snapshot, short) \subseteq registers
  PROVE  /\ MeterRows(snapshot, short) \subseteq registers
         /\ MeterCarries
<1> DEFINE active == snapshot[<<"meter_power", 0>>]
           reactive == snapshot[<<"meter_reactive_power", 0>>]
           apparent == snapshot[<<"meter_apparent_power", 0>>]
           factor == snapshot[<<"meter_power_factor", 0>>]
           frequency == snapshot[<<"meter_frequency", 0>>]
           exported == snapshot[<<"meter_energy_export", 0>>]
           imported == snapshot[<<"meter_energy_import", 0>>]
           phases == MeterRows(snapshot, short)
           T == {MeterStatus, phases, PutI16(36008, active), PutI16(36009, reactive),
                 PutI16(36013, Cut(factor, 1, short)), PutU16(36014, Cut(frequency, 10, short)),
                 PutF32(36015, exported), PutF32(36017, imported), PutI32(36025, active),
                 PutI32(36033, reactive), PutI32(36041, apparent), PutU16(36043, 2),
                 PutU16(36044, 1), PutU64(36092, 0), PutU64(36096, 0), PutU64(36100, 0),
                 PutU64(36104, Positive(Cut(exported, 1, short))),
                 PutU64(36120, Positive(Cut(imported, 1, short)))}
<1>1. UNION T \subseteq registers
  <2>1. MeterData(snapshot, short) = UNION T
    BY DEF MeterData, WattHours, MeterStatus, MeterRows
  <2> HIDE DEF T
  <2> QED  BY <2>1
<1>2. /\ active \in Int /\ factor \in Int /\ frequency \in Int
      /\ exported \in Int /\ imported \in Int
  BY KeptFields
<1> HIDE DEF active, reactive, apparent, factor, frequency, exported, imported, phases
<1>3. /\ phases \in T /\ PutI16(36008, active) \in T
      /\ PutI16(36009, reactive) \in T /\ PutI32(36033, reactive) \in T
      /\ PutI32(36041, apparent) \in T
      /\ PutI16(36013, Cut(factor, 1, short)) \in T
      /\ PutU16(36014, Cut(frequency, 10, short)) \in T /\ PutI32(36025, active) \in T
      /\ PutU64(36104, Positive(Cut(exported, 1, short))) \in T
      /\ PutU64(36120, Positive(Cut(imported, 1, short))) \in T
  OBVIOUS
<1> HIDE DEF T
<1>4. phases \subseteq registers
  BY <1>1, <1>3, Among
<1>5. /\ Encoded("i16", 36008, active) \subseteq registers
      /\ Encoded("i32", 36025, active) \subseteq registers
      /\ Encoded("i16", 36013, Cut(factor, 1, short)) \subseteq registers
      /\ Encoded("u16", 36014, Cut(frequency, 10, short)) \subseteq registers
  BY <1>1, <1>3, Among DEF Encoded
<1>6. /\ Encoded("u64", 36104, Positive(Cut(exported, 1, short))) \subseteq registers
      /\ Encoded("u64", 36120, Positive(Cut(imported, 1, short))) \subseteq registers
  BY <1>1, <1>3, Among DEF Encoded
<1>7. Written("i16", 36008, active) /\ Written("i32", 36025, active)
  BY <1>5 DEF Written
<1>10. /\ Written("i16", 36009, reactive) /\ Written("i32", 36033, reactive)
       /\ Written("i32", 36041, apparent)
  BY <1>1, <1>3, Among DEF Written, Encoded
<1>8. Carries("i16", 36013, 1, factor) /\ Carries("u16", 36014, 10, frequency)
  BY <1>2, <1>5, CutCarried DEF Kinds, Units, Doubles
<1>9. Carries("u64", 36104, 1, exported) /\ Carries("u64", 36120, 1, imported)
  BY <1>2, <1>6, PositiveCarried DEF Unsigned, Units, Doubles
<1> QED  BY <1>4, <1>7, <1>8, <1>9, <1>10
         DEF MeterCarries, active, reactive, apparent, factor, frequency, exported, imported, phases

BatteryCarries ==
  /\ Carries("u16", 37003, 100, snapshot[<<"battery_temperature", 0>>])
  /\ Carries("u16", 37003, 100, Positive(snapshot[<<"battery_temperature", 0>>]))
  /\ Carries("u16", 37007, 1, snapshot[<<"battery_soc", 0>>])
  /\ Carries("u16", 37008, 1000, snapshot[<<"battery_health", 0>>])

LEMMA BatteryCarried ==
  ASSUME NEW short \in BOOLEAN, snapshot \in [Fields -> Int],
         BatteryData(snapshot, short) \subseteq registers
  PROVE  BatteryCarries
<1> DEFINE temperature == snapshot[<<"battery_temperature", 0>>]
           charge == snapshot[<<"battery_soc", 0>>]
           health == snapshot[<<"battery_health", 0>>]
<1>1. temperature \in Int /\ charge \in Int /\ health \in Int
  BY KeptFields
<1>2. BatteryData(snapshot, short) =
        UNION {PutU16(37003, Positive(Cut(temperature, 100, short))), PutU16(37007, charge),
               PutU16(37008, Cut(health, 1000, short))}
  BY DEF BatteryData
<1> HIDE DEF temperature, charge, health
<1>3. /\ Encoded("u16", 37003, Positive(Cut(temperature, 100, short))) \subseteq registers
      /\ Encoded("u16", 37007, charge) \subseteq registers
      /\ Encoded("u16", 37008, Cut(health, 1000, short)) \subseteq registers
  BY <1>2 DEF Encoded
<1>4. Carries("u16", 37003, 100, temperature)
  BY <1>1, <1>3, PositiveCarried DEF Unsigned, Units, Doubles
<1>5. Carries("u16", 37007, 1, charge)
  BY <1>1, <1>3, WholeCarried DEF Kinds
<1>6. Carries("u16", 37008, 1000, health)
  BY <1>1, <1>3, CutCarried DEF Kinds, Units, Doubles
<1>7. Carries("u16", 37003, 100, Positive(temperature))
  <2>1. CASE temperature >= 0
    <3>1. Positive(temperature) = temperature
      BY <1>1, <2>1 DEF Positive
    <3> QED  BY <1>4, <3>1
  <2>2. CASE ~(temperature >= 0)
    <3>1. Positive(temperature) = 0 /\ Positive(Cut(temperature, 100, short)) = 0
      BY <1>1, <2>2, CutWithinUnit DEF Positive
    <3>2. Encoded("u16", 37003, 0) \subseteq registers
      BY <1>3, <3>1
    <3>3. Holds("u16", 0) /\ Close(0, 100, 0)
      BY DEF Holds, FitsInto, Close
    <3>4. Carries("u16", 37003, 100, 0)
      BY <3>2, <3>3 DEF Carries, Doubles
    <3> QED  BY <3>1, <3>4
  <2> QED  BY <2>1, <2>2
<1> QED  BY <1>4, <1>5, <1>6, <1>7 DEF BatteryCarries, temperature, charge, health

SettingsCarries ==
  /\ Carries("i16", 45482, 10, snapshot[<<"inverter_power_factor", 0>>])
  /\ Carries("u16", 47906, 100, snapshot[<<"battery_voltage", 0>>])

LEMMA SettingsCarried ==
  ASSUME NEW short \in BOOLEAN, snapshot \in [Fields -> Int], NEW c,
         Settings(snapshot, c, short) \subseteq registers
  PROVE  SettingsCarries
<1> DEFINE factor == snapshot[<<"inverter_power_factor", 0>>]
           voltage == snapshot[<<"battery_voltage", 0>>]
           T == {PutU16(45127, c.comm_addr), PutU16(45356, 100 - snapshot[<<"battery_soc", 0>>]),
                 PutI16(45482, Cut(factor, 10, short)),
                 PutU16(47906, Positive(Cut(voltage, 100, short))),
                 UNION {PutU16(a, IF a = 47509 THEN 1 ELSE 0) : a \in {47000} \cup 47509 .. 47512}}
<1>1. factor \in Int /\ voltage \in Int
  BY KeptFields
<1>2. UNION T \subseteq registers
  <2>1. Settings(snapshot, c, short) = UNION T
    BY DEF Settings
  <2> HIDE DEF T
  <2> QED  BY <2>1
<1> HIDE DEF factor, voltage
<1>3. /\ PutI16(45482, Cut(factor, 10, short)) \in T
      /\ PutU16(47906, Positive(Cut(voltage, 100, short))) \in T
  OBVIOUS
<1> HIDE DEF T
<1>4. /\ Encoded("i16", 45482, Cut(factor, 10, short)) \subseteq registers
      /\ Encoded("u16", 47906, Positive(Cut(voltage, 100, short))) \subseteq registers
  BY <1>2, <1>3, Among DEF Encoded
<1>5. Carries("i16", 45482, 10, factor)
  BY <1>1, <1>4, CutCarried DEF Kinds, Units, Doubles
<1>6. Carries("u16", 47906, 100, voltage)
  BY <1>1, <1>4, PositiveCarried DEF Unsigned, Units, Doubles
<1> QED  BY <1>5, <1>6 DEF SettingsCarries, factor, voltage

\* Every row of the register table, of the block that it belongs to.
RowCarried(row) ==
  /\ row.kind \in Kinds /\ row.at \in Int /\ row.field \in Fields /\ SnapshotUnit(row) \in Units
  /\ Carries(row.kind, row.at, SnapshotUnit(row), snapshot[row.field])
  /\ row.field[1] \in MeterPowers => Written(row.kind, row.at, snapshot[row.field])

LEMMA Literals ==
  /\ "u16" \in Kinds /\ "i16" \in Kinds /\ "u32" \in Kinds /\ "i32" \in Kinds /\ "u64" \in Kinds
  /\ 1 \in Units /\ 10 \in Units /\ 100 \in Units /\ 1000 \in Units
BY DEF Kinds, Units

LEMMA OtherThanMeterPowers ==
  /\ "pv_voltage" \notin MeterPowers /\ "pv_current" \notin MeterPowers
  /\ "pv_power" \notin MeterPowers /\ "inverter_voltage" \notin MeterPowers
  /\ "inverter_current" \notin MeterPowers /\ "inverter_frequency" \notin MeterPowers
  /\ "inverter_power" \notin MeterPowers /\ "inverter_reactive_power" \notin MeterPowers
  /\ "inverter_apparent_power" \notin MeterPowers
  /\ "meter_power_factor" \notin MeterPowers /\ "meter_voltage" \notin MeterPowers
  /\ "meter_current" \notin MeterPowers /\ "meter_energy_import" \notin MeterPowers
  /\ "temperature_air" \notin MeterPowers /\ "temperature_module" \notin MeterPowers
  /\ "temperature_radiator" \notin MeterPowers /\ "battery_voltage" \notin MeterPowers
  /\ "battery_current" \notin MeterPowers /\ "battery_power" \notin MeterPowers
  /\ "meter_frequency" \notin MeterPowers /\ "meter_energy_export" \notin MeterPowers
  /\ "battery_temperature" \notin MeterPowers /\ "battery_soc" \notin MeterPowers
  /\ "battery_health" \notin MeterPowers /\ "inverter_power_factor" \notin MeterPowers
BY DEF MeterPowers

LEMMA OneRow ==
  ASSUME NEW name, NEW part, NEW kind, NEW at, NEW unit, name \notin MeterPowers,
         <<name, part>> \in Fields, kind \in Kinds, at \in Int, unit \in Units,
         Carries(kind, at, unit, snapshot[<<name, part>>])
  PROVE  RowCarried(Row(name, part, kind, at, unit))
<1> DEFINE row == Row(name, part, kind, at, unit)
<1>1. /\ row.field = <<name, part>> /\ row.kind = kind /\ row.at = at /\ row.unit = unit
      /\ row.field[1] = name
  BY DEF Row
<1> HIDE DEF row
<1>2. SnapshotUnit(row) = unit
  BY <1>1 DEF SnapshotUnit
<1>3. RowCarried(row)
  BY <1>1, <1>2 DEF RowCarried
<1> QED  BY <1>3 DEF row

LEMMA MeterPowerRow ==
  ASSUME NEW name, NEW part, NEW kind, NEW at, NEW unit, name \in MeterPowers,
         <<name, part>> \in Fields, kind \in Kinds, at \in Int, snapshot \in [Fields -> Int],
         Written(kind, at, snapshot[<<name, part>>])
  PROVE  RowCarried(Row(name, part, kind, at, unit))
<1> DEFINE row == Row(name, part, kind, at, unit)
<1>1. /\ row.field = <<name, part>> /\ row.kind = kind /\ row.at = at
      /\ row.field[1] = name
  BY DEF Row
<1> HIDE DEF row
<1>2. SnapshotUnit(row) = 1
  BY <1>1 DEF SnapshotUnit
<1>3. Carries(kind, at, 1, snapshot[<<name, part>>])
  BY WholeCarried DEF Written
<1>4. RowCarried(row)
  BY <1>1, <1>2, <1>3, Literals DEF RowCarried
<1> QED  BY <1>4 DEF row

LEMMA MeterPowerNames ==
  /\ "meter_power" \in MeterPowers /\ "meter_reactive_power" \in MeterPowers
  /\ "meter_apparent_power" \in MeterPowers
BY DEF MeterPowers

LEMMA StringRowsCarried ==
  ASSUME NEW short \in BOOLEAN, snapshot \in [Fields -> Int],
         RuntimeData(snapshot, short) \subseteq registers, NEW i \in Strings
  PROVE  /\ RowCarried(Row("pv_voltage", i, "u16", 35099 + 4 * i, 100))
         /\ RowCarried(Row("pv_current", i, "u16", 35100 + 4 * i, 100))
         /\ RowCarried(Row("pv_power", i, "u32", 35101 + 4 * i, 1))
<1>1. StringCarries(i)
  BY RuntimeCarried, StringCarried, Zenon
<1>2. i \in 1 .. 4
  BY DEF Strings
<1>3. /\ Carries("u16", 35099 + 4 * i, 100, snapshot[<<"pv_voltage", i>>])
      /\ Carries("u16", 35100 + 4 * i, 100, snapshot[<<"pv_current", i>>])
      /\ Carries("u32", 35101 + 4 * i, 1, snapshot[<<"pv_power", i>>])
  BY <1>1 DEF StringCarries
<1>4. /\ <<"pv_voltage", i>> \in Fields /\ <<"pv_current", i>> \in Fields
      /\ <<"pv_power", i>> \in Fields
  BY <1>2, KeptFields, Zenon
<1>5. /\ 35099 + 4 * i \in Int /\ 35100 + 4 * i \in Int /\ 35101 + 4 * i \in Int
  BY <1>2
<1>6. /\ RowCarried(Row("pv_voltage", i, "u16", 35099 + 4 * i, 100))
      /\ RowCarried(Row("pv_current", i, "u16", 35100 + 4 * i, 100))
      /\ RowCarried(Row("pv_power", i, "u32", 35101 + 4 * i, 1))
  BY <1>3, <1>4, <1>5, OneRow, Literals, OtherThanMeterPowers
<1> QED  BY <1>6

LEMMA InverterRowsCarried ==
  ASSUME NEW short \in BOOLEAN, snapshot \in [Fields -> Int],
         RuntimeData(snapshot, short) \subseteq registers, NEW p \in Phases
  PROVE  /\ RowCarried(Row("inverter_voltage", p, "u16", 35116 + 5 * p, 100))
         /\ RowCarried(Row("inverter_current", p, "u16", 35117 + 5 * p, 100))
         /\ RowCarried(Row("inverter_frequency", 0, "u16", 35118 + 5 * p, 10))
         /\ RowCarried(Row("inverter_power", p, "i32", 35119 + 5 * p, 1))
         /\ RowCarried(Row("inverter_reactive_power", p, "i32", 35351 + 2 * p, 1))
         /\ RowCarried(Row("inverter_apparent_power", p, "i32", 35357 + 2 * p, 1))
<1>1. InverterCarries(p)
  BY RuntimeCarried, InverterCarried, Zenon
<1>2. p \in 1 .. 3 /\ p \in 0 .. 3
  BY DEF Phases
<1>3. /\ Carries("u16", 35116 + 5 * p, 100, snapshot[<<"inverter_voltage", p>>])
      /\ Carries("u16", 35117 + 5 * p, 100, snapshot[<<"inverter_current", p>>])
      /\ Carries("u16", 35118 + 5 * p, 10, snapshot[<<"inverter_frequency", 0>>])
      /\ Carries("i32", 35119 + 5 * p, 1, snapshot[<<"inverter_power", p>>])
      /\ Carries("i32", 35351 + 2 * p, 1, snapshot[<<"inverter_reactive_power", p>>])
      /\ Carries("i32", 35357 + 2 * p, 1, snapshot[<<"inverter_apparent_power", p>>])
  BY <1>1 DEF InverterCarries
<1>4. /\ <<"inverter_voltage", p>> \in Fields /\ <<"inverter_current", p>> \in Fields
      /\ <<"inverter_frequency", 0>> \in Fields /\ <<"inverter_power", p>> \in Fields
      /\ <<"inverter_reactive_power", p>> \in Fields
      /\ <<"inverter_apparent_power", p>> \in Fields
  BY <1>2, KeptFields, Zenon
<1>5. /\ 35116 + 5 * p \in Int /\ 35117 + 5 * p \in Int /\ 35118 + 5 * p \in Int
      /\ 35119 + 5 * p \in Int /\ 35351 + 2 * p \in Int /\ 35357 + 2 * p \in Int
  BY <1>2
<1>6. /\ RowCarried(Row("inverter_voltage", p, "u16", 35116 + 5 * p, 100))
      /\ RowCarried(Row("inverter_current", p, "u16", 35117 + 5 * p, 100))
      /\ RowCarried(Row("inverter_frequency", 0, "u16", 35118 + 5 * p, 10))
      /\ RowCarried(Row("inverter_power", p, "i32", 35119 + 5 * p, 1))
      /\ RowCarried(Row("inverter_reactive_power", p, "i32", 35351 + 2 * p, 1))
      /\ RowCarried(Row("inverter_apparent_power", p, "i32", 35357 + 2 * p, 1))
  BY <1>3, <1>4, <1>5, OneRow, Literals, OtherThanMeterPowers
<1> QED  BY <1>6

LEMMA MeterRowsCarried ==
  ASSUME NEW short \in BOOLEAN, snapshot \in [Fields -> Int],
         MeterData(snapshot, short) \subseteq registers, NEW p \in Phases
  PROVE  /\ RowCarried(Row("meter_power", p, "i16", 36004 + p, 10))
         /\ RowCarried(Row("meter_power_factor", p, "i16", 36009 + p, 1))
         /\ RowCarried(Row("meter_power", p, "i32", 36017 + 2 * p, 10))
         /\ RowCarried(Row("meter_reactive_power", p, "i32", 36025 + 2 * p, 10))
         /\ RowCarried(Row("meter_apparent_power", p, "i32", 36033 + 2 * p, 10))
         /\ RowCarried(Row("meter_voltage", p, "u16", 36051 + p, 100))
         /\ RowCarried(Row("meter_current", p, "u16", 36054 + p, 100))
         /\ RowCarried(Row("meter_energy_import", p, "u64", 36104 + 4 * p, 1))
<1>1. MeterPhaseCarries(p)
  BY MeterCarried, MeterPhaseCarried, Zenon
<1>2. p \in 1 .. 3 /\ p \in 0 .. 3
  BY DEF Phases
<1>3. /\ Written("i16", 36004 + p, snapshot[<<"meter_power", p>>])
      /\ Carries("i16", 36009 + p, 1, snapshot[<<"meter_power_factor", p>>])
      /\ Written("i32", 36017 + 2 * p, snapshot[<<"meter_power", p>>])
      /\ Written("i32", 36025 + 2 * p, snapshot[<<"meter_reactive_power", p>>])
      /\ Written("i32", 36033 + 2 * p, snapshot[<<"meter_apparent_power", p>>])
      /\ Carries("u16", 36051 + p, 100, snapshot[<<"meter_voltage", p>>])
      /\ Carries("u16", 36054 + p, 100, snapshot[<<"meter_current", p>>])
      /\ Carries("u64", 36104 + 4 * p, 1, snapshot[<<"meter_energy_import", p>>])
  BY <1>1 DEF MeterPhaseCarries
<1>4. /\ <<"meter_power", p>> \in Fields /\ <<"meter_power_factor", p>> \in Fields
      /\ <<"meter_reactive_power", p>> \in Fields
      /\ <<"meter_apparent_power", p>> \in Fields /\ <<"meter_voltage", p>> \in Fields
      /\ <<"meter_current", p>> \in Fields /\ <<"meter_energy_import", p>> \in Fields
  BY <1>2, KeptFields, Zenon
<1>5. /\ 36004 + p \in Int /\ 36009 + p \in Int /\ 36017 + 2 * p \in Int
      /\ 36025 + 2 * p \in Int /\ 36033 + 2 * p \in Int /\ 36051 + p \in Int
      /\ 36054 + p \in Int /\ 36104 + 4 * p \in Int
  BY <1>2
<1>6. /\ RowCarried(Row("meter_power", p, "i16", 36004 + p, 10))
      /\ RowCarried(Row("meter_power", p, "i32", 36017 + 2 * p, 10))
      /\ RowCarried(Row("meter_reactive_power", p, "i32", 36025 + 2 * p, 10))
      /\ RowCarried(Row("meter_apparent_power", p, "i32", 36033 + 2 * p, 10))
  BY <1>3, <1>4, <1>5, MeterPowerRow, MeterPowerNames, Literals
<1>7. /\ RowCarried(Row("meter_power_factor", p, "i16", 36009 + p, 1))
      /\ RowCarried(Row("meter_voltage", p, "u16", 36051 + p, 100))
      /\ RowCarried(Row("meter_current", p, "u16", 36054 + p, 100))
      /\ RowCarried(Row("meter_energy_import", p, "u64", 36104 + 4 * p, 1))
  BY <1>3, <1>4, <1>5, OneRow, Literals, OtherThanMeterPowers
<1> QED  BY <1>6, <1>7

LEMMA RuntimeRowsCarried ==
  ASSUME NEW short \in BOOLEAN, snapshot \in [Fields -> Int],
         RuntimeData(snapshot, short) \subseteq registers
  PROVE  /\ RowCarried(Row("inverter_power", 0, "i16", 35140, 1))
         /\ RowCarried(Row("inverter_reactive_power", 0, "i16", 35142, 1))
         /\ RowCarried(Row("inverter_apparent_power", 0, "u16", 35144, 1))
         /\ RowCarried(Row("temperature_air", 0, "i16", 35174, 100))
         /\ RowCarried(Row("temperature_module", 0, "i16", 35175, 100))
         /\ RowCarried(Row("temperature_radiator", 0, "i16", 35176, 100))
         /\ RowCarried(Row("battery_voltage", 0, "u16", 35180, 100))
         /\ RowCarried(Row("battery_current", 0, "i16", 35181, 100))
         /\ RowCarried(Row("battery_power", 0, "i32", 35182, 1))
<1>1. RuntimeCarries
  BY RuntimeCarried, Zenon
<1>2. /\ Carries("i16", 35140, 1, snapshot[<<"inverter_power", 0>>])
      /\ Carries("i16", 35142, 1, snapshot[<<"inverter_reactive_power", 0>>])
      /\ Carries("u16", 35144, 1, snapshot[<<"inverter_apparent_power", 0>>])
      /\ Carries("i16", 35174, 100, snapshot[<<"temperature_air", 0>>])
      /\ Carries("i16", 35175, 100, snapshot[<<"temperature_module", 0>>])
      /\ Carries("i16", 35176, 100, snapshot[<<"temperature_radiator", 0>>])
      /\ Carries("u16", 35180, 100, snapshot[<<"battery_voltage", 0>>])
      /\ Carries("i16", 35181, 100, snapshot[<<"battery_current", 0>>])
      /\ Carries("i32", 35182, 1, snapshot[<<"battery_power", 0>>])
  BY <1>1 DEF RuntimeCarries
<1>3. /\ <<"inverter_power", 0>> \in Fields /\ <<"inverter_reactive_power", 0>> \in Fields
      /\ <<"inverter_apparent_power", 0>> \in Fields /\ <<"temperature_air", 0>> \in Fields
      /\ <<"temperature_module", 0>> \in Fields /\ <<"temperature_radiator", 0>> \in Fields
      /\ <<"battery_voltage", 0>> \in Fields /\ <<"battery_current", 0>> \in Fields
      /\ <<"battery_power", 0>> \in Fields
  BY KeptFields
<1>4. /\ 35140 \in Int /\ 35142 \in Int /\ 35144 \in Int /\ 35174 \in Int /\ 35175 \in Int
      /\ 35176 \in Int /\ 35180 \in Int /\ 35181 \in Int /\ 35182 \in Int
  OBVIOUS
<1>5. /\ RowCarried(Row("inverter_power", 0, "i16", 35140, 1))
      /\ RowCarried(Row("inverter_reactive_power", 0, "i16", 35142, 1))
      /\ RowCarried(Row("inverter_apparent_power", 0, "u16", 35144, 1))
      /\ RowCarried(Row("temperature_air", 0, "i16", 35174, 100))
      /\ RowCarried(Row("temperature_module", 0, "i16", 35175, 100))
      /\ RowCarried(Row("temperature_radiator", 0, "i16", 35176, 100))
      /\ RowCarried(Row("battery_voltage", 0, "u16", 35180, 100))
      /\ RowCarried(Row("battery_current", 0, "i16", 35181, 100))
      /\ RowCarried(Row("battery_power", 0, "i32", 35182, 1))
  BY <1>2, <1>3, <1>4, OneRow, Literals, OtherThanMeterPowers
<1> QED  BY <1>5

LEMMA MeterTotalsCarried ==
  ASSUME NEW short \in BOOLEAN, snapshot \in [Fields -> Int],
         MeterData(snapshot, short) \subseteq registers
  PROVE  /\ RowCarried(Row("meter_power", 0, "i16", 36008, 10))
         /\ RowCarried(Row("meter_reactive_power", 0, "i16", 36009, 10))
         /\ RowCarried(Row("meter_reactive_power", 0, "i32", 36033, 10))
         /\ RowCarried(Row("meter_apparent_power", 0, "i32", 36041, 10))
         /\ RowCarried(Row("meter_power_factor", 0, "i16", 36013, 1))
         /\ RowCarried(Row("meter_frequency", 0, "u16", 36014, 10))
         /\ RowCarried(Row("meter_power", 0, "i32", 36025, 10))
         /\ RowCarried(Row("meter_energy_export", 0, "u64", 36104, 1))
         /\ RowCarried(Row("meter_energy_import", 0, "u64", 36120, 1))
<1>1. MeterCarries
  BY MeterCarried, Zenon
<1>2. /\ Written("i16", 36008, snapshot[<<"meter_power", 0>>])
      /\ Written("i16", 36009, snapshot[<<"meter_reactive_power", 0>>])
      /\ Written("i32", 36033, snapshot[<<"meter_reactive_power", 0>>])
      /\ Written("i32", 36041, snapshot[<<"meter_apparent_power", 0>>])
      /\ Carries("i16", 36013, 1, snapshot[<<"meter_power_factor", 0>>])
      /\ Carries("u16", 36014, 10, snapshot[<<"meter_frequency", 0>>])
      /\ Written("i32", 36025, snapshot[<<"meter_power", 0>>])
      /\ Carries("u64", 36104, 1, snapshot[<<"meter_energy_export", 0>>])
      /\ Carries("u64", 36120, 1, snapshot[<<"meter_energy_import", 0>>])
  BY <1>1 DEF MeterCarries
<1>3. /\ <<"meter_power", 0>> \in Fields /\ <<"meter_power_factor", 0>> \in Fields
      /\ <<"meter_frequency", 0>> \in Fields /\ <<"meter_energy_export", 0>> \in Fields
      /\ <<"meter_energy_import", 0>> \in Fields /\ <<"meter_reactive_power", 0>> \in Fields
      /\ <<"meter_apparent_power", 0>> \in Fields
  BY KeptFields
<1>4. /\ 36008 \in Int /\ 36013 \in Int /\ 36014 \in Int /\ 36025 \in Int /\ 36104 \in Int
      /\ 36120 \in Int /\ 36009 \in Int /\ 36033 \in Int /\ 36041 \in Int
  OBVIOUS
<1>5. /\ RowCarried(Row("meter_power", 0, "i16", 36008, 10))
      /\ RowCarried(Row("meter_reactive_power", 0, "i16", 36009, 10))
      /\ RowCarried(Row("meter_reactive_power", 0, "i32", 36033, 10))
      /\ RowCarried(Row("meter_apparent_power", 0, "i32", 36041, 10))
      /\ RowCarried(Row("meter_power", 0, "i32", 36025, 10))
  BY <1>2, <1>3, <1>4, MeterPowerRow, MeterPowerNames, Literals
<1>6. /\ RowCarried(Row("meter_power_factor", 0, "i16", 36013, 1))
      /\ RowCarried(Row("meter_frequency", 0, "u16", 36014, 10))
      /\ RowCarried(Row("meter_energy_export", 0, "u64", 36104, 1))
      /\ RowCarried(Row("meter_energy_import", 0, "u64", 36120, 1))
  BY <1>2, <1>3, <1>4, OneRow, Literals, OtherThanMeterPowers
<1> QED  BY <1>5, <1>6

LEMMA BatteryRowsCarried ==
  ASSUME NEW short \in BOOLEAN, snapshot \in [Fields -> Int],
         BatteryData(snapshot, short) \subseteq registers
  PROVE  /\ RowCarried(Row("battery_temperature", 0, "u16", 37003, 100))
         /\ RowCarried(Row("battery_soc", 0, "u16", 37007, 1))
         /\ RowCarried(Row("battery_health", 0, "u16", 37008, 1000))
<1>1. BatteryCarries
  BY BatteryCarried, Zenon
<1>2. /\ Carries("u16", 37003, 100, snapshot[<<"battery_temperature", 0>>])
      /\ Carries("u16", 37007, 1, snapshot[<<"battery_soc", 0>>])
      /\ Carries("u16", 37008, 1000, snapshot[<<"battery_health", 0>>])
  BY <1>1 DEF BatteryCarries
<1>3. /\ <<"battery_temperature", 0>> \in Fields /\ <<"battery_soc", 0>> \in Fields
      /\ <<"battery_health", 0>> \in Fields
  BY KeptFields, Zenon
<1>4. /\ 37003 \in Int /\ 37007 \in Int /\ 37008 \in Int
  OBVIOUS
<1>5. /\ RowCarried(Row("battery_temperature", 0, "u16", 37003, 100))
      /\ RowCarried(Row("battery_soc", 0, "u16", 37007, 1))
      /\ RowCarried(Row("battery_health", 0, "u16", 37008, 1000))
  BY <1>2, <1>3, <1>4, OneRow, Literals, OtherThanMeterPowers
<1> QED  BY <1>5

LEMMA SettingsRowsCarried ==
  ASSUME NEW short \in BOOLEAN, snapshot \in [Fields -> Int],
         NEW c, Settings(snapshot, c, short) \subseteq registers
  PROVE  /\ RowCarried(Row("inverter_power_factor", 0, "i16", 45482, 10))
         /\ RowCarried(Row("battery_voltage", 0, "u16", 47906, 100))
<1>1. SettingsCarries
  BY SettingsCarried, Zenon
<1>2. /\ Carries("i16", 45482, 10, snapshot[<<"inverter_power_factor", 0>>])
      /\ Carries("u16", 47906, 100, snapshot[<<"battery_voltage", 0>>])
  BY <1>1 DEF SettingsCarries
<1>3. /\ <<"inverter_power_factor", 0>> \in Fields /\ <<"battery_voltage", 0>> \in Fields
  BY KeptFields, Zenon
<1>4. /\ 45482 \in Int /\ 47906 \in Int
  OBVIOUS
<1>5. /\ RowCarried(Row("inverter_power_factor", 0, "i16", 45482, 10))
      /\ RowCarried(Row("battery_voltage", 0, "u16", 47906, 100))
  BY <1>2, <1>3, <1>4, OneRow, Literals, OtherThanMeterPowers
<1> QED  BY <1>5

StringTable(i) ==
  {Row("pv_voltage", i, "u16", 35099 + 4 * i, 100),
   Row("pv_current", i, "u16", 35100 + 4 * i, 100),
   Row("pv_power", i, "u32", 35101 + 4 * i, 1)}
PhaseTable(p) ==
  {Row("inverter_voltage", p, "u16", 35116 + 5 * p, 100),
   Row("inverter_current", p, "u16", 35117 + 5 * p, 100),
   Row("inverter_frequency", 0, "u16", 35118 + 5 * p, 10),
   Row("inverter_power", p, "i32", 35119 + 5 * p, 1),
   Row("inverter_reactive_power", p, "i32", 35351 + 2 * p, 1),
   Row("inverter_apparent_power", p, "i32", 35357 + 2 * p, 1),
   Row("meter_power", p, "i16", 36004 + p, 10),
   Row("meter_power_factor", p, "i16", 36009 + p, 1),
   Row("meter_power", p, "i32", 36017 + 2 * p, 10),
   Row("meter_reactive_power", p, "i32", 36025 + 2 * p, 10),
   Row("meter_apparent_power", p, "i32", 36033 + 2 * p, 10),
   Row("meter_voltage", p, "u16", 36051 + p, 100),
   Row("meter_current", p, "u16", 36054 + p, 100),
   Row("meter_energy_import", p, "u64", 36104 + 4 * p, 1)}
SingleTable ==
  {Row("inverter_power", 0, "i16", 35140, 1),
   Row("inverter_reactive_power", 0, "i16", 35142, 1),
   Row("inverter_apparent_power", 0, "u16", 35144, 1),
   Row("temperature_air", 0, "i16", 35174, 100),
   Row("temperature_module", 0, "i16", 35175, 100),
   Row("temperature_radiator", 0, "i16", 35176, 100),
   Row("battery_voltage", 0, "u16", 35180, 100),
   Row("battery_current", 0, "i16", 35181, 100),
   Row("battery_power", 0, "i32", 35182, 1),
   Row("meter_power", 0, "i16", 36008, 10),
   Row("meter_reactive_power", 0, "i16", 36009, 10),
   Row("meter_power_factor", 0, "i16", 36013, 1),
   Row("meter_frequency", 0, "u16", 36014, 10),
   Row("meter_power", 0, "i32", 36025, 10),
   Row("meter_reactive_power", 0, "i32", 36033, 10),
   Row("meter_apparent_power", 0, "i32", 36041, 10),
   Row("meter_energy_export", 0, "u64", 36104, 1),
   Row("meter_energy_import", 0, "u64", 36120, 1),
   Row("battery_temperature", 0, "u16", 37003, 100),
   Row("battery_soc", 0, "u16", 37007, 1),
   Row("battery_health", 0, "u16", 37008, 1000),
   Row("inverter_power_factor", 0, "i16", 45482, 10),
   Row("battery_voltage", 0, "u16", 47906, 100)}

LEMMA TableCarried ==
  ASSUME NEW short \in BOOLEAN, snapshot \in [Fields -> Int],
         BuildRegisterMap(snapshot, cfg.goodwe_emulator, short) \subseteq registers
  PROVE  \A row \in RegisterTable : RowCarried(row)
<1> DEFINE c == cfg.goodwe_emulator
<1>1. /\ RuntimeData(snapshot, short) \subseteq registers
      /\ MeterData(snapshot, short) \subseteq registers
      /\ BatteryData(snapshot, short) \subseteq registers
      /\ Settings(snapshot, c, short) \subseteq registers
  BY DEF BuildRegisterMap
<1>2. ASSUME NEW i \in Strings, NEW row \in StringTable(i)
      PROVE  RowCarried(row)
  <2>1. /\ RowCarried(Row("pv_voltage", i, "u16", 35099 + 4 * i, 100))
        /\ RowCarried(Row("pv_current", i, "u16", 35100 + 4 * i, 100))
        /\ RowCarried(Row("pv_power", i, "u32", 35101 + 4 * i, 1))
    BY <1>1, StringRowsCarried
  <2> QED  BY <2>1 DEF StringTable
<1>3. ASSUME NEW p \in Phases, NEW row \in PhaseTable(p)
      PROVE  RowCarried(row)
  <2>1. /\ RowCarried(Row("inverter_voltage", p, "u16", 35116 + 5 * p, 100))
        /\ RowCarried(Row("inverter_current", p, "u16", 35117 + 5 * p, 100))
        /\ RowCarried(Row("inverter_frequency", 0, "u16", 35118 + 5 * p, 10))
        /\ RowCarried(Row("inverter_power", p, "i32", 35119 + 5 * p, 1))
        /\ RowCarried(Row("inverter_reactive_power", p, "i32", 35351 + 2 * p, 1))
        /\ RowCarried(Row("inverter_apparent_power", p, "i32", 35357 + 2 * p, 1))
    BY <1>1, InverterRowsCarried
  <2>2. /\ RowCarried(Row("meter_power", p, "i16", 36004 + p, 10))
        /\ RowCarried(Row("meter_power_factor", p, "i16", 36009 + p, 1))
        /\ RowCarried(Row("meter_power", p, "i32", 36017 + 2 * p, 10))
        /\ RowCarried(Row("meter_reactive_power", p, "i32", 36025 + 2 * p, 10))
        /\ RowCarried(Row("meter_apparent_power", p, "i32", 36033 + 2 * p, 10))
        /\ RowCarried(Row("meter_voltage", p, "u16", 36051 + p, 100))
        /\ RowCarried(Row("meter_current", p, "u16", 36054 + p, 100))
        /\ RowCarried(Row("meter_energy_import", p, "u64", 36104 + 4 * p, 1))
    BY <1>1, MeterRowsCarried
  <2> QED  BY <2>1, <2>2 DEF PhaseTable
<1>4. ASSUME NEW row \in SingleTable
      PROVE  RowCarried(row)
  <2>1. /\ RowCarried(Row("inverter_power", 0, "i16", 35140, 1))
        /\ RowCarried(Row("inverter_reactive_power", 0, "i16", 35142, 1))
        /\ RowCarried(Row("inverter_apparent_power", 0, "u16", 35144, 1))
        /\ RowCarried(Row("temperature_air", 0, "i16", 35174, 100))
        /\ RowCarried(Row("temperature_module", 0, "i16", 35175, 100))
        /\ RowCarried(Row("temperature_radiator", 0, "i16", 35176, 100))
        /\ RowCarried(Row("battery_voltage", 0, "u16", 35180, 100))
        /\ RowCarried(Row("battery_current", 0, "i16", 35181, 100))
        /\ RowCarried(Row("battery_power", 0, "i32", 35182, 1))
    BY <1>1, RuntimeRowsCarried
  <2>2. /\ RowCarried(Row("meter_power", 0, "i16", 36008, 10))
        /\ RowCarried(Row("meter_reactive_power", 0, "i16", 36009, 10))
        /\ RowCarried(Row("meter_reactive_power", 0, "i32", 36033, 10))
        /\ RowCarried(Row("meter_apparent_power", 0, "i32", 36041, 10))
        /\ RowCarried(Row("meter_power_factor", 0, "i16", 36013, 1))
        /\ RowCarried(Row("meter_frequency", 0, "u16", 36014, 10))
        /\ RowCarried(Row("meter_power", 0, "i32", 36025, 10))
        /\ RowCarried(Row("meter_energy_export", 0, "u64", 36104, 1))
        /\ RowCarried(Row("meter_energy_import", 0, "u64", 36120, 1))
    BY <1>1, MeterTotalsCarried
  <2>3. /\ RowCarried(Row("battery_temperature", 0, "u16", 37003, 100))
        /\ RowCarried(Row("battery_soc", 0, "u16", 37007, 1))
        /\ RowCarried(Row("battery_health", 0, "u16", 37008, 1000))
    BY <1>1, BatteryRowsCarried
  <2>4. /\ RowCarried(Row("inverter_power_factor", 0, "i16", 45482, 10))
        /\ RowCarried(Row("battery_voltage", 0, "u16", 47906, 100))
    BY <1>1, SettingsRowsCarried
  <2> QED  BY <2>1, <2>2, <2>3, <2>4 DEF SingleTable
<1> DEFINE strings == {StringTable(i) : i \in Strings}
           phases == {PhaseTable(p) : p \in Phases}
<1>5. RegisterTable = (UNION strings) \cup (UNION phases) \cup SingleTable
  BY DEF RegisterTable, StringTable, PhaseTable, SingleTable
<1>6. /\ \A S \in strings : \A row \in S : RowCarried(row)
      /\ \A S \in phases : \A row \in S : RowCarried(row)
  BY <1>2, <1>3
<1> HIDE DEF strings, phases
<1>7. ASSUME NEW row \in RegisterTable PROVE RowCarried(row)
  <2>1. row \in UNION strings \/ row \in UNION phases \/ row \in SingleTable
    BY <1>5, <1>7, Zenon
  <2> QED  BY <1>4, <1>6, <2>1, Zenon
<1> QED  BY <1>7, Zenon

\* The registers are those of the snapshot.
MapInv ==
  registers # {} =>
    \E short \in BOOLEAN :
      registers = BuildRegisterMap(snapshot, cfg.goodwe_emulator, short)

LEMMA MapStep == MapInv /\ [Next]_vars => MapInv'
<1> SUFFICES ASSUME MapInv, [Next]_vars PROVE MapInv'
  OBVIOUS
<1>1. ASSUME NEW m, NEW i, NEW b, NEW answered, NEW short \in BOOLEAN,
             Refresh(m, i, b, answered, short)
      PROVE  MapInv'
  <2>1. registers' = BuildRegisterMap(snapshot', cfg.goodwe_emulator, short) /\ cfg' = cfg
    BY <1>1, Zenon DEF Refresh
  <2> QED  BY <2>1 DEF MapInv
<1>2. CASE Next
  BY <1>1, <1>2 DEF Next
<1>3. CASE UNCHANGED vars
  BY <1>3 DEF vars, MapInv
<1> QED  BY <1>2, <1>3

\* The total at 35137 is the AC power of the snapshot, or else what a master reads as the
\* powers of the strings, or else the PV power.
LEMMA TotalCarried ==
  ASSUME NEW short \in BOOLEAN, snapshot \in [Fields -> Int], LaidOut(registers),
         RuntimeData(snapshot, short) \subseteq registers
  PROVE  TotalShown
<1> DEFINE ac == snapshot[<<"inverter_power", 0>>]
           own(i) == snapshot[<<"pv_power", i>>]
<1>1. /\ ac \in Int /\ snapshot[<<"pv_power", 0>>] \in Int
      /\ \A i \in 1 .. 4 : own(i) \in Int
  BY KeptFields
<1>2. ASSUME NEW i \in Strings PROVE StringCarries(i)
  BY RuntimeCarried, StringCarried, Zenon
<1>3. ASSUME NEW i \in Strings, Holds("u32", own(i)) PROVE StringPower(i) = own(i) /\ own(i) >= 0
  <2>1. Carries("u32", 35101 + 4 * i, 1, own(i)) /\ own(i) \in Int
    BY <1>1, <1>2 DEF StringCarries, Strings
  <2>2. own(i) \div 1 = own(i)
    BY <2>1
  <2>3. Holds("u32", own(i) \div 1) /\ own(i) >= 0
    BY <1>3, <2>2 DEF Holds, FitsInto
  <2>4. 35101 + 4 * i \in Int /\ 1 \in Int /\ "u32" \in Kinds /\ "u32" \in Doubles
    BY DEF Strings, Kinds, Doubles
  <2>5. Decoded("u32", 35101 + 4 * i) = own(i)
    BY <2>1, <2>3, <2>4, CarriedIsRead
  <2> QED  BY <2>3, <2>5 DEF StringPower
<1>4. Encoded("i32", 35137, TotalPower(snapshot)) \subseteq registers
  BY RuntimeCarried DEF RuntimeCarries, Written
<1>5. ASSUME \A i \in Strings : Holds("u32", own(i)), Holds("i32", Total)
      PROVE  Decoded("i32", 35137) = Total
  <2>1. \A i \in 1 .. 4 : StringPower(i) = own(i) /\ own(i) >= 0 /\ own(i) \in Int
    BY <1>1, <1>3, <1>5 DEF Strings
  <2>2. TotalPower(snapshot) =
          IF ac # 0 THEN ac
          ELSE IF own(1) + own(2) + own(3) + own(4) > 0 THEN own(1) + own(2) + own(3) + own(4)
          ELSE snapshot[<<"pv_power", 0>>]
    BY DEF TotalPower, PvTotal
  <2>3. AllStrings = own(1) + own(2) + own(3) + own(4)
    <3> HIDE DEF own
    <3> QED  BY <2>1 DEF AllStrings
  <2>4. Total = IF ac # 0 THEN ac
                ELSE IF AllStrings # 0 THEN AllStrings ELSE snapshot[<<"pv_power", 0>>]
    BY DEF Total
  <2> HIDE DEF ac, own
  <2>5. Total = TotalPower(snapshot) /\ Total \in Int
    BY <1>1, <2>1, <2>2, <2>3, <2>4
  <2>6. Encoded("i32", 35137, Total) \subseteq registers /\ Holds("i32", Total)
    BY <1>4, <1>5, <2>5
  <2>7. 35137 \in Int /\ "i32" \in Kinds
    BY Literals
  <2> QED  BY <2>5, <2>6, <2>7, ReadBack
<1>6. ((\A i \in Strings : Holds("u32", own(i))) /\ Holds("i32", Total))
        => Decoded("i32", 35137) = Total
  BY <1>5
<1> QED  BY <1>6 DEF TotalShown

\* A master that decodes the published registers by the register tables finds the snapshot's
\* value of every row to within a unit of the register and with its sign, if the register
\* can hold it: whatever was measured, invented, kept from an earlier refresh or never
\* delivered.  The total at 35137 agrees with the powers that are shown beside it.  The
\* layout of the map is what makes a word readable at its address.
THEOREM MasterSeesSnapshot == Spec => []SnapshotShown
<1>1. PublishedInv /\ MapInv => SnapshotShown
  <2> SUFFICES ASSUME PublishedInv, MapInv, registers # {}
               PROVE  /\ \A row \in RegisterTable :
                           Holds(row.kind, snapshot[row.field] \div SnapshotUnit(row)) =>
                             Reads(row, SnapshotUnit(row), snapshot[row.field])
                      /\ TotalShown
    BY Zenon DEF SnapshotShown
  <2>0. TotalShown
    <3>1. PICK short \in BOOLEAN :
            registers = BuildRegisterMap(snapshot, cfg.goodwe_emulator, short)
      BY DEF MapInv
    <3>2. RuntimeData(snapshot, short) \subseteq registers
      BY <3>1 DEF BuildRegisterMap
    <3> QED  BY <3>2, TotalCarried DEF PublishedInv
  <2> SUFFICES ASSUME NEW row \in RegisterTable,
                      Holds(row.kind, snapshot[row.field] \div SnapshotUnit(row))
               PROVE  Reads(row, SnapshotUnit(row), snapshot[row.field])
    BY <2>0
  <2>1. PICK short \in BOOLEAN :
          registers = BuildRegisterMap(snapshot, cfg.goodwe_emulator, short)
    BY DEF MapInv
  <2>2. LaidOut(registers) /\ snapshot \in [Fields -> Int]
    BY DEF PublishedInv
  <2>3. RowCarried(row)
    BY <2>1, <2>2, TableCarried
  <2>4. SnapshotUnit(row) \in Int /\ snapshot[row.field] \in Int
    BY <2>2, <2>3 DEF RowCarried, Units
  <2>5. Close(snapshot[row.field], SnapshotUnit(row), Decoded(row.kind, row.at))
    BY <2>2, <2>3, <2>4, CarriedIsRead DEF RowCarried
  <2> QED  BY <2>5 DEF Reads, Close
<1>2. Init => MapInv
  BY DEF Init, MapInv
<1> QED  BY <1>1, <1>2, MapStep, PublishedInit, PublishedStep, PTL DEF Spec

------------------------------------------------------------------------------
(* Which source a field comes from *)

\* The quantities of each source.
MeterNames ==
  {"meter_power", "meter_reactive_power", "meter_apparent_power", "meter_power_factor",
   "meter_energy_import", "meter_voltage", "meter_current", "meter_frequency",
   "meter_energy_export"}
InverterNames ==
  {"inverter_power", "inverter_reactive_power", "inverter_apparent_power",
   "inverter_voltage", "inverter_current", "inverter_frequency", "inverter_power_factor",
   "temperature_air", "temperature_module", "temperature_radiator", "pv_power", "pv_voltage",
   "pv_current"}
BatteryNames ==
  {"battery_soc", "battery_voltage", "battery_power", "battery_current",
   "battery_temperature", "battery_health"}

LEMMA FieldsApart ==
  /\ \A f \in MeterFields : f \notin InverterFields \cup PvFields /\ f \notin BatteryFields
  /\ \A f \in InverterFields \cup PvFields : f \notin MeterFields /\ f \notin BatteryFields
  /\ \A f \in BatteryFields : f \notin InverterFields \cup PvFields /\ f \notin MeterFields
<1>1. /\ \A f \in MeterFields : f[1] \in MeterNames
      /\ \A f \in InverterFields \cup PvFields : f[1] \in InverterNames
      /\ \A f \in BatteryFields : f[1] \in BatteryNames
  BY DEF MeterFields, InverterFields, PvFields, BatteryFields, MeterNames, InverterNames,
     BatteryNames
<1>2. /\ \A name \in MeterNames : name \notin InverterNames /\ name \notin BatteryNames
      /\ \A name \in InverterNames : name \notin BatteryNames
  BY DEF MeterNames, InverterNames, BatteryNames
<1> QED  BY <1>1, <1>2, Zenon

\* A field is delivered by the one source that has it, and only if the source is enabled.
From(u, f, c, data) ==
  /\ f \in DOMAIN u <=> c.enabled /\ f \in DOMAIN data
  /\ f \in DOMAIN u => u[f] = data[f]

LEMMA EnabledFrom ==
  ASSUME NEW c, NEW data, NEW f
  PROVE  From(Enabled(c, data), f, c, data)
BY DEF From, Enabled

LEMMA SourceOf ==
  ASSUME Setting, NEW m \in plant.meters, NEW i \in plant.inverters, NEW b \in plant.batteries,
         NEW words \in Em540Replies(plant.base, Em540Registers(m)), NEW answered,
         NEW short \in BOOLEAN
  PROVE  LET u == Update(words, i, b, answered, short)
         IN  /\ \A f \in MeterFields : From(u, f, cfg.em540_bridge, MeterUpdate(words))
             /\ \A f \in InverterFields \cup PvFields :
                  From(u, f, cfg.fronius, InverterUpdate(i, answered, short))
             /\ \A f \in BatteryFields : From(u, f, cfg.victron, BatteryUpdate(b, answered))
<1> DEFINE meter == Enabled(cfg.em540_bridge, MeterUpdate(words))
           inverter == Enabled(cfg.fronius, InverterUpdate(i, answered, short))
           battery == Enabled(cfg.victron, BatteryUpdate(b, answered))
           u == Update(words, i, b, answered, short)
<1>1. /\ DOMAIN meter \subseteq MeterFields
      /\ DOMAIN inverter \subseteq InverterFields \cup PvFields
      /\ DOMAIN battery \subseteq BatteryFields
  BY MeterUpdatePayload, InverterUpdatePayload, BatteryUpdatePayload, EmptyPayload
     DEF Enabled, Payload
<1>2. /\ \A f : From(meter, f, cfg.em540_bridge, MeterUpdate(words))
      /\ \A f : From(inverter, f, cfg.fronius, InverterUpdate(i, answered, short))
      /\ \A f : From(battery, f, cfg.victron, BatteryUpdate(b, answered))
  BY EnabledFrom
<1>3. u = meter ++ inverter ++ battery
  BY DEF Update
<1> HIDE DEF meter, inverter, battery, u
<1> DEFINE Same(source, f) == /\ f \in DOMAIN u <=> f \in DOMAIN source
                              /\ f \in DOMAIN u => u[f] = source[f]
<1>4. /\ \A f \in MeterFields : Same(meter, f)
      /\ \A f \in InverterFields \cup PvFields : Same(inverter, f)
      /\ \A f \in BatteryFields : Same(battery, f)
  <2>1. /\ DOMAIN u = (DOMAIN meter) \cup (DOMAIN inverter) \cup (DOMAIN battery)
        /\ \A f \in DOMAIN meter : u[f] = meter[f]
        /\ \A f \in DOMAIN inverter : f \notin DOMAIN meter => u[f] = inverter[f]
        /\ \A f \in DOMAIN battery :
             f \notin DOMAIN meter /\ f \notin DOMAIN inverter => u[f] = battery[f]
    BY <1>3 DEF ++
  <2>2. ASSUME NEW f \in MeterFields PROVE Same(meter, f)
    BY <1>1, <2>1, FieldsApart
  <2>3. ASSUME NEW f \in InverterFields \cup PvFields PROVE Same(inverter, f)
    BY <1>1, <2>1, FieldsApart
  <2>4. ASSUME NEW f \in BatteryFields PROVE Same(battery, f)
    BY <1>1, <2>1, FieldsApart
  <2> HIDE DEF Same
  <2> QED  BY <2>2, <2>3, <2>4
<1>5. /\ \A f \in MeterFields : From(u, f, cfg.em540_bridge, MeterUpdate(words))
      /\ \A f \in InverterFields \cup PvFields :
           From(u, f, cfg.fronius, InverterUpdate(i, answered, short))
      /\ \A f \in BatteryFields : From(u, f, cfg.victron, BatteryUpdate(b, answered))
  BY <1>2, <1>4 DEF From
<1> QED  BY <1>5 DEF u

------------------------------------------------------------------------------
(* Invented powers and their currents *)

\* A refresh publishes only a meter's payload that its validator accepts.
LEMMA MeterIsValid ==
  ASSUME cfg.em540_bridge.enabled, NEW words, NEW i, NEW b, NEW answered, NEW short,
         NEW update \in Delivered(words, i, b, answered, short)
  PROVE  IsValidEm540(MeterUpdate(words))
BY Zenon DEF Delivered, MeterUpdate

\* The snapshot keeps a power, its voltage and its current together.
PhysicalAt(s, power, voltage, current) == Physical(s[power], s[voltage], s[current])
PhaseKeys(p) == {<<"meter_power", p>>, <<"meter_voltage", p>>, <<"meter_current", p>>}
StringKeys(i) == {<<"pv_power", i>>, <<"pv_voltage", i>>, <<"pv_current", i>>}
PhysicalPhase(s, p) ==
  PhysicalAt(s, <<"meter_power", p>>, <<"meter_voltage", p>>, <<"meter_current", p>>)
PhysicalString(s, i) ==
  PhysicalAt(s, <<"pv_power", i>>, <<"pv_voltage", i>>, <<"pv_current", i>>)

PhysicalInv ==
  /\ cfg.em540_bridge.synthetic_grid_export_enabled =>
       \A p \in Phases : PhysicalPhase(snapshot, p)
  /\ cfg.fronius.synthetic_pv_enabled => \A i \in 1 .. 2 : PhysicalString(snapshot, i)

LEMMA PhysicalKeys ==
  /\ \A p \in Phases : PhaseKeys(p) \subseteq Fields /\ PhaseKeys(p) \subseteq MeterFields
  /\ \A i \in 1 .. 2 : /\ StringKeys(i) \subseteq Fields
                       /\ StringKeys(i) \subseteq InverterFields \cup PvFields
<1>1. /\ \A p \in Phases : PhaseKeys(p) \subseteq MeterFields
      /\ \A i \in 1 .. 2 : StringKeys(i) \subseteq PvFields
  BY DEF PhaseKeys, StringKeys, MeterFields, PvFields, Phases, Strings
<1>2. MeterFields \subseteq Fields /\ PvFields \subseteq Fields
  BY DEF Fields
<1> QED  BY <1>1, <1>2, Zenon

LEMMA DefaultsPhysical ==
  /\ \A p \in Phases : PhysicalPhase(Defaults, p)
  /\ \A i \in 1 .. 2 : PhysicalString(Defaults, i)
<1>1. Physical(0, 230000, 0) /\ Physical(0, 0, 0)
  BY DEF Physical, Size
<1>2. ASSUME NEW p \in Phases PROVE PhysicalPhase(Defaults, p)
  <2>1. /\ <<"meter_power", p>> \in Fields /\ <<"meter_voltage", p>> \in Fields
        /\ <<"meter_current", p>> \in Fields
    BY PhysicalKeys DEF PhaseKeys
  <2>2. /\ Defaults[<<"meter_power", p>>] = 0 /\ Defaults[<<"meter_voltage", p>>] = 230000
        /\ Defaults[<<"meter_current", p>>] = 0
    BY <2>1 DEF Defaults
  <2> QED  BY <1>1, <2>2 DEF PhysicalPhase, PhysicalAt
<1>3. ASSUME NEW i \in 1 .. 2 PROVE PhysicalString(Defaults, i)
  <2>1. /\ <<"pv_power", i>> \in Fields /\ <<"pv_voltage", i>> \in Fields
        /\ <<"pv_current", i>> \in Fields
    BY PhysicalKeys DEF StringKeys
  <2>2. /\ Defaults[<<"pv_power", i>>] = 0 /\ Defaults[<<"pv_voltage", i>>] = 0
        /\ Defaults[<<"pv_current", i>>] = 0
    BY <2>1 DEF Defaults
  <2> QED  BY <1>1, <2>2 DEF PhysicalString, PhysicalAt
<1> QED  BY <1>2, <1>3

\* A merge replaces all three of them or none.
LEMMA MergedTogether ==
  ASSUME NEW s, NEW u, NEW c, NEW data, NEW power, NEW voltage, NEW current,
         {power, voltage, current} \subseteq Fields,
         \A f \in {power, voltage, current} : From(u, f, c, data),
         c.enabled => {power, voltage, current} \subseteq DOMAIN data,
         c.enabled => PhysicalAt(data, power, voltage, current),
         PhysicalAt(s, power, voltage, current)
  PROVE  PhysicalAt(Merge(s, u), power, voltage, current)
<1>1. CASE c.enabled
  <2>1. /\ Merge(s, u)[power] = data[power] /\ Merge(s, u)[voltage] = data[voltage]
        /\ Merge(s, u)[current] = data[current]
    BY <1>1 DEF From, Merge
  <2> QED  BY <1>1, <2>1 DEF PhysicalAt
<1>2. CASE ~c.enabled
  <2>1. /\ Merge(s, u)[power] = s[power] /\ Merge(s, u)[voltage] = s[voltage]
        /\ Merge(s, u)[current] = s[current]
    BY <1>2 DEF From, Merge
  <2> QED  BY <2>1 DEF PhysicalAt
<1> QED  BY <1>1, <1>2

LEMMA PhysicalStep == PublishedInv /\ PhysicalInv /\ [Next]_vars => PhysicalInv'
<1> SUFFICES ASSUME PublishedInv, PhysicalInv, [Next]_vars PROVE PhysicalInv'
  OBVIOUS
<1>1. ASSUME NEW m \in plant.meters, NEW i \in plant.inverters, NEW b \in plant.batteries,
             NEW answered, NEW short \in BOOLEAN, Refresh(m, i, b, answered, short)
      PROVE  PhysicalInv'
  <2>1. PICK words \in Em540Replies(plant.base, Em540Registers(m)) :
          \E update \in Delivered(words, i, b, answered, short) :
            snapshot' = Merge(snapshot, update) /\ UNCHANGED <<cfg, plant>>
    BY <1>1 DEF Refresh
  <2>2. PICK u \in Delivered(words, i, b, answered, short) :
          snapshot' = Merge(snapshot, u) /\ UNCHANGED <<cfg, plant>>
    BY <2>1
  <2>3. Setting
    BY DEF PublishedInv
  <2>4. /\ \A f \in MeterFields : From(u, f, cfg.em540_bridge, MeterUpdate(words))
        /\ \A f \in InverterFields \cup PvFields :
             From(u, f, cfg.fronius, InverterUpdate(i, answered, short))
    BY <2>3, RefreshDelivers, SourceOf
  <2>5. ASSUME cfg.em540_bridge.synthetic_grid_export_enabled, NEW p \in Phases
        PROVE  PhysicalPhase(Merge(snapshot, u), p)
    <3>1. cfg.em540_bridge.enabled =>
            /\ PhaseKeys(p) \subseteq DOMAIN MeterUpdate(words)
            /\ PhysicalPhase(MeterUpdate(words), p)
      <4> SUFFICES ASSUME cfg.em540_bridge.enabled
                   PROVE  /\ PhaseKeys(p) \subseteq DOMAIN MeterUpdate(words)
                          /\ PhysicalPhase(MeterUpdate(words), p)
        OBVIOUS
      <4>1. IsValidEm540(MeterUpdate(words))
        BY MeterIsValid
      <4>2. m \in [MeterFields \ AddedUp -> Int]
        BY <2>3, PlantsAssumption DEF Setting
      <4>3. words \in [0 .. Count - 1 -> Int]
        BY <4>2, BridgeRegisters, BridgeReplies
      <4>4. cfg.em540_bridge.synthetic_grid_total_power_w \in Int
        BY <2>3, ConfigurationsAssumption DEF Setting
      <4>5. Payload(Em540Values(words), MeterFields) /\ WholeTenths(Em540Values(words))
        BY <4>3, Em540Payload
      <4> QED  BY <2>5, <4>1, <4>4, <4>5, ExportIsPhysical
               DEF MeterUpdate, PhaseKeys, PhysicalPhase, PhysicalAt
    <3>2. PhysicalPhase(snapshot, p)
      BY <2>5 DEF PhysicalInv
    <3>3. PhaseKeys(p) \subseteq Fields /\ PhaseKeys(p) \subseteq MeterFields
      BY PhysicalKeys
    <3> QED  BY <2>4, <3>1, <3>2, <3>3, MergedTogether DEF PhaseKeys, PhysicalPhase
  <2>6. ASSUME cfg.fronius.synthetic_pv_enabled, NEW k \in 1 .. 2
        PROVE  PhysicalString(Merge(snapshot, u), k)
    <3>1. /\ StringKeys(k) \subseteq DOMAIN InverterUpdate(i, answered, short)
          /\ PhysicalString(InverterUpdate(i, answered, short), k)
      <4>1. /\ cfg.fronius.synthetic_pv_total_power_w \in Int
            /\ cfg.fronius.synthetic_pv1_voltage_v \in Int
            /\ cfg.fronius.synthetic_pv2_voltage_v \in Int
        BY <2>3, ConfigurationsAssumption DEF Setting
      <4> QED  BY <2>6, <4>1, SyntheticPvIsPhysical
               DEF InverterUpdate, StringKeys, PhysicalString, PhysicalAt
    <3>2. PhysicalString(snapshot, k)
      BY <2>6 DEF PhysicalInv
    <3>3. StringKeys(k) \subseteq Fields /\ StringKeys(k) \subseteq InverterFields \cup PvFields
      BY PhysicalKeys
    <3> QED  BY <2>4, <3>1, <3>2, <3>3, MergedTogether DEF StringKeys, PhysicalString
  <2>7. \A f : snapshot'[f] = Merge(snapshot, u)[f]
    BY <2>2
  <2> QED  BY <2>2, <2>5, <2>6, <2>7 DEF PhysicalInv, PhysicalPhase, PhysicalString, PhysicalAt
<1>2. CASE Next
  BY <1>1, <1>2 DEF Next
<1>3. CASE UNCHANGED vars
  BY <1>3 DEF vars, PhysicalInv, PhysicalPhase, PhysicalString, PhysicalAt
<1> QED  BY <1>2, <1>3

LEMMA ProductsGrow ==
  ASSUME NEW a \in Int, NEW b \in Int, NEW n \in Int, a <= b, 0 <= n
  PROVE  a * n <= b * n
OBVIOUS

\* What is shown of a power, a voltage and a current that go together.
LEMMA ShownIsPhysical ==
  ASSUME NEW power \in Int, NEW v \in Int, NEW c \in Int, Physical(power, v, c),
         NEW voltage \in Int, NEW current \in Int, voltage >= 0, current >= 0,
         Close(v, 100, voltage), Close(c, 100, current)
  PROVE  SyntheticMatches(power, voltage, current)
<1> DEFINE k == v \div 100
           S == Size(power)
<1>1. k \in Int /\ 100 * k <= v /\ v < 100 * k + 100 /\ k >= 0 /\ S \in Int /\ S >= 0
  BY DEF Size, Physical
<1>2. c >= 0 /\ k * c <= 10000 * S /\ 10000 * S <= k * c + k
  BY DEF Physical
<1>3. k - 1 <= voltage /\ voltage <= k + 1
  BY <1>1 DEF Close
<1>4. c - 100 <= 100 * current /\ 100 * current <= c + 100
  BY DEF Close
<1> HIDE DEF k, S
<1> DEFINE kI == k * current
           kc == k * c
           VI == voltage * current
<1>5. kI \in Int /\ kc \in Int /\ VI \in Int
  BY <1>1
<1>6. kc - 100 * k <= 100 * kI /\ 100 * kI <= kc + 100 * k
  <2>1. (c - 100) * k <= (100 * current) * k /\ (100 * current) * k <= (c + 100) * k
    BY <1>1, <1>4, ProductsGrow
  <2>2. /\ (c - 100) * k = kc - 100 * k /\ (100 * current) * k = 100 * kI
        /\ (c + 100) * k = kc + 100 * k
    BY <1>1
  <2> QED  BY <2>1, <2>2
<1>7. kI - current <= VI /\ VI <= kI + current
  <2>1. (k - 1) * current <= voltage * current /\ voltage * current <= (k + 1) * current
    BY <1>1, <1>3, ProductsGrow
  <2>2. (k - 1) * current = kI - current /\ (k + 1) * current = kI + current
    BY <1>1
  <2> QED  BY <2>1, <2>2
<1>8. kc <= 10000 * S /\ 10000 * S <= kc + k
  BY <1>2
<1> HIDE DEF kI, kc, VI
<1>9. /\ 100 * S - (2 * (voltage + current) + 4) <= VI
      /\ VI <= 100 * S + (2 * (voltage + current) + 4)
  BY <1>1, <1>3, <1>5, <1>6, <1>7, <1>8
<1>10. 100 * S = 100 * (IF power < 0 THEN -power ELSE power)
  BY DEF S, Size
<1> QED  BY <1>9, <1>10 DEF SyntheticMatches, VI

LEMMA TenthIsRead ==
  ASSUME LaidOut(registers), NEW a \in Int, NEW v \in Int, v >= 0,
         Carries("u16", a, 100, v), FitsInto("u16", v \div 100)
  PROVE  Held(a) \in Int /\ Held(a) >= 0 /\ Close(v, 100, Held(a))
<1>1. Holds("u16", v \div 100)
  BY DEF Holds
<1>2. PICK k \in Int : Encoded("u16", a, k) \subseteq registers /\ Holds("u16", k)
                       /\ Close(v, 100, k)
  BY <1>1 DEF Carries
<1>3. Decoded("u16", a) = k
  BY <1>2, Literals, ReadBack
<1>4. Held(a) = k
  BY <1>3 DEF Decoded
<1>5. k >= 0
  BY <1>2 DEF Holds
<1> QED  BY <1>2, <1>4, <1>5

LEMMA DoubleIsRead ==
  ASSUME LaidOut(registers), NEW kind \in Doubles, NEW a \in Int, NEW v \in Int,
         Carries(kind, a, 1, v), Holds(kind, v)
  PROVE  Decoded(kind, a) = v
<1>1. v \div 1 = v
  OBVIOUS
<1>2. kind \in Kinds
  BY DEF Kinds, Doubles
<1> QED  BY <1>1, <1>2, CarriedIsRead

\* One triple of the register table.
LEMMA TripleIsPhysical ==
  ASSUME LaidOut(registers), snapshot \in [Fields -> Int], NEW kind \in Doubles,
         NEW power \in Fields, NEW voltage \in Fields, NEW current \in Fields,
         NEW a \in Int, NEW b \in Int, NEW c \in Int,
         Carries(kind, a, 1, snapshot[power]), Carries("u16", b, 100, snapshot[voltage]),
         Carries("u16", c, 100, snapshot[current]),
         PhysicalAt(snapshot, power, voltage, current),
         InRange(kind, power, voltage, current), Holds(kind, snapshot[power])
  PROVE  SyntheticMatches(Decoded(kind, a), Held(b), Held(c))
<1> DEFINE P == snapshot[power]
           V == snapshot[voltage]
           C == snapshot[current]
<1>1. P \in Int /\ V \in Int /\ C \in Int /\ Physical(P, V, C)
  BY DEF PhysicalAt
<1>2. V >= 0 /\ C >= 0
  BY <1>1 DEF Physical
<1>3. FitsInto("u16", V \div 100) /\ FitsInto("u16", C \div 100)
  BY DEF InRange
<1>4. Carries(kind, a, 1, P) /\ Carries("u16", b, 100, V) /\ Carries("u16", c, 100, C)
      /\ Holds(kind, P)
  OBVIOUS
<1> HIDE DEF P, V, C
<1>5. Decoded(kind, a) = P
  BY <1>1, <1>4, DoubleIsRead
<1>6. Held(b) \in Int /\ Held(b) >= 0 /\ Close(V, 100, Held(b))
  BY <1>1, <1>2, <1>3, <1>4, TenthIsRead
<1>7. Held(c) \in Int /\ Held(c) >= 0 /\ Close(C, 100, Held(c))
  BY <1>1, <1>2, <1>3, <1>4, TenthIsRead
<1> QED  BY <1>1, <1>5, <1>6, <1>7, ShownIsPhysical

\* What SyntheticIsPhysical says of one phase and of one string.
PhaseMatches(p) ==
  InRange("i32", <<"meter_power", p>>, <<"meter_voltage", p>>, <<"meter_current", p>>) =>
    SyntheticMatches(Decoded("i32", 36017 + 2 * p), Held(36051 + p), Held(36054 + p))
StringMatches(i) ==
  InRange("u32", <<"pv_power", i>>, <<"pv_voltage", i>>, <<"pv_current", i>>) =>
    SyntheticMatches(Decoded("u32", 35101 + 4 * i), Held(35099 + 4 * i), Held(35100 + 4 * i))
AllMatch ==
  registers # {} =>
    /\ cfg.em540_bridge.synthetic_grid_export_enabled => \A p \in Phases : PhaseMatches(p)
    /\ cfg.fronius.synthetic_pv_enabled => \A i \in 1 .. 2 : StringMatches(i)

\* Where the program invents a power, what a master reads of it, of its voltage and of its
\* current goes together as long as the registers can hold the three: after any number of
\* refreshes, for the meter's phases (_apply_em540_synthetic_grid_export) with whatever
\* voltages are measured, and for the strings (_apply_fronius_synthetic_pv), before the
\* first delivery of a source and after it.
THEOREM InventedPowersArePhysical == Spec => []SyntheticIsPhysical
<1>1. PublishedInv /\ MapInv /\ PhysicalInv /\ PartsInv => AllMatch
  <2> SUFFICES ASSUME PublishedInv, MapInv, PhysicalInv, PartsInv, registers # {}
               PROVE  AllMatch
    BY Zenon DEF AllMatch
  <2>1. PICK short \in BOOLEAN :
          registers = BuildRegisterMap(snapshot, cfg.goodwe_emulator, short)
    BY DEF MapInv
  <2>2. LaidOut(registers) /\ snapshot \in [Fields -> Int]
    BY DEF PublishedInv
  <2>3. /\ RuntimeData(snapshot, short) \subseteq registers
        /\ MeterData(snapshot, short) \subseteq registers
    BY <2>1 DEF BuildRegisterMap
  <2>4. ASSUME cfg.em540_bridge.synthetic_grid_export_enabled, NEW p \in Phases,
               InRange("i32", <<"meter_power", p>>, <<"meter_voltage", p>>,
                       <<"meter_current", p>>)
        PROVE  SyntheticMatches(Decoded("i32", 36017 + 2 * p), Held(36051 + p),
                                Held(36054 + p))
    <3> DEFINE a == 36017 + 2 * p
               b == 36051 + p
               c == 36054 + p
    <3>1. a \in Int /\ b \in Int /\ c \in Int
      BY DEF Phases
    <3>2. /\ Carries("i32", a, 1, snapshot[<<"meter_power", p>>])
          /\ Carries("u16", b, 100, snapshot[<<"meter_voltage", p>>])
          /\ Carries("u16", c, 100, snapshot[<<"meter_current", p>>])
      <4>1. MeterPhaseCarries(p)
        BY <2>2, <2>3, MeterCarried, MeterPhaseCarried, Zenon
      <4>2. /\ Encoded("i32", a, snapshot[<<"meter_power", p>>]) \subseteq registers
            /\ Carries("u16", b, 100, snapshot[<<"meter_voltage", p>>])
            /\ Carries("u16", c, 100, snapshot[<<"meter_current", p>>])
        BY <4>1 DEF MeterPhaseCarries, Written
      <4> HIDE DEF a, b, c
      <4>3. snapshot[<<"meter_power", p>>] \in Int
        BY <2>2, PhysicalKeys DEF PhaseKeys
      <4> QED  BY <4>2, <4>3, Literals, WholeCarried
    <3> HIDE DEF a, b, c
    <3>3. /\ <<"meter_power", p>> \in Fields /\ <<"meter_voltage", p>> \in Fields
          /\ <<"meter_current", p>> \in Fields
      BY PhysicalKeys DEF PhaseKeys
    <3>4. PhysicalAt(snapshot, <<"meter_power", p>>, <<"meter_voltage", p>>,
                     <<"meter_current", p>>)
      BY <2>4 DEF PhysicalInv, PhysicalPhase
    <3>5. "i32" \in Doubles /\ Holds("i32", snapshot[<<"meter_power", p>>])
      BY <2>4 DEF InRange, Holds, Doubles
    <3>6. SyntheticMatches(Decoded("i32", a), Held(b), Held(c))
      BY <2>2, <2>4, <3>1, <3>2, <3>3, <3>4, <3>5, TripleIsPhysical
    <3> QED  BY <3>6 DEF a, b, c
  <2>5. ASSUME cfg.fronius.synthetic_pv_enabled, NEW i \in 1 .. 2,
               InRange("u32", <<"pv_power", i>>, <<"pv_voltage", i>>, <<"pv_current", i>>)
        PROVE  SyntheticMatches(Decoded("u32", 35101 + 4 * i), Held(35099 + 4 * i),
                                Held(35100 + 4 * i))
    <3> DEFINE a == 35101 + 4 * i
               b == 35099 + 4 * i
               c == 35100 + 4 * i
    <3>0. i \in Strings
      BY DEF Strings
    <3>1. a \in Int /\ b \in Int /\ c \in Int
      BY DEF Strings
    <3>2. /\ Carries("u32", a, 1, snapshot[<<"pv_power", i>>])
          /\ Carries("u16", b, 100, snapshot[<<"pv_voltage", i>>])
          /\ Carries("u16", c, 100, snapshot[<<"pv_current", i>>])
      <4>1. StringCarries(i)
        BY <2>2, <2>3, <3>0, RuntimeCarried, StringCarried, Zenon
      <4> QED  BY <4>1 DEF StringCarries
    <3> HIDE DEF a, b, c
    <3>3. /\ <<"pv_power", i>> \in Fields /\ <<"pv_voltage", i>> \in Fields
          /\ <<"pv_current", i>> \in Fields
      BY PhysicalKeys DEF StringKeys
    <3>4. PhysicalAt(snapshot, <<"pv_power", i>>, <<"pv_voltage", i>>, <<"pv_current", i>>)
      BY <2>5 DEF PhysicalInv, PhysicalString
    <3>5. snapshot[<<"pv_power", i>>] >= 0
      <4>1. TwoStrings(snapshot)
        BY <2>5 DEF PartsInv
      <4>2. PICK x \in Nat, y \in Nat :
              HasParts(snapshot, "pv_power", WithTotal(x + y, <<x, y, 0, 0>>))
        BY <4>1 DEF TwoStrings
      <4> DEFINE parts == <<x, y, 0, 0>>
      <4>3. DOMAIN parts = 1 .. 4 /\ parts[i] \in Nat
        OBVIOUS
      <4> HIDE DEF parts
      <4>4. /\ DOMAIN WithTotal(x + y, parts) = 0 .. 4
            /\ WithTotal(x + y, parts)[i] = parts[i]
        BY <4>3, TotalAndParts
      <4>5. i \in 0 .. 4
        OBVIOUS
      <4>6. snapshot[<<"pv_power", i>>] = parts[i]
        BY <4>2, <4>4, <4>5 DEF HasParts, parts
      <4> QED  BY <4>3, <4>6
    <3>6. "u32" \in Doubles /\ Holds("u32", snapshot[<<"pv_power", i>>])
      BY <2>5, <3>5 DEF InRange, Holds, Doubles
    <3>7. SyntheticMatches(Decoded("u32", a), Held(b), Held(c))
      BY <2>2, <2>5, <3>1, <3>2, <3>3, <3>4, <3>6, TripleIsPhysical
    <3> QED  BY <3>7 DEF a, b, c
  <2>6. \A p \in Phases : cfg.em540_bridge.synthetic_grid_export_enabled => PhaseMatches(p)
    BY <2>4 DEF PhaseMatches
  <2>7. \A i \in 1 .. 2 : cfg.fronius.synthetic_pv_enabled => StringMatches(i)
    BY <2>5 DEF StringMatches
  <2> QED  BY <2>6, <2>7, Zenon DEF AllMatch
<1>2. Init => MapInv /\ PhysicalInv
  BY DefaultsPhysical DEF Init, MapInv, PhysicalInv
<1>3. AllMatch => SyntheticIsPhysical
  BY DEF AllMatch, PhaseMatches, StringMatches, SyntheticIsPhysical
<1> QED  BY <1>1, <1>2, <1>3, MapStep, PublishedInit, PublishedStep, PhysicalStep, PartsInit,
            PartsStep, PTL DEF Spec

------------------------------------------------------------------------------
(* What the devices measured *)

LEMMA KnownOf ==
  ASSUME Setting, NEW m \in plant.meters, NEW i \in plant.inverters, NEW b \in plant.batteries,
         NEW answered
  PROVE  LET known == Known(m, i, b, answered)
         IN  /\ \A f \in MeterFields \cap DOMAIN known : f \in DOMAIN m /\ known[f] = m[f]
             /\ \A f \in InverterFields \cap DOMAIN known :
                  /\ f \in InverterMeasures(plant.inverter)
                  /\ f \in DOMAIN i \/ plant.inverter.model \notin FloatModels
                  /\ known[f] = SaidOf(i, f)
             /\ \A f \in PvFields \cap DOMAIN known :
                  /\ f \in PvMeasures(cfg.fronius, plant.inverter, i, answered)
                  /\ f \in DOMAIN i /\ known[f] = i[f]
             /\ \A f \in BatteryFields \cap DOMAIN known : known[f] = b[f]
<1> DEFINE integers == IF plant.inverter.model \in FloatModels THEN {} ELSE Fields
           measures == InverterMeasures(plant.inverter)
           read == PvMeasures(cfg.fronius, plant.inverter, i, answered)
           meter == Said(m, MeterFields, {})
           inverter == Said(i, measures, integers)
           strings == Said(i, read, {})
           battery == Said(b, BatteryFields, {})
           maps == {meter, inverter, strings, battery}
           known == Known(m, i, b, answered)
<1>1. known = Joined(maps)
  BY DEF Known
<1>2. measures \subseteq InverterFields /\ read \subseteq PvFields
  BY DEF InverterMeasures, PvMeasures
<1>3. ASSUME NEW reading, NEW fields, NEW zero, NEW f \in DOMAIN Said(reading, fields, zero)
      PROVE  /\ f \in fields /\ f \in (DOMAIN reading) \cup zero
             /\ Said(reading, fields, zero)[f] = SaidOf(reading, f)
  BY DEF Said, SaidOf
<1> HIDE DEF measures, read, known
<1>4. \A f : /\ f \in DOMAIN meter => f \in MeterFields
             /\ f \in DOMAIN inverter => f \in InverterFields
             /\ f \in DOMAIN strings => f \in PvFields
             /\ f \in DOMAIN battery => f \in BatteryFields
  BY <1>2, <1>3
<1>5. \A f \in InverterFields : f \notin PvFields
  <2>1. /\ \A f \in PvFields : f[1] \in {"pv_power", "pv_voltage", "pv_current"}
        /\ \A f \in InverterFields : f[1] \notin {"pv_power", "pv_voltage", "pv_current"}
    BY DEF PvFields, InverterFields
  <2> QED  BY <2>1
<1>6. /\ meter \in maps /\ inverter \in maps /\ strings \in maps /\ battery \in maps
      /\ \A n \in maps : n = meter \/ n = inverter \/ n = strings \/ n = battery
  OBVIOUS
<1> HIDE DEF maps
<1>7. ASSUME NEW f \in MeterFields \cap DOMAIN known
      PROVE  f \in DOMAIN m /\ known[f] = m[f]
  <2>1. \A n \in maps : n = meter \/ f \notin DOMAIN n
    BY <1>4, <1>6, FieldsApart, Zenon
  <2>2. f \in DOMAIN meter /\ known[f] = meter[f]
    BY <1>1, <1>6, <2>1, JoinedOwn
  <2> QED  BY <1>3, <2>2 DEF SaidOf
<1>8. ASSUME NEW f \in InverterFields \cap DOMAIN known
      PROVE  /\ f \in measures
             /\ f \in DOMAIN i \/ plant.inverter.model \notin FloatModels
             /\ known[f] = SaidOf(i, f)
  <2>1. \A n \in maps : n = inverter \/ f \notin DOMAIN n
    BY <1>4, <1>5, <1>6, FieldsApart, Zenon
  <2>2. f \in DOMAIN inverter /\ known[f] = inverter[f]
    BY <1>1, <1>6, <2>1, JoinedOwn
  <2> QED  BY <1>3, <2>2
<1>9. ASSUME NEW f \in PvFields \cap DOMAIN known
      PROVE  f \in read /\ f \in DOMAIN i /\ known[f] = i[f]
  <2>1. \A n \in maps : n = strings \/ f \notin DOMAIN n
    BY <1>4, <1>5, <1>6, FieldsApart, Zenon
  <2>2. f \in DOMAIN strings /\ known[f] = strings[f]
    BY <1>1, <1>6, <2>1, JoinedOwn
  <2> QED  BY <1>3, <2>2 DEF SaidOf
<1>10. ASSUME NEW f \in BatteryFields \cap DOMAIN known
       PROVE  known[f] = b[f]
  <2>1. \A n \in maps : n = battery \/ f \notin DOMAIN n
    BY <1>4, <1>6, FieldsApart, Zenon
  <2>2. f \in DOMAIN battery /\ known[f] = battery[f]
    BY <1>1, <1>6, <2>1, JoinedOwn
  <2> QED  BY <1>3, <2>2 DEF SaidOf
<1>11. /\ \A f \in MeterFields \cap DOMAIN known : f \in DOMAIN m /\ known[f] = m[f]
       /\ \A f \in InverterFields \cap DOMAIN known :
            /\ f \in measures
            /\ f \in DOMAIN i \/ plant.inverter.model \notin FloatModels
            /\ known[f] = SaidOf(i, f)
       /\ \A f \in PvFields \cap DOMAIN known : f \in read /\ f \in DOMAIN i /\ known[f] = i[f]
       /\ \A f \in BatteryFields \cap DOMAIN known : known[f] = b[f]
  BY <1>7, <1>8, <1>9, <1>10, Zenon
<1> QED  BY <1>11, Zenon DEF measures, read, known

------------------------------------------------------------------------------
(* What the meter measures *)

\* A number of 32 bits, or of 16, in the registers of a bridge.
Pair(regs, a, v) == regs[a] = LowWord(v) /\ regs[a + 1] = HighWord(v)

LEMMA LowWords ==
  ASSUME NEW a \in Int, NEW b \in Int, b = a + 1, NEW v \in Int
  PROVE  Layout(PutLow32(a, v), a, b)
<1>1. LowWord(v) \in Word /\ HighWord(v) \in Word
  BY WordsFit, WordRange
<1> QED  BY <1>1 DEF Layout, PutLow32

\* The registers of one phase, without its energy.
PhaseWords(r, p) ==
  <<PutLow32(VoltageOf(p), r[<<"meter_voltage", p>>] \div 100),
    PutLow32(VoltageOf(p) + 2, r[<<"meter_current", p>>]),
    PutLow32(VoltageOf(p) + 4, r[<<"meter_power", p>>]),
    PutLow32(VoltageOf(p) + 6, r[<<"meter_apparent_power", p>>]),
    PutLow32(VoltageOf(p) + 8, r[<<"meter_reactive_power", p>>]),
    PutI16(VoltageOf(p) + 11, r[<<"meter_power_factor", p>>])>>

LEMMA PhaseFields ==
  ASSUME NEW r \in [MeterFields \ AddedUp -> Int], NEW p \in Phases
  PROVE  /\ r[<<"meter_voltage", p>>] \in Int /\ r[<<"meter_current", p>>] \in Int
         /\ r[<<"meter_power", p>>] \in Int /\ r[<<"meter_apparent_power", p>>] \in Int
         /\ r[<<"meter_reactive_power", p>>] \in Int /\ r[<<"meter_power_factor", p>>] \in Int
         /\ r[<<"meter_energy_import", p>>] \in Int
         /\ r[<<"meter_voltage", p>>] \div 100 \in Int
         /\ r[<<"meter_energy_import", p>>] \div 10 \in Int
<1>1. /\ r[<<"meter_voltage", p>>] \in Int /\ r[<<"meter_current", p>>] \in Int
      /\ r[<<"meter_power", p>>] \in Int /\ r[<<"meter_apparent_power", p>>] \in Int
      /\ r[<<"meter_reactive_power", p>>] \in Int /\ r[<<"meter_power_factor", p>>] \in Int
      /\ r[<<"meter_energy_import", p>>] \in Int
  BY DEF MeterFields, AddedUp, Phases
<1>2. \A x \in Int : x \div 100 \in Int /\ x \div 10 \in Int
  OBVIOUS
<1> QED  BY <1>1, <1>2, Zenon

LEMMA TotalFields ==
  ASSUME NEW r \in [MeterFields \ AddedUp -> Int]
  PROVE  /\ r[<<"meter_power", 0>>] \in Int /\ r[<<"meter_power_factor", 0>>] \in Int
         /\ r[<<"meter_frequency", 0>>] \in Int /\ r[<<"meter_energy_import", 0>>] \in Int
         /\ r[<<"meter_energy_export", 0>>] \in Int
         /\ r[<<"meter_frequency", 0>>] \div 100 \in Int
         /\ r[<<"meter_energy_import", 0>>] \div 10 \in Int
         /\ r[<<"meter_energy_export", 0>>] \div 10 \in Int
<1>1. /\ r[<<"meter_power", 0>>] \in Int /\ r[<<"meter_power_factor", 0>>] \in Int
      /\ r[<<"meter_frequency", 0>>] \in Int /\ r[<<"meter_energy_import", 0>>] \in Int
      /\ r[<<"meter_energy_export", 0>>] \in Int
  BY DEF MeterFields, AddedUp
<1>2. \A x \in Int : x \div 100 \in Int /\ x \div 10 \in Int
  OBVIOUS
<1> QED  BY <1>1, <1>2, Zenon

LEMMA PhaseBlock ==
  ASSUME NEW r \in [MeterFields \ AddedUp -> Int], NEW p \in Phases
  PROVE  Layout(Whole(PhaseWords(r, p), 6), VoltageOf(p), VoltageOf(p) + 11)
<1> DEFINE a == VoltageOf(p)
           B == PhaseWords(r, p)
<1>1. a \in Int
  BY DEF VoltageOf, Phases
<1> DEFINE v == r[<<"meter_voltage", p>>] \div 100
           c == r[<<"meter_current", p>>]
           w == r[<<"meter_power", p>>]
           s == r[<<"meter_apparent_power", p>>]
           q == r[<<"meter_reactive_power", p>>]
           f == r[<<"meter_power_factor", p>>]
<1>2. v \in Int /\ c \in Int /\ w \in Int /\ s \in Int /\ q \in Int /\ f \in Int
  BY PhaseFields, Zenon
<1>3. /\ B[1] = PutLow32(a, v) /\ B[2] = PutLow32(a + 2, c) /\ B[3] = PutLow32(a + 4, w)
      /\ B[4] = PutLow32(a + 6, s) /\ B[5] = PutLow32(a + 8, q) /\ B[6] = PutI16(a + 11, f)
  <2>1. B = <<PutLow32(a, v), PutLow32(a + 2, c), PutLow32(a + 4, w), PutLow32(a + 6, s),
              PutLow32(a + 8, q), PutI16(a + 11, f)>>
    BY DEF PhaseWords
  <2> HIDE DEF a, B, v, c, w, s, q, f
  <2> QED  BY <2>1
<1> HIDE DEF a, B, v, c, w, s, q, f
<1>4. /\ Layout(B[1], a, a + 1) /\ Layout(B[2], a + 2, a + 3) /\ Layout(B[3], a + 4, a + 5)
      /\ Layout(B[4], a + 6, a + 7) /\ Layout(B[5], a + 8, a + 9)
      /\ Layout(B[6], a + 11, a + 11)
  BY <1>1, <1>2, <1>3, LowWords, OneWord
<1> DEFINE lo == <<a, a + 2, a + 4, a + 6, a + 8, a + 11>>
           hi == <<a + 1, a + 3, a + 5, a + 7, a + 9, a + 11>>
<1>5. /\ lo[1] = a /\ lo[2] = a + 2 /\ lo[3] = a + 4 /\ lo[4] = a + 6 /\ lo[5] = a + 8
      /\ lo[6] = a + 11 /\ hi[1] = a + 1 /\ hi[2] = a + 3 /\ hi[3] = a + 5 /\ hi[4] = a + 7
      /\ hi[5] = a + 9 /\ hi[6] = a + 11
  OBVIOUS
<1> HIDE DEF lo, hi
<1>6. \A i \in 1 .. 6 : /\ Layout(B[i], lo[i], hi[i])
                        /\ lo[i] \in Int /\ hi[i] \in Int /\ a <= lo[i] /\ hi[i] <= a + 11
  <2> TAKE i \in 1 .. 6
  <2>1. i = 1 \/ i = 2 \/ i = 3 \/ i = 4 \/ i = 5 \/ i = 6
    OBVIOUS
  <2> QED  BY <1>1, <1>4, <1>5, <2>1
<1>7. \A i, j \in 1 .. 6 : i < j => hi[i] < lo[j]
  BY <1>1, <1>5
<1>8. Stack(B, 6, lo, hi, a, a + 11)
  BY <1>1, <1>6, <1>7 DEF Stack
<1> QED  BY <1>8, Blocks DEF a, B

\* The bridge's registers, each quantity in its own.
PhaseHeld(r, p) ==
  UNION {PutLow32(VoltageOf(p), r[<<"meter_voltage", p>>] \div 100),
         PutLow32(VoltageOf(p) + 2, r[<<"meter_current", p>>]),
         PutLow32(VoltageOf(p) + 4, r[<<"meter_power", p>>]),
         PutLow32(VoltageOf(p) + 6, r[<<"meter_apparent_power", p>>]),
         PutLow32(VoltageOf(p) + 8, r[<<"meter_reactive_power", p>>]),
         PutI16(VoltageOf(p) + 11, r[<<"meter_power_factor", p>>]),
         PutLow32(330 + 2 * p, r[<<"meter_energy_import", p>>] \div 10)}
MeterHeld(r) ==
  UNION {UNION {PhaseHeld(r, p) : p \in Phases},
         PutLow32(262, r[<<"meter_power", 0>>]),
         PutI16(269, r[<<"meter_power_factor", 0>>]),
         PutI16(272, r[<<"meter_frequency", 0>>] \div 100),
         PutLow32(274, r[<<"meter_energy_import", 0>>] \div 10),
         PutLow32(278, r[<<"meter_energy_export", 0>>] \div 10)}

LEMMA OneWordEach ==
  ASSUME NEW r \in [MeterFields \ AddedUp -> Int]
  PROVE  \A v, w \in MeterHeld(r) : v[1] = w[1] => v = w
<1> DEFINE energy(p) == r[<<"meter_energy_import", p>>] \div 10
           active == r[<<"meter_power", 0>>]
           factor == r[<<"meter_power_factor", 0>>]
           frequency == r[<<"meter_frequency", 0>>] \div 100
           export == r[<<"meter_energy_export", 0>>] \div 10
           B == <<PutLow32(262, active), PutI16(269, factor), PutI16(272, frequency),
                  PutLow32(274, energy(0)), PutLow32(278, export), Whole(PhaseWords(r, 1), 6),
                  Whole(PhaseWords(r, 2), 6), Whole(PhaseWords(r, 3), 6),
                  PutLow32(332, energy(1)), PutLow32(334, energy(2)), PutLow32(336, energy(3))>>
<1>1. /\ active \in Int /\ factor \in Int /\ frequency \in Int /\ export \in Int
      /\ energy(0) \in Int
  BY TotalFields, Zenon
<1>2. energy(1) \in Int /\ energy(2) \in Int /\ energy(3) \in Int
  <2>1. \A p \in Phases : energy(p) \in Int
    BY PhaseFields, Zenon
  <2> HIDE DEF energy
  <2> QED  BY <2>1 DEF Phases
<1> HIDE DEF energy, active, factor, frequency, export
<1>3. /\ Layout(B[1], 262, 263) /\ Layout(B[4], 274, 275) /\ Layout(B[5], 278, 279)
      /\ Layout(B[9], 332, 333) /\ Layout(B[10], 334, 335) /\ Layout(B[11], 336, 337)
  BY <1>1, <1>2, LowWords
<1>4. Layout(B[2], 269, 269) /\ Layout(B[3], 272, 272)
  BY <1>1, OneWord
<1>5. Layout(B[6], 288, 299) /\ Layout(B[7], 302, 313) /\ Layout(B[8], 316, 327)
  <2>1. \A p \in Phases : Layout(Whole(PhaseWords(r, p), 6), VoltageOf(p), VoltageOf(p) + 11)
    BY PhaseBlock
  <2>2. /\ VoltageOf(1) = 288 /\ VoltageOf(2) = 302 /\ VoltageOf(3) = 316
        /\ 1 \in Phases /\ 2 \in Phases /\ 3 \in Phases
    BY DEF VoltageOf, Phases
  <2> QED  BY <2>1, <2>2
<1>6. MeterHeld(r) \subseteq Whole(B, 11)
  <2>1. \A p \in Phases : PhaseHeld(r, p) \subseteq Whole(PhaseWords(r, p), 6)
                                                      \cup PutLow32(330 + 2 * p, energy(p))
    <3> SUFFICES ASSUME NEW p \in Phases
                 PROVE  PhaseHeld(r, p) \subseteq Whole(PhaseWords(r, p), 6)
                                                   \cup PutLow32(330 + 2 * p, energy(p))
      OBVIOUS
    <3> DEFINE W == PhaseWords(r, p)
    <3>1. PhaseHeld(r, p) = UNION {W[1], W[2], W[3], W[4], W[5], W[6],
                                   PutLow32(330 + 2 * p, energy(p))}
      BY DEF PhaseHeld, PhaseWords, energy
    <3> HIDE DEF W
    <3>2. PhaseHeld(r, p) \subseteq Whole(W, 6) \cup PutLow32(330 + 2 * p, energy(p))
      BY <3>1 DEF Whole
    <3> QED  BY <3>2 DEF W
  <2>2. UNION {PhaseHeld(r, p) : p \in Phases} \subseteq
          UNION {B[6], B[7], B[8], B[9], B[10], B[11]}
    <3>1. /\ PhaseHeld(r, 1) \subseteq B[6] \cup B[9]
          /\ PhaseHeld(r, 2) \subseteq B[7] \cup B[10]
          /\ PhaseHeld(r, 3) \subseteq B[8] \cup B[11]
      BY <2>1 DEF Phases
    <3> HIDE DEF B
    <3> QED  BY <3>1 DEF Phases
  <2>3. MeterHeld(r) = UNION {UNION {PhaseHeld(r, p) : p \in Phases},
                              B[1], B[2], B[3], B[4], B[5]}
    BY DEF MeterHeld, energy, active, factor, frequency, export
  <2> HIDE DEF B
  <2>4. \A i \in 1 .. 11 : B[i] \subseteq Whole(B, 11)
    BY DEF Whole
  <2> QED  BY <2>2, <2>3, <2>4
<1> HIDE DEF B
<1>7. Stack(B, 11, <<262, 269, 272, 274, 278, 288, 302, 316, 332, 334, 336>>,
                   <<263, 269, 272, 275, 279, 299, 313, 327, 333, 335, 337>>, 258, 353)
  BY <1>3, <1>4, <1>5 DEF Stack
<1>8. Layout(Whole(B, 11), 258, 353)
  BY <1>7, Blocks
<1> QED  BY <1>6, <1>8 DEF Layout

LEMMA RegisterIs ==
  ASSUME NEW r \in [MeterFields \ AddedUp -> Int], NEW a \in First .. First + Count, NEW w,
         <<a, w>> \in MeterHeld(r)
  PROVE  Em540Registers(r)[a] = w
<1> DEFINE held == MeterHeld(r)
           at == {v \in held : v[1] = a}
           one == CHOOSE v \in at : TRUE
<1>1. Em540Registers(r)[a] = IF at = {} THEN 0 ELSE one[2]
  BY Zenon DEF Em540Registers, MeterHeld, PhaseHeld
<1> HIDE DEF held
<1>2. <<a, w>> \in at
  BY DEF held
<1>3. one \in at
  BY <1>2
<1>4. one = <<a, w>>
  BY <1>3, OneWordEach DEF held
<1> HIDE DEF one, at
<1> QED  BY <1>1, <1>2, <1>4

\* The word that _reg gives of a reply, and zero where it has none.
WordAt(words, a) == IF a - First \in DOMAIN words THEN words[a - First] ELSE 0

\* A reply is the registers from 0x0102 on, of a bridge of either base that is not busy.
LEMMA ReplyIs ==
  ASSUME ~BusyBridge, NEW base \in {"zero", "one"}, NEW regs,
         NEW words \in Em540Replies(base, regs)
  PROVE  \A a \in First .. First + Count - 1 : WordAt(words, a) = regs[a]
<1> DEFINE reply == [k \in 0 .. Count - 1 |-> regs[First + k]]
<1>1. First = 258 /\ Count = 95
  BY DEF First, Count
<1>2. reply # Error
  <2>1. 0 \in DOMAIN reply
    BY <1>1
  <2>2. DOMAIN Error = {}
    BY DEF Error
  <2> HIDE DEF reply
  <2> QED  BY <2>1, <2>2
<1>3. words = reply
  <2>1. CASE base = "zero"
    <3>1. First - 0 = First
      BY <1>1
    <3>2. Answers(base, regs, First) = {reply}
      BY <1>1, <2>1, <3>1 DEF Answers
    <3> HIDE DEF reply
    <3> QED  BY <1>2, <3>2 DEF Em540Replies
  <2>2. CASE base = "one"
    <3>1. First - 1 < First /\ (First + 1) - 1 = First
      BY <1>1
    <3>2. Answers(base, regs, First) = {Error}
      BY <2>2, <3>1 DEF Answers
    <3>3. Answers(base, regs, First + 1) = {reply}
      BY <1>1, <2>2, <3>1 DEF Answers
    <3> HIDE DEF reply
    <3> QED  BY <1>2, <3>2, <3>3 DEF Em540Replies
  <2> QED  BY <2>1, <2>2
<1> SUFFICES ASSUME NEW a \in First .. First + Count - 1 PROVE WordAt(reply, a) = regs[a]
  BY <1>3
<1>4. a - First \in 0 .. Count - 1 /\ First + (a - First) = a
  BY <1>1
<1>5. a - First \in DOMAIN reply /\ reply[a - First] = regs[a]
  BY <1>4
<1> HIDE DEF reply
<1> QED  BY <1>5 DEF WordAt

\* A number that the registers can hold is read as it was measured.
Faithful(words, r) ==
  \A a \in First .. First + Count - 1 : WordAt(words, a) = Em540Registers(r)[a]

LEMMA PairRead ==
  ASSUME NEW r \in [MeterFields \ AddedUp -> Int], NEW words, Faithful(words, r),
         NEW a \in 258 .. 351, NEW v \in Int, PutLow32(a, v) \subseteq MeterHeld(r)
  PROVE  /\ Holds("i32", v) => I32lw(WordAt(words, a), WordAt(words, a + 1)) = v
         /\ Holds("u32", v) => U32lw(WordAt(words, a), WordAt(words, a + 1)) = v
<1>1. First = 258 /\ Count = 95
  BY DEF First, Count
<1>2. /\ a \in First .. First + Count - 1 /\ a + 1 \in First .. First + Count - 1
      /\ a \in First .. First + Count /\ a + 1 \in First .. First + Count
  BY <1>1
<1>3. /\ Em540Registers(r)[a] = LowWord(v) /\ Em540Registers(r)[a + 1] = HighWord(v)
  BY <1>2, RegisterIs DEF PutLow32
<1>4. WordAt(words, a) = LowWord(v) /\ WordAt(words, a + 1) = HighWord(v)
  BY <1>2, <1>3 DEF Faithful
<1>5. Holds("i32", v) => -2147483648 <= v /\ v < 2147483648
  BY DEF Holds, FitsInto, WordSize
<1>6. Holds("u32", v) => v \in Nat /\ v < WordSize * WordSize
  BY DEF Holds, FitsInto, WordSize
<1> QED  BY <1>4, <1>5, <1>6, RoundTrip32, RoundTripU32 DEF I32lw, U32lw

LEMMA WordRead ==
  ASSUME NEW r \in [MeterFields \ AddedUp -> Int], NEW words, Faithful(words, r),
         NEW a \in 258 .. 352, NEW v \in Int, PutI16(a, v) \subseteq MeterHeld(r),
         Holds("i16", v)
  PROVE  I16(WordAt(words, a)) = v
<1>1. First = 258 /\ Count = 95
  BY DEF First, Count
<1>2. a \in First .. First + Count - 1 /\ a \in First .. First + Count
  BY <1>1
<1>3. WordAt(words, a) = LowWord(v)
  BY <1>2, RegisterIs DEF PutI16, Faithful
<1>4. -32768 <= v /\ v < 32768
  BY DEF Holds, FitsInto
<1> QED  BY <1>3, <1>4, RoundTrip16

\* What the registers of the meter tell, of which the client keeps whole watts.
MeterPart(name, v) == IF name \in MeterPowers THEN Trunc(v, 10) ELSE v

\* What the words of a reply tell of a phase, and of all of them.
PhaseTold(words, r, p) ==
  LET reg(a) == WordAt(words, a)
      i32(a) == I32lw(reg(a), reg(a + 1))
  IN  /\ 100 * i32(VoltageOf(p)) = r[<<"meter_voltage", p>>]
      /\ i32(VoltageOf(p) + 2) = r[<<"meter_current", p>>]
      /\ i32(VoltageOf(p) + 4) = r[<<"meter_power", p>>]
      /\ i32(VoltageOf(p) + 6) = r[<<"meter_apparent_power", p>>]
      /\ i32(VoltageOf(p) + 8) = r[<<"meter_reactive_power", p>>]
      /\ I16(reg(VoltageOf(p) + 11)) = r[<<"meter_power_factor", p>>]
      /\ U32lw(reg(330 + 2 * p), reg((330 + 2 * p) + 1)) * 10 =
           r[<<"meter_energy_import", p>>]
TotalsTold(words, r) ==
  LET reg(a) == WordAt(words, a)
  IN  /\ I32lw(reg(262), reg(262 + 1)) = r[<<"meter_power", 0>>]
      /\ I16(reg(269)) = r[<<"meter_power_factor", 0>>]
      /\ 100 * I16(reg(272)) = r[<<"meter_frequency", 0>>]
      /\ U32lw(reg(274), reg(274 + 1)) * 10 = r[<<"meter_energy_import", 0>>]
      /\ U32lw(reg(278), reg(278 + 1)) * 10 = r[<<"meter_energy_export", 0>>]

LEMMA PhaseRead ==
  ASSUME NEW r \in [MeterFields \ AddedUp -> Int], MeterTells(r), NEW words,
         Faithful(words, r), NEW p \in Phases
  PROVE  PhaseTold(words, r, p)
<1> DEFINE a == VoltageOf(p)
           e == 330 + 2 * p
           V == r[<<"meter_voltage", p>>]
           C == r[<<"meter_current", p>>]
           W == r[<<"meter_power", p>>]
           S == r[<<"meter_apparent_power", p>>]
           Q == r[<<"meter_reactive_power", p>>]
           F == r[<<"meter_power_factor", p>>]
           E == r[<<"meter_energy_import", p>>]
<1>1. /\ V \in Int /\ C \in Int /\ W \in Int /\ S \in Int /\ Q \in Int /\ F \in Int /\ E \in Int
      /\ V \div 100 \in Int /\ E \div 10 \in Int
  BY PhaseFields, Zenon
<1>2. /\ PutLow32(a, V \div 100) \subseteq MeterHeld(r) /\ PutLow32(a + 2, C) \subseteq MeterHeld(r)
      /\ PutLow32(a + 4, W) \subseteq MeterHeld(r) /\ PutLow32(a + 6, S) \subseteq MeterHeld(r)
      /\ PutLow32(a + 8, Q) \subseteq MeterHeld(r) /\ PutI16(a + 11, F) \subseteq MeterHeld(r)
      /\ PutLow32(e, E \div 10) \subseteq MeterHeld(r)
  <2>1. PhaseHeld(r, p) \subseteq MeterHeld(r)
    BY DEF MeterHeld
  <2>2. PhaseHeld(r, p) = UNION {PutLow32(a, V \div 100), PutLow32(a + 2, C), PutLow32(a + 4, W),
                                 PutLow32(a + 6, S), PutLow32(a + 8, Q), PutI16(a + 11, F),
                                 PutLow32(e, E \div 10)}
    BY DEF PhaseHeld
  <2> HIDE DEF a, e, V, C, W, S, Q, F, E
  <2> QED  BY <2>1, <2>2
<1>3. /\ Tells("i32", 100, V) /\ Tells("i32", 1, C) /\ Tells("i32", 1, Q) /\ Tells("i32", 1, S)
  BY Zenon DEF MeterTells
<1>4. /\ Tells("i32", 1, W) /\ Tells("i16", 1, F) /\ Tells("u32", 10, E)
  <2>1. p \in 0 .. 3
    BY DEF Phases
  <2> QED  BY <2>1, Zenon DEF MeterTells
<1>5. /\ a \in 258 .. 351 /\ a + 2 \in 258 .. 351 /\ a + 4 \in 258 .. 351 /\ a + 6 \in 258 .. 351
      /\ a + 8 \in 258 .. 351 /\ a + 11 \in 258 .. 352 /\ e \in 258 .. 351
  BY DEF VoltageOf, Phases
<1> HIDE DEF a, e, V, C, W, S, Q, F, E
<1>6. \A v \in Int : v \div 1 = v
  OBVIOUS
<1>7. /\ Holds("i32", V \div 100) /\ Holds("i32", C) /\ Holds("i32", W) /\ Holds("i32", S)
      /\ Holds("i32", Q) /\ Holds("i16", F) /\ Holds("u32", E \div 10)
  BY <1>1, <1>3, <1>4, <1>6 DEF Tells
<1>8. 100 * (V \div 100) = V /\ (E \div 10) * 10 = E
  BY <1>1, <1>3, <1>4 DEF Tells
<1> DEFINE reg(x) == WordAt(words, x)
           i32(x) == I32lw(reg(x), reg(x + 1))
           u32(x) == U32lw(reg(x), reg(x + 1))
<1>9. \A x \in 258 .. 351, v \in Int :
        PutLow32(x, v) \subseteq MeterHeld(r) =>
          (Holds("i32", v) => i32(x) = v) /\ (Holds("u32", v) => u32(x) = v)
  BY PairRead
<1>10. I16(reg(a + 11)) = F
  BY <1>1, <1>2, <1>5, <1>7, WordRead
<1> HIDE DEF i32, u32, reg
<1>11. /\ i32(a) = V \div 100 /\ i32(a + 2) = C /\ i32(a + 4) = W /\ i32(a + 6) = S
       /\ i32(a + 8) = Q /\ u32(e) = E \div 10
  BY <1>1, <1>2, <1>5, <1>7, <1>9, Zenon
<1>12. 100 * i32(a) = V /\ u32(e) * 10 = E
  BY <1>8, <1>11
<1> QED  BY <1>10, <1>11, <1>12 DEF PhaseTold, a, e, V, C, W, S, Q, F, E, i32, u32, reg

LEMMA TotalRead ==
  ASSUME NEW r \in [MeterFields \ AddedUp -> Int], MeterTells(r), NEW words,
         Faithful(words, r)
  PROVE  TotalsTold(words, r)
<1> DEFINE W == r[<<"meter_power", 0>>]
           F == r[<<"meter_power_factor", 0>>]
           Z == r[<<"meter_frequency", 0>>]
           E == r[<<"meter_energy_import", 0>>]
           X == r[<<"meter_energy_export", 0>>]
<1>1. /\ W \in Int /\ F \in Int /\ Z \in Int /\ E \in Int /\ X \in Int
      /\ Z \div 100 \in Int /\ E \div 10 \in Int /\ X \div 10 \in Int
  BY TotalFields, Zenon
<1>2. /\ PutLow32(262, W) \subseteq MeterHeld(r) /\ PutI16(269, F) \subseteq MeterHeld(r)
      /\ PutI16(272, Z \div 100) \subseteq MeterHeld(r)
      /\ PutLow32(274, E \div 10) \subseteq MeterHeld(r)
      /\ PutLow32(278, X \div 10) \subseteq MeterHeld(r)
  BY DEF MeterHeld
<1>3. Tells("i16", 100, Z) /\ Tells("u32", 10, X)
  BY Zenon DEF MeterTells
<1>4. /\ Tells("i32", 1, W) /\ Tells("i16", 1, F) /\ Tells("u32", 10, E)
  <2>1. 0 \in 0 .. 3
    OBVIOUS
  <2> QED  BY <2>1, Zenon DEF MeterTells
<1> HIDE DEF W, F, Z, E, X
<1>5. \A v \in Int : v \div 1 = v
  OBVIOUS
<1>6. /\ Holds("i32", W) /\ Holds("i16", F) /\ Holds("i16", Z \div 100)
      /\ Holds("u32", E \div 10) /\ Holds("u32", X \div 10)
  BY <1>1, <1>3, <1>4, <1>5 DEF Tells
<1>7. 100 * (Z \div 100) = Z /\ (E \div 10) * 10 = E /\ (X \div 10) * 10 = X
  BY <1>1, <1>3, <1>4 DEF Tells
<1> DEFINE reg(x) == WordAt(words, x)
<1>8. 262 \in 258 .. 351 /\ 269 \in 258 .. 352 /\ 272 \in 258 .. 352 /\ 274 \in 258 .. 351
      /\ 278 \in 258 .. 351
  OBVIOUS
<1> DEFINE i32(x) == I32lw(reg(x), reg(x + 1))
           u32(x) == U32lw(reg(x), reg(x + 1))
<1>9. \A x \in 258 .. 351, v \in Int :
        PutLow32(x, v) \subseteq MeterHeld(r) =>
          (Holds("i32", v) => i32(x) = v) /\ (Holds("u32", v) => u32(x) = v)
  BY PairRead
<1>10. \A x \in 258 .. 352, v \in Int :
        PutI16(x, v) \subseteq MeterHeld(r) /\ Holds("i16", v) => I16(reg(x)) = v
  BY WordRead
<1> HIDE DEF i32, u32, reg
<1>11. /\ i32(262) = W /\ I16(reg(269)) = F /\ I16(reg(272)) = Z \div 100
       /\ u32(274) = E \div 10 /\ u32(278) = X \div 10
  BY <1>1, <1>2, <1>6, <1>8, <1>9, <1>10
<1>12. 100 * I16(reg(272)) = Z /\ u32(274) * 10 = E /\ u32(278) * 10 = X
  BY <1>7, <1>11
<1> QED  BY <1>11, <1>12 DEF TotalsTold, W, F, Z, E, X, i32, u32, reg

LEMMA MeterNumbers ==
  ASSUME NEW r \in [MeterFields \ AddedUp -> Int], MeterTells(r), NEW words,
         Faithful(words, r)
  PROVE  LET d == Em540Values(words)
         IN  /\ \A p \in 0 .. 3 :
                  /\ Has(d, "meter_power", p, Trunc(r[<<"meter_power", p>>], 10))
                  /\ Has(d, "meter_power_factor", p, r[<<"meter_power_factor", p>>])
                  /\ Has(d, "meter_energy_import", p, r[<<"meter_energy_import", p>>])
             /\ \A p \in Phases :
                  /\ Has(d, "meter_reactive_power", p,
                           Trunc(r[<<"meter_reactive_power", p>>], 10))
                  /\ Has(d, "meter_apparent_power", p,
                           Trunc(r[<<"meter_apparent_power", p>>], 10))
                  /\ Has(d, "meter_voltage", p, r[<<"meter_voltage", p>>])
                  /\ Has(d, "meter_current", p, r[<<"meter_current", p>>])
             /\ Has(d, "meter_frequency", 0, r[<<"meter_frequency", 0>>])
             /\ Has(d, "meter_energy_export", 0, r[<<"meter_energy_export", 0>>])
<1> DEFINE reg(a) == IF a - First \in DOMAIN words THEN words[a - First] ELSE 0
           i32(a) == I32lw(reg(a), reg(a + 1))
           watts(a) == Trunc(i32(a), 10)
           kwh(a) == U32lw(reg(a), reg(a + 1)) * 10
           sum(x) == x[1] + x[2] + x[3]
           power == [p \in 0 .. 3 |-> watts(IF p = 0 THEN 262 ELSE VoltageOf(p) + 4)]
           reactive == [p \in Phases |-> watts(VoltageOf(p) + 8)]
           apparent == [p \in Phases |-> watts(VoltageOf(p) + 6)]
           factor == [p \in 0 .. 3 |-> I16(reg(IF p = 0 THEN 269 ELSE VoltageOf(p) + 11))]
           voltage == [p \in Phases |-> 100 * i32(VoltageOf(p))]
           current == [p \in Phases |-> i32(VoltageOf(p) + 2)]
           import == [p \in 0 .. 3 |-> kwh(IF p = 0 THEN 274 ELSE 330 + 2 * p)]
           d == Em540Values(words)
           reactives == WithTotal(sum(reactive), reactive)
           apparents == WithTotal(sum(apparent), apparent)
           maps == {Each("meter_power", power), Each("meter_reactive_power", reactives),
                    Each("meter_apparent_power", apparents), Each("meter_power_factor", factor),
                    Each("meter_voltage", voltage), Each("meter_current", current),
                    Field("meter_frequency", 100 * I16(reg(272))),
                    Field("meter_energy_export", kwh(278)), Each("meter_energy_import", import)}
<1>1. d = Joined(maps)
  BY Zenon DEF Em540Values
<1>2. /\ i32(262) = r[<<"meter_power", 0>>] /\ I16(reg(269)) = r[<<"meter_power_factor", 0>>]
      /\ 100 * I16(reg(272)) = r[<<"meter_frequency", 0>>]
      /\ kwh(274) = r[<<"meter_energy_import", 0>>]
      /\ kwh(278) = r[<<"meter_energy_export", 0>>]
  <2>1. TotalsTold(words, r)
    BY TotalRead
  <2> QED  BY <2>1 DEF TotalsTold, WordAt
<1>3. \A p \in Phases :
        /\ 100 * i32(VoltageOf(p)) = r[<<"meter_voltage", p>>]
        /\ i32(VoltageOf(p) + 2) = r[<<"meter_current", p>>]
        /\ i32(VoltageOf(p) + 4) = r[<<"meter_power", p>>]
        /\ i32(VoltageOf(p) + 6) = r[<<"meter_apparent_power", p>>]
        /\ i32(VoltageOf(p) + 8) = r[<<"meter_reactive_power", p>>]
        /\ I16(reg(VoltageOf(p) + 11)) = r[<<"meter_power_factor", p>>]
        /\ kwh(330 + 2 * p) = r[<<"meter_energy_import", p>>]
  <2>1. \A p \in Phases : PhaseTold(words, r, p)
    BY PhaseRead
  <2> QED  BY <2>1 DEF PhaseTold, WordAt
<1> HIDE DEF reg, i32, kwh
<1>4. ASSUME NEW p \in 0 .. 3
      PROVE  /\ power[p] = Trunc(r[<<"meter_power", p>>], 10)
             /\ factor[p] = r[<<"meter_power_factor", p>>]
             /\ import[p] = r[<<"meter_energy_import", p>>]
  <2>1. p = 0 \/ (p \in Phases /\ p # 0)
    BY DEF Phases
  <2>2. /\ power[p] = IF p = 0 THEN watts(262) ELSE watts(VoltageOf(p) + 4)
        /\ factor[p] = IF p = 0 THEN I16(reg(269)) ELSE I16(reg(VoltageOf(p) + 11))
        /\ import[p] = IF p = 0 THEN kwh(274) ELSE kwh(330 + 2 * p)
    BY DEF reg, i32, kwh
  <2> HIDE DEF power, factor, import
  <2>3. CASE p = 0
    BY <1>2, <2>2, <2>3
  <2>4. CASE p \in Phases /\ p # 0
    <3> DEFINE a == VoltageOf(p) + 4
    <3>1. watts(a) = Trunc(r[<<"meter_power", p>>], 10)
      BY <1>3, <2>4
    <3>2. /\ I16(reg(VoltageOf(p) + 11)) = r[<<"meter_power_factor", p>>]
          /\ kwh(330 + 2 * p) = r[<<"meter_energy_import", p>>]
      BY <1>3, <2>4
    <3> QED  BY <2>2, <2>4, <3>1, <3>2
  <2> QED  BY <2>1, <2>3, <2>4
<1>5. ASSUME NEW p \in Phases
      PROVE  /\ reactive[p] = Trunc(r[<<"meter_reactive_power", p>>], 10)
             /\ apparent[p] = Trunc(r[<<"meter_apparent_power", p>>], 10)
             /\ voltage[p] = r[<<"meter_voltage", p>>]
             /\ current[p] = r[<<"meter_current", p>>]
  BY <1>3
<1>6. /\ DOMAIN power = 0 .. 3 /\ DOMAIN factor = 0 .. 3 /\ DOMAIN import = 0 .. 3
      /\ DOMAIN reactive = Phases /\ DOMAIN apparent = Phases
      /\ DOMAIN voltage = Phases /\ DOMAIN current = Phases
  OBVIOUS
<1>7. \A p \in Phases : /\ p \in DOMAIN reactives /\ reactives[p] = reactive[p]
                        /\ p \in DOMAIN apparents /\ apparents[p] = apparent[p]
  <2> HIDE DEF reactive, apparent, sum
  <2>1. \A p \in Phases : p # 0
    BY DEF Phases
  <2> QED  BY <1>6, <2>1 DEF WithTotal, At, ++
<1> DEFINE frequency == 100 * I16(reg(272))
           export == kwh(278)
<1> HIDE DEF watts, sum, power, reactive, apparent, factor, voltage, current, import, d,
             reactives, apparents
<1>8. /\ \A m \in maps : m = Each("meter_power", power) \/ Lacks(m, "meter_power")
      /\ \A m \in maps : m = Each("meter_reactive_power", reactives)
                         \/ Lacks(m, "meter_reactive_power")
      /\ \A m \in maps : m = Each("meter_apparent_power", apparents)
                         \/ Lacks(m, "meter_apparent_power")
      /\ \A m \in maps : m = Each("meter_power_factor", factor) \/ Lacks(m, "meter_power_factor")
      /\ \A m \in maps : m = Each("meter_voltage", voltage) \/ Lacks(m, "meter_voltage")
      /\ \A m \in maps : m = Each("meter_current", current) \/ Lacks(m, "meter_current")
      /\ \A m \in maps : m = Each("meter_energy_import", import)
                         \/ Lacks(m, "meter_energy_import")
  BY OtherLacks
<1>9. /\ \A m \in maps : m = Field("meter_frequency", frequency) \/ Lacks(m, "meter_frequency")
      /\ \A m \in maps : m = Field("meter_energy_export", export)
                         \/ Lacks(m, "meter_energy_export")
  BY OtherLacks
<1>10. /\ Each("meter_power", power) \in maps /\ Each("meter_reactive_power", reactives) \in maps
       /\ Each("meter_apparent_power", apparents) \in maps
       /\ Each("meter_power_factor", factor) \in maps /\ Each("meter_voltage", voltage) \in maps
       /\ Each("meter_current", current) \in maps /\ Each("meter_energy_import", import) \in maps
       /\ Field("meter_frequency", frequency) \in maps
       /\ Field("meter_energy_export", export) \in maps
  OBVIOUS
<1> HIDE DEF maps, frequency, export
<1>11. /\ HasParts(d, "meter_power", power) /\ HasParts(d, "meter_reactive_power", reactives)
       /\ HasParts(d, "meter_apparent_power", apparents)
       /\ HasParts(d, "meter_power_factor", factor) /\ HasParts(d, "meter_voltage", voltage)
       /\ HasParts(d, "meter_current", current) /\ HasParts(d, "meter_energy_import", import)
  BY <1>1, <1>8, <1>10, JoinedEach, Zenon
<1>12. /\ Has(d, "meter_frequency", 0, frequency)
       /\ Has(d, "meter_energy_export", 0, export)
  BY <1>1, <1>9, <1>10, JoinedField, Zenon
<1>13. \A p \in 0 .. 3 :
         /\ Has(d, "meter_power", p, Trunc(r[<<"meter_power", p>>], 10))
         /\ Has(d, "meter_power_factor", p, r[<<"meter_power_factor", p>>])
         /\ Has(d, "meter_energy_import", p, r[<<"meter_energy_import", p>>])
  BY <1>4, <1>6, <1>11, Zenon DEF HasParts, Has
<1>14. \A p \in Phases :
         /\ Has(d, "meter_reactive_power", p, Trunc(r[<<"meter_reactive_power", p>>], 10))
         /\ Has(d, "meter_apparent_power", p, Trunc(r[<<"meter_apparent_power", p>>], 10))
         /\ Has(d, "meter_voltage", p, r[<<"meter_voltage", p>>])
         /\ Has(d, "meter_current", p, r[<<"meter_current", p>>])
  <2> TAKE p \in Phases
  <2>1. /\ reactives[p] = Trunc(r[<<"meter_reactive_power", p>>], 10)
        /\ apparents[p] = Trunc(r[<<"meter_apparent_power", p>>], 10)
        /\ p \in DOMAIN reactives /\ p \in DOMAIN apparents
        /\ p \in DOMAIN voltage /\ p \in DOMAIN current
    BY <1>5, <1>6, <1>7
  <2> QED  BY <1>5, <1>11, <2>1, Zenon DEF HasParts, Has
<1>15. /\ Has(d, "meter_frequency", 0, r[<<"meter_frequency", 0>>])
       /\ Has(d, "meter_energy_export", 0, r[<<"meter_energy_export", 0>>])
  BY <1>2, <1>12 DEF frequency, export
<1> QED  BY <1>13, <1>14, <1>15 DEF d

LEMMA MeterFieldIs ==
  ASSUME NEW f \in MeterFields \ AddedUp
  PROVE  /\ f = <<f[1], f[2]>>
         /\ \/ /\ f[1] \in {"meter_power", "meter_power_factor", "meter_energy_import"}
               /\ f[2] \in 0 .. 3
            \/ /\ f[1] \in {"meter_reactive_power", "meter_apparent_power", "meter_voltage",
                            "meter_current"}
               /\ f[2] \in Phases
            \/ /\ f[1] \in {"meter_frequency", "meter_energy_export"}
               /\ f[2] = 0
BY DEF MeterFields, AddedUp, Phases

LEMMA MeterRead ==
  ASSUME NEW r \in [MeterFields \ AddedUp -> Int], MeterTells(r), NEW words,
         Faithful(words, r), NEW f \in MeterFields \ AddedUp
  PROVE  /\ f \in DOMAIN Em540Values(words)
         /\ Em540Values(words)[f] = MeterPart(f[1], r[f])
<1> DEFINE d == Em540Values(words)
<1>1. f = <<f[1], f[2]>>
  BY MeterFieldIs
<1>2. \A name, p, v : f[1] = name /\ f[2] = p /\ Has(d, name, p, v) =>
        f \in DOMAIN d /\ d[f] = v
  BY <1>1 DEF Has
<1>3. \A name, p : f[1] = name /\ f[2] = p => r[f] = r[<<name, p>>]
  BY <1>1
<1>4. /\ \A v : MeterPart("meter_power", v) = Trunc(v, 10)
      /\ \A v : MeterPart("meter_reactive_power", v) = Trunc(v, 10)
      /\ \A v : MeterPart("meter_apparent_power", v) = Trunc(v, 10)
      /\ \A name, v : name \notin MeterPowers => MeterPart(name, v) = v
  BY DEF MeterPart, MeterPowers
<1>5. /\ "meter_power_factor" \notin MeterPowers /\ "meter_energy_import" \notin MeterPowers
      /\ "meter_voltage" \notin MeterPowers /\ "meter_current" \notin MeterPowers
      /\ "meter_frequency" \notin MeterPowers /\ "meter_energy_export" \notin MeterPowers
  BY DEF MeterPowers
<1>6. /\ \A p \in 0 .. 3 :
           /\ Has(d, "meter_power", p, Trunc(r[<<"meter_power", p>>], 10))
           /\ Has(d, "meter_power_factor", p, r[<<"meter_power_factor", p>>])
           /\ Has(d, "meter_energy_import", p, r[<<"meter_energy_import", p>>])
      /\ \A p \in Phases :
           /\ Has(d, "meter_reactive_power", p, Trunc(r[<<"meter_reactive_power", p>>], 10))
           /\ Has(d, "meter_apparent_power", p, Trunc(r[<<"meter_apparent_power", p>>], 10))
           /\ Has(d, "meter_voltage", p, r[<<"meter_voltage", p>>])
           /\ Has(d, "meter_current", p, r[<<"meter_current", p>>])
      /\ Has(d, "meter_frequency", 0, r[<<"meter_frequency", 0>>])
      /\ Has(d, "meter_energy_export", 0, r[<<"meter_energy_export", 0>>])
  BY MeterNumbers
<1> HIDE DEF d
<1>7. CASE /\ f[1] \in {"meter_power", "meter_power_factor", "meter_energy_import"}
           /\ f[2] \in 0 .. 3
  BY <1>2, <1>3, <1>4, <1>5, <1>6, <1>7 DEF d
<1>8. CASE /\ f[1] \in {"meter_reactive_power", "meter_apparent_power", "meter_voltage",
                        "meter_current"}
           /\ f[2] \in Phases
  <2> DEFINE p == f[2]
  <2>1. p \in Phases /\ f = <<f[1], p>>
    BY <1>1, <1>8
  <2> HIDE DEF p
  <2>2. /\ Has(d, "meter_reactive_power", p, Trunc(r[<<"meter_reactive_power", p>>], 10))
        /\ Has(d, "meter_apparent_power", p, Trunc(r[<<"meter_apparent_power", p>>], 10))
        /\ Has(d, "meter_voltage", p, r[<<"meter_voltage", p>>])
        /\ Has(d, "meter_current", p, r[<<"meter_current", p>>])
    BY <1>6, <2>1
  <2>3. ASSUME NEW name, f[1] = name, Has(d, name, p, MeterPart(name, r[<<name, p>>]))
        PROVE  f \in DOMAIN d /\ d[f] = MeterPart(f[1], r[f])
    <3>1. f = <<name, p>>
      BY <2>1, <2>3
    <3> QED  BY <2>3, <3>1 DEF Has
  <2>4. /\ Has(d, "meter_reactive_power", p, MeterPart("meter_reactive_power",
                                                        r[<<"meter_reactive_power", p>>]))
        /\ Has(d, "meter_apparent_power", p, MeterPart("meter_apparent_power",
                                                        r[<<"meter_apparent_power", p>>]))
        /\ Has(d, "meter_voltage", p, MeterPart("meter_voltage", r[<<"meter_voltage", p>>]))
        /\ Has(d, "meter_current", p, MeterPart("meter_current", r[<<"meter_current", p>>]))
    BY <1>4, <1>5, <2>2, Zenon
  <2>5. f[1] = "meter_reactive_power" \/ f[1] = "meter_apparent_power"
        \/ f[1] = "meter_voltage" \/ f[1] = "meter_current"
    BY <1>8
  <2> QED  BY <2>3, <2>4, <2>5, Zenon DEF d
<1>9. CASE f[1] \in {"meter_frequency", "meter_energy_export"} /\ f[2] = 0
  BY <1>2, <1>3, <1>4, <1>5, <1>6, <1>9 DEF d
<1> QED  BY <1>7, <1>8, <1>9, MeterFieldIs

\* _apply_em540_synthetic_grid_export leaves the voltages and the energies that were read.
LEMMA ExportKeeps ==
  ASSUME NEW c, NEW data, NEW f \in DOMAIN data,
         f[1] \in {"meter_voltage", "meter_energy_import", "meter_energy_export"}
  PROVE  LET m == WithSyntheticExport(c, data)
         IN  f \in DOMAIN m /\ m[f] = data[f]
<1> DEFINE total == c.synthetic_grid_total_power_w
           third == Trunc(total, 3)
           share == <<third, third, total - 2 * third>>
           voltage(p) ==
             IF <<"meter_voltage", p>> \in DOMAIN data THEN data[<<"meter_voltage", p>>] ELSE 0
           none == [p \in 0 .. 3 |-> 0]
           apparent == [p \in 0 .. 3 |->
                          IF p = 0 THEN Size(share[1]) + Size(share[2]) + Size(share[3])
                          ELSE Size(share[p])]
           factor == [p \in 0 .. 3 |-> -1000]
           frequency == IF c.synthetic_grid_frequency_hz < 100 THEN 100
                        ELSE c.synthetic_grid_frequency_hz
           current == [p \in Phases |-> CurrentFor(share[p], voltage(p))]
           power == WithTotal(total, share)
           maps == {Each("meter_power", power), Each("meter_reactive_power", none),
                    Each("meter_apparent_power", apparent),
                    Each("meter_power_factor", factor),
                    Field("meter_frequency", frequency),
                    Each("meter_current", current)}
           m == WithSyntheticExport(c, data)
<1>1. m = IF c.synthetic_grid_export_enabled
            THEN Joined(maps) ++ data ++ Field("meter_energy_export", 0)
                              ++ Each("meter_energy_import", none)
            ELSE data
  BY Zenon DEF WithSyntheticExport
<1> HIDE DEF total, share, none, apparent, factor, frequency, current, power, m
<1>2. /\ \A n \in maps : Lacks(n, "meter_voltage")
      /\ \A n \in maps : Lacks(n, "meter_energy_import")
      /\ \A n \in maps : Lacks(n, "meter_energy_export")
  BY OtherLacks
<1> HIDE DEF maps
<1>3. /\ Lacks(Joined(maps), "meter_voltage") /\ Lacks(Joined(maps), "meter_energy_import")
      /\ Lacks(Joined(maps), "meter_energy_export")
  BY <1>2, JoinedLacks
<1>4. f \notin DOMAIN Joined(maps)
  BY <1>3 DEF Lacks
<1>5. \A g, h : f \notin DOMAIN g => f \in DOMAIN (g ++ data ++ h) /\ (g ++ data ++ h)[f] = data[f]
  BY DEF ++
<1>6. \A g, h : f \in DOMAIN g => f \in DOMAIN (g ++ h) /\ (g ++ h)[f] = g[f]
  BY DEF ++
<1> DEFINE kept == Joined(maps) ++ data ++ Field("meter_energy_export", 0)
<1>7. f \in DOMAIN kept /\ kept[f] = data[f]
  BY <1>4, <1>5
<1> HIDE DEF kept
<1>8. LET whole == kept ++ Each("meter_energy_import", none)
      IN  f \in DOMAIN whole /\ whole[f] = data[f]
  BY <1>6, <1>7
<1> QED  BY <1>1, <1>8 DEF m, kept

\* What _read_once of the EM540 client and the synthetic export deliver of a field that the
\* meter measures and the program does not invent is the meter's own number, of powers the
\* whole watts.
THEOREM MeterUpdateShows ==
  ASSUME Setting, ~BusyBridge, NEW r \in plant.meters, MeterTells(r),
         NEW words \in Em540Replies(plant.base, Em540Registers(r)),
         NEW f \in MeterFields \ (AddedUp \cup Synthetic)
  PROVE  /\ f \in DOMAIN MeterUpdate(words)
         /\ MeterUpdate(words)[f] = MeterPart(f[1], r[f])
<1>1. r \in [MeterFields \ AddedUp -> Int] /\ plant.base \in {"zero", "one"}
  BY PlantsAssumption DEF Setting
<1>2. Faithful(words, r)
  BY <1>1, ReplyIs DEF Faithful
<1>3. /\ f \in DOMAIN Em540Values(words)
      /\ Em540Values(words)[f] = MeterPart(f[1], r[f])
  BY <1>1, <1>2, MeterRead
<1>4. CASE ~cfg.em540_bridge.synthetic_grid_export_enabled
  <2>1. MeterUpdate(words) = Em540Values(words)
    BY <1>4 DEF MeterUpdate, WithSyntheticExport
  <2> QED  BY <1>3, <2>1
<1>5. CASE cfg.em540_bridge.synthetic_grid_export_enabled
  <2>1. f[1] \in {"meter_voltage", "meter_energy_import", "meter_energy_export"}
    BY <1>5 DEF Synthetic
  <2> QED  BY <1>3, <2>1, ExportKeeps DEF MeterUpdate
<1> QED  BY <1>4, <1>5

------------------------------------------------------------------------------
(* What the battery and the inverter measure *)

\* What is shown of a battery: the voltage and the current of the pack.
PackVoltage(v) ==
  Within(cfg.victron.battery_voltage_min_v, cfg.victron.battery_voltage_max_v,
         Trunc(v * cfg.victron.battery_scale[1], cfg.victron.battery_scale[2]))
PackCurrent(v) == Trunc(v * cfg.victron.battery_scale[2], cfg.victron.battery_scale[1])
BatteryPart(f, v) ==
  CASE f = <<"battery_voltage", 0>> -> PackVoltage(v)
    [] f = <<"battery_current", 0>> -> PackCurrent(v)
    [] OTHER -> v

\* What the Victron client and _transform_victron_battery_data deliver of a battery is what it
\* measured, voltage and current as those of the scaled pack, whichever requests failed.
THEOREM BatteryUpdateShows ==
  ASSUME Setting, NEW r \in plant.batteries, BatteryTells(cfg.victron, r), NEW answered,
         NEW f \in BatteryFields \cap DOMAIN BatteryUpdate(r, answered)
  PROVE  BatteryUpdate(r, answered)[f] = BatteryPart(f, r[f])
<1> DEFINE c == cfg.victron
           data == VictronValues(c, r, answered)
           voltage == <<"battery_voltage", 0>>
           current == <<"battery_current", 0>>
           first == Field("battery_voltage", ScaledVoltage(c, data))
           second == Field("battery_current",
                           Trunc(data[current] * c.battery_scale[2], c.battery_scale[1]))
           m == BatteryUpdate(r, answered)
<1>1. r \in [BatteryFields -> Int]
  BY PlantsAssumption DEF Setting
<1>2. Agrees(data, r, BatteryFields)
  BY <1>1, VictronAgrees
<1>3. {voltage, current} \subseteq DOMAIN data /\ {voltage, current} \subseteq BatteryFields
  BY <1>1, VictronPayload DEF BatteryFields
<1>4. \A g \in BatteryFields \cap DOMAIN data : data[g] = r[g]
  BY <1>1, <1>2 DEF Agrees, SaidOf
<1>5. m = first ++ second ++ data
  BY DEF BatteryUpdate, Scaled
<1>6. /\ DOMAIN first = {voltage} /\ first[voltage] = ScaledVoltage(c, data)
      /\ DOMAIN second = {current}
      /\ second[current] = Trunc(data[current] * c.battery_scale[2], c.battery_scale[1])
  BY DEF Field, At
<1>7. data[voltage] = r[voltage] /\ data[current] = r[current]
  BY <1>3, <1>4
<1>8. voltage # current
  OBVIOUS
<1>9. ScaledVoltage(c, data) = PackVoltage(r[voltage])
  BY <1>7, Zenon DEF ScaledVoltage, PackVoltage
<1>10. Trunc(data[current] * c.battery_scale[2], c.battery_scale[1]) = PackCurrent(r[current])
  BY <1>7, Zenon DEF PackCurrent
<1>11. \A g : /\ g \in DOMAIN first => m[g] = first[g]
              /\ g \notin DOMAIN first /\ g \in DOMAIN second => m[g] = second[g]
              /\ g \notin DOMAIN first /\ g \notin DOMAIN second /\ g \in DOMAIN m =>
                   g \in DOMAIN data /\ m[g] = data[g]
  <2> HIDE DEF first, second, data, m
  <2> QED  BY <1>5 DEF ++
<1> HIDE DEF first, second, data, m, voltage, current
<1>12. CASE f = voltage
  <2>1. m[f] = PackVoltage(r[f])
    BY <1>6, <1>9, <1>11, <1>12
  <2> QED  BY <1>12, <2>1 DEF m, BatteryPart, voltage
<1>13. CASE f = current
  <2>1. m[f] = PackCurrent(r[f])
    BY <1>6, <1>8, <1>10, <1>11, <1>13
  <2> QED  BY <1>8, <1>13, <2>1 DEF m, BatteryPart, voltage, current
<1>14. CASE f # voltage /\ f # current
  <2>1. m[f] = r[f]
    BY <1>4, <1>6, <1>11, <1>14 DEF m
  <2> QED  BY <1>14, <2>1 DEF m, BatteryPart, voltage, current
<1> QED  BY <1>12, <1>13, <1>14

\* The fields that the inverter measures by itself and that the client looks for where its
\* model has them.
OwnFields(r) ==
  (IF plant.inverter.model \in FloatModels THEN InverterMeasures(plant.inverter) \cap DOMAIN r
   ELSE InverterMeasures(plant.inverter)) \ Misread

LEMMA MisreadIs ==
  ASSUME NEW f \in InverterFields \ Misread
  PROVE  f[1] \notin MisreadNames(plant.inverter.model)
<1> DEFINE model == plant.inverter.model
<1>1. CASE model = "103"
  BY <1>1 DEF Misread, MisreadNames
<1>2. CASE model = "101"
  BY <1>2 DEF Misread, MisreadNames
<1>3. CASE model # "103" /\ model # "101"
  BY <1>3 DEF Misread, MisreadNames
<1> QED  BY <1>1, <1>2, <1>3

\* What the Fronius client delivers of the fields that an inverter measures by itself, and of
\* the strings that were read, is what it measured: for each of its four AC models, laid out
\* as SunSpec has them, any scale factor, any layout of a float model's sensors, and
\* whichever of the requests for the block, the DC values and the strings failed.  The
\* fields that the client looks for elsewhere are excepted.
THEOREM InverterUpdateShows ==
  ASSUME Setting, NEW r \in plant.inverters, InverterTells(plant.inverter, r), NEW answered,
         NEW short \in BOOLEAN
  PROVE  LET m == InverterUpdate(r, answered, short)
             strings == PvMeasures(cfg.fronius, plant.inverter, r, answered)
         IN  /\ Agrees(m, r, OwnFields(r))
             /\ ~cfg.fronius.synthetic_pv_enabled => Agrees(m, r, strings)
             /\ plant.inverter.model = "none" => InverterFields \cap DOMAIN m = {}
<1> DEFINE c == cfg.fronius
           inverter == plant.inverter
           own == OwnFields(r)
           strings == PvMeasures(c, inverter, r, answered)
           read == inverter.modules > 0 /\ "160" \in answered /\ c.sunspec_model_160_enabled
<1>1. c.pv_string_count \in Int
  BY ConfigurationsAssumption DEF Setting
<1>2. /\ inverter.model \in {"none", "101", "103", "111", "113"}
      /\ inverter.scale \in 0 .. 6
      /\ inverter.modules \in Nat
      /\ inverter.model \in {"111", "113"} => inverter.layout \in Int \X Int \X Int
  BY PlantsAssumption DEF Setting
<1>3. Reading(r)
  BY InverterReading
<1>4. own \subseteq InverterFields /\ own \subseteq InverterMeasures(inverter)
  BY DEF OwnFields, InverterMeasures
<1>5. inverter.model \in {"111", "113"} => own \subseteq DOMAIN r
  BY DEF OwnFields, FloatModels
<1>6. Misses(own, MisreadNames(inverter.model))
  <2>1. \A f \in own : f \in InverterFields \ Misread
    BY <1>4 DEF OwnFields
  <2> HIDE DEF own
  <2> QED  BY <2>1, MisreadIs DEF Misses
<1>7. \A name \in Powers : \A p \in 1 .. 3 : <<name, p>> \notin own
  <2>1. ASSUME NEW name \in Powers, NEW p \in 1 .. 3
        PROVE  <<name, p>> \notin InverterMeasures(inverter)
    BY <2>1 DEF InverterMeasures
  <2> HIDE DEF own, inverter
  <2> QED  BY <1>4, <2>1
<1>8. strings \subseteq PvFields
  BY DEF PvMeasures
<1>9. ASSUME read PROVE ReadsStrings(c, inverter, r, answered, strings)
  <2>1. \A f \in strings : f[2] \in (1 .. StringCount(c)) \cap (1 .. inverter.modules)
    BY <1>9, Zenon DEF PvMeasures
  <2> HIDE DEF strings, inverter, c
  <2>2. \A f \in strings : f[2] \in 1 .. StringCount(c) /\ f[2] <= inverter.modules
    BY <1>2, <2>1
  <2> QED  BY <1>8, <1>9, <2>2 DEF ReadsStrings
<1>10. ASSUME ~read PROVE ReadsStrings(c, inverter, r, answered, strings)
  <2>1. \A f \in strings : f[2] \in ToldStrings(c, answered) /\ Believed(c, r, answered)
    BY <1>10, Zenon DEF PvMeasures, ToldStrings, Believed
  <2> HIDE DEF strings, inverter, c
  <2> QED  BY <1>8, <1>10, <2>1 DEF ReadsStrings
<1>11. /\ InverterTells(inverter, r)
       /\ Describes(inverter)
  BY <1>2 DEF Describes
<1> HIDE DEF own, strings, c, inverter
<1>12. MeasuresOwn(inverter, r, own)
  BY <1>4, <1>5, <1>6, <1>7 DEF MeasuresOwn
<1>13. ReadsStrings(c, inverter, r, answered, strings)
  BY <1>9, <1>10
<1>14. LET m == WithSyntheticPv(c, FroniusValues(c, inverter, r, answered, short))
       IN  /\ Agrees(m, r, own)
           /\ ~c.synthetic_pv_enabled => Agrees(m, r, strings)
           /\ inverter.model = "none" => InverterFields \cap DOMAIN m = {}
  BY <1>1, <1>3, <1>11, <1>12, <1>13, FroniusAgrees
<1> QED  BY <1>14 DEF own, strings, c, inverter, InverterUpdate

------------------------------------------------------------------------------
(* What the devices tell, refresh by refresh *)

\* What the snapshot keeps of a measured value, and the fields that no device measures
\* below zero.
ShownOf(f, v) ==
  IF f \in MeterFields THEN MeterPart(f[1], v)
  ELSE IF f \in BatteryFields THEN BatteryPart(f, v) ELSE v
NotNegative(f) ==
  \/ f[1] \in {"pv_voltage", "pv_current", "pv_power", "inverter_voltage", "inverter_current",
               "inverter_frequency", "meter_voltage", "meter_current", "meter_energy_import",
               "meter_energy_export", "meter_frequency", "battery_soc", "battery_health"}
  \/ f = <<"inverter_apparent_power", 0>>
Told(f, s, v) == v \in Int /\ s = ShownOf(f, v) /\ (NotNegative(f) => v >= 0)

LEMMA ToldNotNegative ==
  ASSUME NEW kind \in Unsigned, NEW v \in Int, NEW unit \in UnitsTold, Tells(kind, unit, v)
  PROVE  v >= 0
<1> DEFINE q == v \div unit
<1>1. Makes(kind, unit, v, q)
  BY ToldWhole, Zenon
<1> HIDE DEF q
<1>2. q \in Int /\ 0 <= q
  BY <1>1 DEF Makes, Holds, Unsigned
<1>3. unit * q = v
  BY <1>1, Zenon DEF Makes
<1> QED  BY <1>2, <1>3 DEF UnitsTold

LEMMA MeterNotNegative ==
  ASSUME NEW r \in [MeterFields \ AddedUp -> Int], MeterTells(r),
         NEW f \in MeterFields \ AddedUp, NotNegative(f)
  PROVE  r[f] >= 0
<1>1. f[1] \in {"meter_voltage", "meter_current", "meter_energy_import",
                "meter_energy_export", "meter_frequency"}
  BY DEF NotNegative, MeterFields
<1>2. CASE f[1] \in {"meter_voltage", "meter_current"}
  <2>1. PICK p \in Phases : f = <<"meter_voltage", p>> \/ f = <<"meter_current", p>>
    BY <1>2 DEF MeterFields
  <2> QED  BY <2>1 DEF MeterTells
<1>3. CASE f[1] = "meter_energy_import"
  <2>1. PICK p \in 0 .. 3 : f = <<"meter_energy_import", p>>
    BY <1>3 DEF MeterFields
  <2>2. Tells("u32", 10, r[f])
    BY <2>1 DEF MeterTells
  <2> QED  BY <2>2, ToldNotNegative DEF Unsigned, UnitsTold
<1>4. CASE f[1] = "meter_energy_export"
  <2>1. f = <<"meter_energy_export", 0>>
    BY <1>4 DEF MeterFields
  <2>2. Tells("u32", 10, r[f])
    BY <2>1 DEF MeterTells
  <2> QED  BY <2>2, ToldNotNegative DEF Unsigned, UnitsTold
<1>5. CASE f[1] = "meter_frequency"
  <2>1. f = <<"meter_frequency", 0>>
    BY <1>5 DEF MeterFields
  <2> QED  BY <2>1 DEF MeterTells
<1> QED  BY <1>1, <1>2, <1>3, <1>4, <1>5

LEMMA BatteryNotNegative ==
  ASSUME NEW c, NEW r \in [BatteryFields -> Int], BatteryTells(c, r), NEW f \in BatteryFields,
         NotNegative(f)
  PROVE  r[f] >= 0
<1>1. f = <<"battery_soc", 0>> \/ f = <<"battery_health", 0>>
  BY DEF NotNegative, BatteryFields
<1>2. r[<<"battery_soc", 0>>] >= 0
  BY DEF BatteryTells
<1>3. Tells("u16", 100, r[<<"battery_health", 0>>])
  BY DEF BatteryTells
<1> QED  BY <1>1, <1>2, <1>3, ToldNotNegative DEF Unsigned, UnitsTold

LEMMA StringNotNegative ==
  ASSUME NEW r, StringsTell(r), NEW f \in PvFields \ {<<"pv_power", 0>>}, r[f] \in Int
  PROVE  r[f] >= 0
<1>1. PICK i \in Strings :
        f = <<"pv_voltage", i>> \/ f = <<"pv_current", i>> \/ f = <<"pv_power", i>>
  BY DEF PvFields, Strings
<1>2. CASE f = <<"pv_current", i>>
  <2>0. UnsignedTells(10, r[<<"pv_current", i>>])
    BY Zenon DEF StringsTell
  <2>1. Tells("u16", 10, r[<<"pv_current", i>>])
    BY <2>0 DEF UnsignedTells
  <2> QED  BY <1>2, <2>1, ToldNotNegative DEF Unsigned, UnitsTold
<1>3. CASE f = <<"pv_voltage", i>> \/ f = <<"pv_power", i>>
  BY <1>3 DEF StringsTell
<1> QED  BY <1>1, <1>2, <1>3

LEMMA InverterNotNegative ==
  ASSUME NEW inverter, inverter.model \in {"101", "103", "111", "113"},
         NEW r, InverterTells(inverter, r), NEW f \in InverterFields \cap DOMAIN r,
         f[1] \notin MisreadNames(inverter.model), r[f] \in Int, NotNegative(f)
  PROVE  r[f] >= 0
<1>1. \/ f[1] \in {"inverter_voltage", "inverter_current", "inverter_frequency"}
      \/ f = <<"inverter_apparent_power", 0>>
  BY DEF NotNegative, InverterFields
<1>2. CASE inverter.model \in {"111", "113"}
  BY <1>1, <1>2 DEF InverterTells, FloatsTell
<1>3. CASE inverter.model \in {"101", "103"}
  <2>1. IntegersTell(r, inverter.scale)
    BY <1>3 DEF InverterTells
  <2>2. "inverter_apparent_power" \in MisreadNames(inverter.model)
    BY <1>3 DEF MisreadNames, Powers
  <2>3. f[1] \in {"inverter_voltage", "inverter_current", "inverter_frequency"}
    BY <1>1, <2>2
  <2>4. f[1] \in {"inverter_current", "inverter_frequency"} => Tells("u16", 10, r[f])
    BY <2>1 DEF IntegersTell, UnsignedTells
  <2>5. f[1] = "inverter_voltage" => Tells("u16", 100, r[f])
    BY <2>1 DEF IntegersTell, UnsignedTells
  <2>6. PICK unit \in UnitsTold : Tells("u16", unit, r[f])
    BY <2>3, <2>4, <2>5 DEF UnitsTold
  <2> QED  BY <2>6, ToldNotNegative DEF Unsigned
<1> QED  BY <1>2, <1>3

\* What one refresh delivers and the devices measured.
Truthful == PlantsMeasurable /\ ~BusyBridge

LEMMA MeterDelivers ==
  ASSUME Setting, Truthful, NEW m \in plant.meters,
         NEW words \in Em540Replies(plant.base, Em540Registers(m)), NEW u, NEW known,
         NEW f \in MeterFields \ Synthetic, f \in DOMAIN m,
         From(u, f, cfg.em540_bridge, MeterUpdate(words)), f \in DOMAIN u, known = m[f]
  PROVE  Told(f, u[f], known)
<1>1. m \in [MeterFields \ AddedUp -> Int]
  BY PlantsAssumption DEF Setting
<1>2. MeterTells(m) /\ ~BusyBridge
  BY DEF Setting, Truthful, PlantsMeasurable
<1>3. f \in MeterFields \ (AddedUp \cup Synthetic)
  BY <1>1
<1>4. u[f] = MeterPart(f[1], m[f])
  BY <1>2, <1>3, MeterUpdateShows DEF From
<1>5. m[f] \in Int
  BY <1>1, <1>3
<1>6. NotNegative(f) => m[f] >= 0
  BY <1>1, <1>2, <1>3, MeterNotNegative
<1> QED  BY <1>4, <1>5, <1>6 DEF Told, ShownOf

LEMMA BatteryDelivers ==
  ASSUME Setting, Truthful, NEW b \in plant.batteries, NEW answered, NEW u, NEW known,
         NEW f \in BatteryFields,
         From(u, f, cfg.victron, BatteryUpdate(b, answered)), f \in DOMAIN u, known = b[f]
  PROVE  Told(f, u[f], known)
<1>1. b \in [BatteryFields -> Int]
  BY PlantsAssumption DEF Setting
<1>2. BatteryTells(cfg.victron, b)
  BY DEF Setting, Truthful, PlantsMeasurable
<1>3. u[f] = BatteryPart(f, b[f])
  BY <1>2, BatteryUpdateShows DEF From
<1>4. b[f] \in Int
  BY <1>1
<1>5. NotNegative(f) => b[f] >= 0
  BY <1>1, <1>2, BatteryNotNegative
<1>6. f \notin MeterFields
  BY FieldsApart
<1> QED  BY <1>3, <1>4, <1>5, <1>6 DEF Told, ShownOf

LEMMA InverterDelivers ==
  ASSUME Setting, Truthful, NEW i \in plant.inverters, NEW answered, NEW short \in BOOLEAN,
         NEW u, NEW known, NEW f \in InverterFields \ Misread,
         From(u, f, cfg.fronius, InverterUpdate(i, answered, short)), f \in DOMAIN u,
         f \in InverterMeasures(plant.inverter),
         f \in DOMAIN i \/ plant.inverter.model \notin FloatModels,
         known = SaidOf(i, f)
  PROVE  Told(f, u[f], known)
<1> DEFINE inverter == plant.inverter
           data == InverterUpdate(i, answered, short)
<1>1. inverter.model \in {"none", "101", "103", "111", "113"}
  BY PlantsAssumption DEF Setting
<1>2. \A g \in DOMAIN i : i[g] \in Int
  BY InverterReading DEF Reading
<1>3. InverterTells(inverter, i)
  BY DEF Setting, Truthful, PlantsMeasurable
<1>4. /\ Agrees(data, i, OwnFields(i))
      /\ inverter.model = "none" => InverterFields \cap DOMAIN data = {}
  BY <1>3, InverterUpdateShows
<1>5. f \in DOMAIN data /\ u[f] = data[f]
  BY DEF From
<1>6. f \in OwnFields(i)
  BY DEF OwnFields
<1>7. u[f] = known
  BY <1>4, <1>5, <1>6 DEF Agrees
<1>8. inverter.model \in {"101", "103", "111", "113"}
  BY <1>1, <1>4, <1>5
<1>9. known \in Int
  BY <1>2 DEF SaidOf
<1>10. NotNegative(f) => known >= 0
  <2> HIDE DEF inverter
  <2>1. CASE f \in DOMAIN i
    <3>1. f[1] \notin MisreadNames(inverter.model)
      BY MisreadIs DEF inverter
    <3> QED  BY <1>2, <1>3, <1>8, <2>1, <3>1, InverterNotNegative DEF SaidOf
  <2>2. CASE f \notin DOMAIN i
    BY <2>2 DEF SaidOf
  <2> QED  BY <2>1, <2>2
<1>11. f \notin MeterFields /\ f \notin BatteryFields
  BY FieldsApart
<1> QED  BY <1>7, <1>9, <1>10, <1>11 DEF Told, ShownOf

LEMMA StringsDeliver ==
  ASSUME Setting, Truthful, NEW i \in plant.inverters, NEW answered, NEW short \in BOOLEAN,
         NEW u, NEW known, NEW f \in PvFields \ Synthetic,
         From(u, f, cfg.fronius, InverterUpdate(i, answered, short)), f \in DOMAIN u,
         f \in PvMeasures(cfg.fronius, plant.inverter, i, answered),
         f \in DOMAIN i, known = i[f]
  PROVE  Told(f, u[f], known)
<1> DEFINE data == InverterUpdate(i, answered, short)
<1>1. \A g \in DOMAIN i : i[g] \in Int
  BY InverterReading DEF Reading
<1>2. InverterTells(plant.inverter, i)
  BY DEF Setting, Truthful, PlantsMeasurable
<1>3. ~cfg.fronius.synthetic_pv_enabled
  BY DEF Synthetic
<1>4. f # <<"pv_power", 0>>
  <2>1. f[2] \in 1 .. StringCount(cfg.fronius)
    BY Zenon DEF PvMeasures
  <2> QED  BY <2>1
<1>5. Agrees(data, i, PvMeasures(cfg.fronius, plant.inverter, i, answered))
  BY <1>2, <1>3, InverterUpdateShows
<1>6. f \in DOMAIN data /\ u[f] = data[f]
  BY DEF From
<1>8. u[f] = known
  BY <1>5, <1>6 DEF Agrees, SaidOf
<1>9. known \in Int /\ known >= 0
  BY <1>1, <1>2, <1>4, StringNotNegative DEF InverterTells
<1>10. f \notin MeterFields /\ f \notin BatteryFields
  BY FieldsApart
<1> QED  BY <1>8, <1>9, <1>10 DEF Told, ShownOf

LEMMA RefreshTells ==
  ASSUME Setting, Truthful, NEW m \in plant.meters, NEW i \in plant.inverters,
         NEW b \in plant.batteries, NEW words \in Em540Replies(plant.base, Em540Registers(m)),
         NEW answered, NEW short \in BOOLEAN, NEW u, u = Update(words, i, b, answered, short),
         NEW known, known = Known(m, i, b, answered),
         NEW f \in ((DOMAIN u) \cap DOMAIN known) \ (Synthetic \cup Misread)
  PROVE  Told(f, u[f], known[f])
<1>1. /\ \A g \in MeterFields : From(u, g, cfg.em540_bridge, MeterUpdate(words))
      /\ \A g \in InverterFields \cup PvFields :
           From(u, g, cfg.fronius, InverterUpdate(i, answered, short))
      /\ \A g \in BatteryFields : From(u, g, cfg.victron, BatteryUpdate(b, answered))
  BY SourceOf
<1>2. /\ \A g \in MeterFields \cap DOMAIN known : g \in DOMAIN m /\ known[g] = m[g]
      /\ \A g \in InverterFields \cap DOMAIN known :
           /\ g \in InverterMeasures(plant.inverter)
           /\ g \in DOMAIN i \/ plant.inverter.model \notin FloatModels
           /\ known[g] = SaidOf(i, g)
      /\ \A g \in PvFields \cap DOMAIN known :
           /\ g \in PvMeasures(cfg.fronius, plant.inverter, i, answered)
           /\ g \in DOMAIN i /\ known[g] = i[g]
      /\ \A g \in BatteryFields \cap DOMAIN known : known[g] = b[g]
  BY KnownOf
<1>3. f \in Fields
  BY KnownFields
<1>4. CASE f \in MeterFields
  <2>1. /\ From(u, f, cfg.em540_bridge, MeterUpdate(words))
        /\ f \in DOMAIN m /\ known[f] = m[f]
    BY <1>1, <1>2, <1>4
  <2> QED  BY <1>4, <2>1, MeterDelivers
<1>5. CASE f \in BatteryFields
  <2>1. From(u, f, cfg.victron, BatteryUpdate(b, answered)) /\ known[f] = b[f]
    BY <1>1, <1>2, <1>5
  <2> QED  BY <1>5, <2>1, BatteryDelivers
<1>6. CASE f \in InverterFields
  <2>1. /\ From(u, f, cfg.fronius, InverterUpdate(i, answered, short))
        /\ f \in InverterMeasures(plant.inverter)
        /\ f \in DOMAIN i \/ plant.inverter.model \notin FloatModels
        /\ known[f] = SaidOf(i, f)
    BY <1>1, <1>2, <1>6
  <2> QED  BY <1>6, <2>1, InverterDelivers
<1>7. CASE f \in PvFields
  <2>1. /\ From(u, f, cfg.fronius, InverterUpdate(i, answered, short))
        /\ f \in PvMeasures(cfg.fronius, plant.inverter, i, answered)
        /\ f \in DOMAIN i /\ known[f] = i[f]
    BY <1>1, <1>2, <1>7
  <2> QED  BY <1>7, <2>1, StringsDeliver
<1> QED  BY <1>3, <1>4, <1>5, <1>6, <1>7 DEF Fields

\* Of every field that the clients look for where it is, the snapshot keeps what is shown of
\* the last value that a device told of it.
MeasuredInv ==
  \A f \in DOMAIN measured \ (Synthetic \cup Misread) : Told(f, snapshot[f], measured[f])

LEMMA MeasuredStep == PublishedInv /\ Truthful /\ MeasuredInv /\ [Next]_vars => MeasuredInv'
<1> SUFFICES ASSUME PublishedInv, Truthful, MeasuredInv, [Next]_vars PROVE MeasuredInv'
  OBVIOUS
<1>1. ASSUME NEW m \in plant.meters, NEW i \in plant.inverters, NEW b \in plant.batteries,
             NEW answered, NEW short \in BOOLEAN, Refresh(m, i, b, answered, short)
      PROVE  MeasuredInv'
  <2> DEFINE After(u, known) ==
               [f \in (DOMAIN measured \ DOMAIN u) \cup (DOMAIN known \cap DOMAIN u) |->
                  IF f \in DOMAIN u THEN known[f] ELSE measured[f]]
             Step(u, known) == /\ snapshot' = Merge(snapshot, u)
                               /\ measured' = After(u, known)
                               /\ cfg' = cfg /\ plant' = plant
  <2>1. PICK words \in Em540Replies(plant.base, Em540Registers(m)) :
          \E update \in Delivered(words, i, b, answered, short) :
            \E known \in {Known(m, i, b, answered)} : Step(update, known)
    BY <1>1 DEF Refresh
  <2>2. PICK u \in Delivered(words, i, b, answered, short) :
          \E known \in {Known(m, i, b, answered)} : Step(u, known)
    BY <2>1
  <2>3. PICK known \in {Known(m, i, b, answered)} : Step(u, known)
    BY <2>2
  <2>4. Setting /\ DOMAIN measured \subseteq Fields
    BY DEF PublishedInv
  <2>5. u = Update(words, i, b, answered, short)
    BY RefreshDelivers
  <2>6. known = Known(m, i, b, answered)
    OBVIOUS
  <2>7. DOMAIN known \subseteq Fields
    BY <2>6, KnownFields
  <2> HIDE DEF Step
  <2> DEFINE next == After(u, known)
             merged == Merge(snapshot, u)
  <2>8. \A f : f \in DOMAIN next <=> \/ f \in DOMAIN measured /\ f \notin DOMAIN u
                                     \/ f \in DOMAIN known /\ f \in DOMAIN u
    OBVIOUS
  <2>9. ASSUME NEW f \in DOMAIN next
        PROVE  /\ f \in Fields
               /\ f \in DOMAIN u => /\ f \in DOMAIN known
                                    /\ next[f] = known[f] /\ merged[f] = u[f]
               /\ f \notin DOMAIN u => /\ f \in DOMAIN measured
                                       /\ next[f] = measured[f] /\ merged[f] = snapshot[f]
    BY <2>4, <2>7, <2>8, <2>9 DEF Merge
  <2> HIDE DEF next, merged
  <2>10. ASSUME NEW f \in DOMAIN next \ (Synthetic \cup Misread)
         PROVE  Told(f, merged[f], next[f])
    <3>1. CASE f \in DOMAIN u
      <4>1. /\ f \in ((DOMAIN u) \cap DOMAIN known) \ (Synthetic \cup Misread)
            /\ next[f] = known[f] /\ merged[f] = u[f]
        BY <2>9, <3>1
      <4>2. Told(f, u[f], known[f])
        BY <2>4, <2>5, <2>6, <4>1, RefreshTells
      <4> QED  BY <4>1, <4>2
    <3>2. CASE f \notin DOMAIN u
      BY <2>9, <3>2 DEF MeasuredInv
    <3> QED  BY <3>1, <3>2
  <2>11. snapshot' = merged /\ measured' = next /\ cfg' = cfg /\ plant' = plant
    BY <2>3 DEF Step, next, merged
  <2> QED  BY <2>10, <2>11 DEF MeasuredInv, Told, ShownOf, BatteryPart, PackVoltage, PackCurrent,
               Synthetic, Misread
<1>2. CASE Next
  BY <1>1, <1>2 DEF Next
<1>3. CASE UNCHANGED vars
  BY <1>3 DEF vars, MeasuredInv, Told, ShownOf, BatteryPart, PackVoltage, PackCurrent, Synthetic,
         Misread
<1> QED  BY <1>2, <1>3

LEMMA MeasuredInit == Init => MeasuredInv
BY DEF Init, MeasuredInv

\* A field is measured only after the registers were first written.
MeasuredMap ==
  DOMAIN measured # {} =>
    \E short \in BOOLEAN :
      registers = BuildRegisterMap(snapshot, cfg.goodwe_emulator, short)

LEMMA MeasuredMapStep == MeasuredMap /\ [Next]_vars => MeasuredMap'
<1> SUFFICES ASSUME MeasuredMap, [Next]_vars PROVE MeasuredMap'
  OBVIOUS
<1>1. ASSUME NEW m, NEW i, NEW b, NEW answered, NEW short \in BOOLEAN,
             Refresh(m, i, b, answered, short)
      PROVE  MeasuredMap'
  <2>1. registers' = BuildRegisterMap(snapshot', cfg.goodwe_emulator, short) /\ cfg' = cfg
    BY <1>1, Zenon DEF Refresh
  <2> QED  BY <2>1 DEF MeasuredMap
<1>2. CASE Next
  BY <1>1, <1>2 DEF Next
<1>3. CASE UNCHANGED vars
  BY <1>3 DEF vars, MeasuredMap
<1> QED  BY <1>2, <1>3

------------------------------------------------------------------------------
(* What a master reads of it *)

\* The rows of the table, beyond where they lie.
RowShape(row) ==
  /\ row.unit \in Units
  /\ row.kind \in Unsigned =>
       \/ NotNegative(row.field)
       \/ row.field \in {<<"battery_voltage", 0>>, <<"battery_temperature", 0>>}
  /\ row.field[1] \in MeterPowers => row.kind \in {"i16", "i32"} /\ row.unit = 10
  /\ row.field[1] = "battery_temperature" =>
       row.kind = "u16" /\ row.at = 37003 /\ row.unit = 100

LEMMA TableShape == \A row \in RegisterTable : RowShape(row)
<1>1. ASSUME NEW i \in Strings, NEW row \in StringTable(i) PROVE RowShape(row)
  BY <1>1 DEF StringTable, Row, RowShape, Units, Unsigned, NotNegative,
     MeterPowers, Strings
<1>2. ASSUME NEW p \in Phases, NEW row \in PhaseTable(p) PROVE RowShape(row)
  BY <1>2 DEF PhaseTable, Row, RowShape, Units, Unsigned, NotNegative,
     MeterPowers, Phases
<1>3. ASSUME NEW row \in SingleTable PROVE RowShape(row)
  BY <1>3 DEF SingleTable, Row, RowShape, Units, Unsigned, NotNegative,
     MeterPowers
<1> DEFINE strings == {StringTable(i) : i \in Strings}
           phases == {PhaseTable(p) : p \in Phases}
<1>4. RegisterTable = (UNION strings) \cup (UNION phases) \cup SingleTable
  BY DEF RegisterTable, StringTable, PhaseTable, SingleTable
<1>5. /\ \A S \in strings : \A row \in S : RowShape(row)
      /\ \A S \in phases : \A row \in S : RowShape(row)
  BY <1>1, <1>2
<1> HIDE DEF strings, phases
<1>6. ASSUME NEW row \in RegisterTable PROVE RowShape(row)
  <2>1. row \in UNION strings \/ row \in UNION phases \/ row \in SingleTable
    BY <1>4, <1>6, Zenon
  <2> QED  BY <1>3, <1>5, <2>1, Zenon
<1> QED  BY <1>6, Zenon

\* Tenths of a watt of which the whole watts are shown.
LEMMA WattsRead ==
  ASSUME NEW kind \in {"i16", "i32"}, NEW v \in Int, FitsInto(kind, v \div 10)
  PROVE  /\ Trunc(v, 10) \in Int /\ Holds(kind, Trunc(v, 10))
         /\ Close(v, 10, Trunc(v, 10))
<1> DEFINE k == Trunc(v, 10)
           q == v \div 10
<1>1. /\ k \in Int
      /\ v >= 0 => 0 <= k /\ k * 10 <= v /\ v < (k + 1) * 10
      /\ v <= 0 => k <= 0 /\ v <= k * 10 /\ (k - 1) * 10 < v
  BY DEF Trunc
<1>2. q \in Int /\ q * 10 <= v /\ v < (q + 1) * 10
  OBVIOUS
<1>3. FitsInto(kind, q)
  OBVIOUS
<1> HIDE DEF k, q
<1>4. (v >= 0 => k = q) /\ (v < 0 => q <= k /\ k <= 0 /\ q < 0)
  BY <1>1, <1>2
<1>5. Holds(kind, k)
  BY <1>1, <1>2, <1>3, <1>4 DEF Holds, FitsInto, WordSize
<1>6. Close(v, 10, k)
  BY <1>1 DEF Close
<1> QED  BY <1>1, <1>5, <1>6 DEF k

LEMMA ShownPack ==
  ASSUME NEW v
  PROVE  /\ ShownOf(<<"battery_voltage", 0>>, v) = PackVoltage(v)
         /\ ShownOf(<<"battery_current", 0>>, v) = PackCurrent(v)
<1> DEFINE f == <<"battery_voltage", 0>>
           g == <<"battery_current", 0>>
<1>1. f \in BatteryFields /\ g \in BatteryFields
  BY DEF BatteryFields
<1>2. f \notin MeterFields /\ g \notin MeterFields
  BY <1>1, FieldsApart
<1>3. f # g
  OBVIOUS
<1>4. BatteryPart(f, v) = PackVoltage(v) /\ BatteryPart(g, v) = PackCurrent(v)
  BY <1>3, Zenon DEF BatteryPart
<1> QED  BY <1>1, <1>2, <1>4 DEF ShownOf

LEMMA ShownAsIs ==
  ASSUME NEW f, NEW v, f[1] \notin MeterPowers, f # <<"battery_voltage", 0>>,
         f # <<"battery_current", 0>>
  PROVE  ShownOf(f, v) = v
<1>1. BatteryPart(f, v) = v /\ MeterPart(f[1], v) = v
  BY Zenon DEF BatteryPart, MeterPart
<1> QED  BY <1>1 DEF ShownOf

\* Except of the meter's powers and of the temperature, a master expects what the snapshot
\* has.
LEMMA ExpectedIsShown ==
  ASSUME Setting, NEW f \in Fields, f \in DOMAIN measured, measured[f] \in Int,
         f[1] \notin MeterPowers, f[1] # "battery_temperature"
  PROVE  Expected(f) = ShownOf(f, measured[f])
<1> DEFINE v == measured[f]
           c == cfg.victron
           pack == Trunc(v * c.battery_scale[1], c.battery_scale[2])
           low == c.battery_voltage_min_v
           high == c.battery_voltage_max_v
<1>1. CASE f[1] = "battery_voltage"
  <2>1. f = <<"battery_voltage", 0>>
    BY <1>1 DEF Fields, MeterFields, InverterFields, PvFields, BatteryFields
  <2>2. ShownOf(f, v) = Within(low, high, pack)
    BY <2>1, ShownPack, Zenon DEF PackVoltage
  <2>3. Expected(f) = IF pack < low THEN low ELSE IF pack > high THEN high ELSE pack
    BY <1>1 DEF Expected
  <2>4. pack \in Int
    <3>1. /\ c.battery_scale \in Int \X (Nat \ {0})
      BY ConfigurationsAssumption DEF Setting
    <3>2. \A x \in Int : Trunc(x, c.battery_scale[2]) \in Int
      BY <3>1, TruncWithinUnit
    <3>3. v * c.battery_scale[1] \in Int
      BY <3>1
    <3> QED  BY <3>2, <3>3
  <2>5. low \in Int /\ high \in Int /\ low < high
    BY ConfigurationsAssumption DEF Setting, Accepted, Bounds
  <2> HIDE DEF pack, low, high, v, c
  <2> QED  BY <2>2, <2>3, <2>4, <2>5 DEF Within, v
<1>2. CASE f[1] = "battery_current"
  <2>1. f = <<"battery_current", 0>>
    BY <1>2 DEF Fields, MeterFields, InverterFields, PvFields, BatteryFields
  <2>2. ShownOf(f, v) = Trunc(v * c.battery_scale[2], c.battery_scale[1])
    BY <2>1, ShownPack, Zenon DEF PackCurrent
  <2>3. Expected(f) = Trunc(v * c.battery_scale[2], c.battery_scale[1])
    BY <1>2 DEF Expected
  <2> QED  BY <2>2, <2>3
<1>3. CASE f[1] \notin {"battery_voltage", "battery_current"}
  <2>1. Expected(f) = v
    BY <1>3 DEF Expected
  <2>2. f # <<"battery_voltage", 0>> /\ f # <<"battery_current", 0>>
    BY <1>3
  <2> QED  BY <2>1, <2>2, ShownAsIs
<1> QED  BY <1>1, <1>2, <1>3

\* The pack voltage is not negative.
LEMMA PackNotNegative ==
  ASSUME Setting, NEW v \in Int
  PROVE  PackVoltage(v) >= 0
<1> DEFINE c == cfg.victron
           pack == Trunc(v * c.battery_scale[1], c.battery_scale[2])
           low == c.battery_voltage_min_v
           high == c.battery_voltage_max_v
<1>1. c.battery_scale \in Int \X (Nat \ {0})
  BY ConfigurationsAssumption DEF Setting
<1>2. \A x \in Int : Trunc(x, c.battery_scale[2]) \in Int
  BY <1>1, TruncWithinUnit
<1>3. v * c.battery_scale[1] \in Int
  BY <1>1
<1>4. pack \in Int
  BY <1>2, <1>3
<1>5. low \in Int /\ high \in Int /\ 0 <= low /\ low < high
  BY ConfigurationsAssumption DEF Setting, Accepted, Bounds
<1>6. PackVoltage(v) = Within(low, high, pack)
  BY Zenon DEF PackVoltage
<1> HIDE DEF pack, low, high, c
<1> QED  BY <1>4, <1>5, <1>6 DEF Within

\* One row, of a field that was measured and is not invented.
LEMMA RowReads ==
  ASSUME PublishedInv, NEW row, RowCarried(row), RowShape(row), BatteryCarries,
         row.field \in DOMAIN measured,
         Told(row.field, snapshot[row.field], measured[row.field]),
         FitsInto(row.kind, Expected(row.field) \div row.unit)
  PROVE  Reads(row, row.unit, Expected(row.field))
<1> DEFINE f == row.field
           v == measured[f]
           s == snapshot[f]
           kind == row.kind
           unit == row.unit
<1>0. FitsInto(kind, Expected(f) \div unit)
  OBVIOUS
<1>1. /\ LaidOut(registers) /\ Setting
      /\ kind \in Kinds /\ row.at \in Int /\ f \in Fields /\ unit \in Units
  BY DEF PublishedInv, RowCarried, RowShape
<1>2. v \in Int /\ s = ShownOf(f, v) /\ (NotNegative(f) => v >= 0)
  BY DEF Told
<1>3. s \in Int
  BY <1>1 DEF PublishedInv
<1>4. CASE f[1] \in MeterPowers
  <2>1. f \in MeterFields
    BY <1>1, <1>4 DEF Fields, MeterFields, InverterFields, PvFields, BatteryFields, MeterPowers
  <2>2. s = Trunc(v, 10)
    BY <1>2, <1>4, <2>1 DEF ShownOf, MeterPart
  <2>3. Expected(f) = v
    BY <1>4 DEF Expected, MeterPowers
  <2>4. kind \in {"i16", "i32"} /\ unit = 10
    BY <1>4 DEF RowShape
  <2>5. Written(kind, row.at, s)
    BY <1>4 DEF RowCarried
  <2>6. FitsInto(kind, v \div 10)
    BY <2>3, <2>4
  <2> HIDE DEF f, v, s, kind, unit
  <2>7. Holds(kind, s) /\ Close(v, 10, s)
    BY <1>2, <2>2, <2>4, <2>6, WattsRead
  <2>8. Decoded(kind, row.at) = s
    BY <1>1, <1>3, <2>5, <2>7, ReadBack DEF Written
  <2>9. Close(Expected(f), unit, Decoded(kind, row.at))
    BY <2>3, <2>4, <2>7, <2>8
  <2> QED  BY <2>9 DEF Reads, Close, f, kind, unit
<1>5. CASE f[1] = "battery_temperature"
  <2>1. f = <<"battery_temperature", 0>>
    BY <1>1, <1>5 DEF Fields, MeterFields, InverterFields, PvFields, BatteryFields
  <2>2. /\ f # <<"battery_voltage", 0>> /\ f # <<"battery_current", 0>>
        /\ f[1] \notin MeterPowers
    BY <2>1 DEF MeterPowers
  <2>3. s = v
    BY <1>2, <2>2, ShownAsIs
  <2>4. Expected(f) = Positive(v)
    BY <1>5 DEF Expected
  <2>5. kind = "u16" /\ row.at = 37003 /\ unit = 100
    BY <1>5 DEF RowShape
  <2>6. Carries(kind, row.at, unit, Positive(s))
    BY <2>1, <2>5 DEF BatteryCarries
  <2>7. Positive(v) \in Int /\ Positive(v) >= 0
    BY <1>2 DEF Positive
  <2>8. FitsInto("u16", Positive(v) \div 100)
    BY <2>4, <2>5
  <2>9. Carries(kind, row.at, unit, Positive(v)) /\ unit \in Int
    BY <2>3, <2>5, <2>6
  <2> HIDE DEF f, v, s, kind, unit
  <2>10. Holds(kind, Positive(v) \div unit)
    BY <2>5, <2>7, <2>8 DEF Holds
  <2>11. Close(Positive(v), unit, Decoded(kind, row.at))
    BY <1>1, <2>7, <2>9, <2>10, CarriedIsRead
  <2>12. Close(Expected(f), unit, Decoded(kind, row.at))
    BY <2>4, <2>11
  <2> QED  BY <2>12 DEF Reads, Close, f, kind, unit
<1>6. CASE f[1] \notin MeterPowers /\ f[1] # "battery_temperature"
  <2>1. Expected(f) = s
    BY <1>1, <1>2, <1>6, ExpectedIsShown
  <2>2. SnapshotUnit(row) = unit
    BY <1>6 DEF SnapshotUnit
  <2>3. Carries(kind, row.at, unit, s)
    BY <2>2 DEF RowCarried
  <2>4. kind \in Unsigned => s >= 0
    <3>1. CASE NotNegative(f)
      <4>1. f # <<"battery_voltage", 0>> /\ f # <<"battery_current", 0>>
        BY <3>1 DEF NotNegative
      <4>2. s = v
        BY <1>2, <1>6, <4>1, ShownAsIs
      <4> QED  BY <1>2, <3>1, <4>2
    <3>2. CASE f = <<"battery_voltage", 0>>
      <4>1. s = PackVoltage(v)
        BY <1>2, <3>2, ShownPack
      <4> QED  BY <1>1, <1>2, <4>1, PackNotNegative
    <3>3. f # <<"battery_temperature", 0>>
      BY <1>6
    <3> QED  BY <3>1, <3>2, <3>3 DEF RowShape
  <2> HIDE DEF f, v, s, kind, unit
  <2>5. FitsInto(kind, s \div unit)
    BY <1>0, <2>1
  <2>6. Holds(kind, s \div unit)
    <3>1. kind \in Unsigned => 0 <= s \div unit
      BY <1>1, <1>3, <2>4 DEF Units
    <3> QED  BY <2>5, <3>1 DEF Holds, Unsigned
  <2>7. Close(Expected(f), unit, Decoded(kind, row.at))
    BY <1>1, <1>3, <2>1, <2>3, <2>6, CarriedIsRead DEF Units
  <2> QED  BY <2>7 DEF Reads, Close, f, kind, unit
<1> QED  BY <1>4, <1>5, <1>6

\* The total at 35137 is the AC power, if there is any.
LEMMA TotalReads ==
  ASSUME PublishedInv, NEW short \in BOOLEAN, RuntimeData(snapshot, short) \subseteq registers,
         <<"inverter_power", 0>> \in DOMAIN measured,
         Told(<<"inverter_power", 0>>, snapshot[<<"inverter_power", 0>>],
              measured[<<"inverter_power", 0>>]),
         Expected(<<"inverter_power", 0>>) # 0,
         FitsInto("i32", Expected(<<"inverter_power", 0>>) \div 1)
  PROVE  Reads(TotalRow, 1, Expected(<<"inverter_power", 0>>))
<1> DEFINE f == <<"inverter_power", 0>>
           v == measured[f]
           s == snapshot[f]
<1>1. /\ LaidOut(registers) /\ Setting /\ snapshot \in [Fields -> Int] /\ f \in Fields
      /\ f[1] \notin MeterPowers /\ f[1] # "battery_temperature"
      /\ f # <<"battery_voltage", 0>> /\ f # <<"battery_current", 0>>
  BY DEF PublishedInv, Fields, InverterFields, MeterPowers
<1>2. v \in Int /\ s = v /\ Expected(f) = v
  <2>1. v \in Int /\ s = ShownOf(f, v)
    BY DEF Told
  <2> QED  BY <1>1, <2>1, ShownAsIs, ExpectedIsShown
<1>3. TotalPower(snapshot) = s
  <2>1. s # 0
    BY <1>2
  <2> QED  BY <2>1 DEF TotalPower, PvTotal
<1>4. Encoded("i32", 35137, s) \subseteq registers
  BY <1>1, <1>3, RuntimeCarried DEF RuntimeCarries, Written
<1>5. TotalRow.kind = "i32" /\ TotalRow.at = 35137
  BY DEF TotalRow, Row
<1> HIDE DEF f, v, s
<1>6. Holds("i32", s)
  <2>1. FitsInto("i32", v \div 1) /\ v \div 1 = v
    BY <1>2 DEF f
  <2> QED  BY <1>2, <2>1 DEF Holds
<1>7. Decoded("i32", 35137) = s
  BY <1>1, <1>2, <1>4, <1>6, ReadBack, Literals
<1>8. Reads(TotalRow, 1, Expected(f))
  BY <1>2, <1>5, <1>7 DEF Reads
<1> QED  BY <1>8 DEF f

\* A master that decodes the registers by the tables finds what the devices last measured,
\* to within a unit of the register and with its sign: through the word orders and scale
\* factors of the clients' decoders, the fields that a payload lacks, the transformations of
\* main.py and the encoders of register_map.py.  The fields that the client looks for
\* elsewhere than the inverter's model has them are excepted.  It holds of every
\* configuration that _validate accepts and of every plant whose devices measure no more
\* than their registers can say, and needs a bridge that answers each request: where the
\* EM540 client takes a busy bridge for a one-based one, it reads the wrong registers.
THEOREM MasterSeesMeasurements ==
  PlantsMeasurable /\ ~BusyBridge /\ Spec => []ShownAsMeasured
<1>1. PublishedInv /\ MeasuredInv /\ MeasuredMap => ShownAsMeasured
  <2> SUFFICES ASSUME PublishedInv, MeasuredInv, MeasuredMap,
                      NEW row \in RegisterTable \cup {TotalRow},
                      row.field \in (Fields \ Misread) \cap (DOMAIN measured \ Synthetic),
                      FitsInto(row.kind, Expected(row.field) \div row.unit),
                      row = TotalRow => Expected(row.field) # 0
               PROVE  Reads(row, row.unit, Expected(row.field))
    BY Zenon DEF ShownAsMeasured, Shows
  <2>1. PICK short \in BOOLEAN :
          registers = BuildRegisterMap(snapshot, cfg.goodwe_emulator, short)
    BY DEF MeasuredMap
  <2>2. LaidOut(registers) /\ snapshot \in [Fields -> Int]
    BY DEF PublishedInv
  <2>3. Told(row.field, snapshot[row.field], measured[row.field])
    BY DEF MeasuredInv
  <2>4. CASE row \in RegisterTable
    <3>1. RowCarried(row)
      BY <2>1, <2>2, <2>4, TableCarried
    <3>2. BatteryCarries
      <4>1. BatteryData(snapshot, short) \subseteq registers
        BY <2>1 DEF BuildRegisterMap
      <4> QED  BY <2>2, <4>1, BatteryCarried
    <3>3. RowShape(row)
      BY <2>4, TableShape
    <3> QED  BY <2>3, <3>1, <3>2, <3>3, RowReads
  <2>5. CASE row = TotalRow
    <3>1. RuntimeData(snapshot, short) \subseteq registers
      BY <2>1 DEF BuildRegisterMap
    <3>2. row.field = <<"inverter_power", 0>> /\ row.kind = "i32" /\ row.unit = 1
      BY <2>5 DEF TotalRow, Row
    <3> QED  BY <2>3, <2>5, <3>1, <3>2, TotalReads
  <2> QED  BY <2>4, <2>5
<1>2. Init => MeasuredMap
  BY DEF Init, MeasuredMap
<1>3. PlantsMeasurable /\ ~BusyBridge => Truthful
  BY DEF Truthful
<1>4. Truthful => Truthful'
  BY DEF Truthful, PlantsMeasurable
<1> QED  BY <1>1, <1>2, <1>3, <1>4, MeasuredInit, MeasuredStep, MeasuredMapStep, PublishedInit,
            PublishedStep, PTL DEF Spec

================================================================================
