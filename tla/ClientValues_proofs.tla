-------------------------- MODULE ClientValues_proofs --------------------------
(****************************************************************************)
(* What the clients deliver, for all registers of their devices: payloads   *)
(* of their own fields, all of them numbers.  No sentinel, scale factor or  *)
(* missing answer leads a client outside of a table or to a division by     *)
(* zero, and none of them writes into another client's fields.  What a      *)
(* device measured, as far as its registers can say it, is what they        *)
(* deliver.                                                                 *)
(****************************************************************************)
EXTENDS Em540Values, VictronValues, FroniusValues, RegisterCodec_proofs

------------------------------------------------------------------------------
(* Maps *)

\* A map of numbers with keys of a set.
Payload(m, keys) == DOMAIN m \subseteq keys /\ \A k \in DOMAIN m : m[k] \in Int

LEMMA Overlay ==
  ASSUME NEW f, NEW g
  PROVE  /\ DOMAIN (f ++ g) = (DOMAIN f) \cup (DOMAIN g)
         /\ \A k \in DOMAIN f : (f ++ g)[k] = f[k]
         /\ \A k \in (DOMAIN g) \ (DOMAIN f) : (f ++ g)[k] = g[k]
BY DEF ++

LEMMA JoinedPayload ==
  ASSUME NEW maps, NEW keys, \A m \in maps : Payload(m, keys)
  PROVE  Payload(Joined(maps), keys)
BY DEF Payload, Joined

LEMMA JoinedInt ==
  ASSUME NEW maps, NEW keys, \A m \in maps : Payload(m, keys), NEW k,
         \E m \in maps : k \in DOMAIN m
  PROVE  Joined(maps)[k] \in Int
BY DEF Payload, Joined

LEMMA OverlayPayload ==
  ASSUME NEW f, NEW g, NEW keys, Payload(f, keys), Payload(g, keys)
  PROVE  Payload(f ++ g, keys)
BY DEF Payload, ++

LEMMA AtPayload ==
  ASSUME NEW k, NEW v \in Int, NEW keys, k \in keys
  PROVE  Payload(At(k, v), keys)
BY DEF Payload, At

LEMMA EmptyPayload == ASSUME NEW keys PROVE Payload(<<>>, keys)
BY DEF Payload

LEMMA EachPayload ==
  ASSUME NEW name, NEW parts, NEW values \in [parts -> Int], NEW keys,
         {name} \X parts \subseteq keys
  PROVE  Payload(Each(name, values), keys)
BY DEF Payload, Each

LEMMA FieldPayload ==
  ASSUME NEW name, NEW v \in Int, NEW keys, <<name, 0>> \in keys
  PROVE  Payload(Field(name, v), keys)
BY AtPayload DEF Field

LEMMA WithTotalType ==
  ASSUME NEW total \in Int, NEW n \in {3, 4}, NEW parts \in [1 .. n -> Int]
  PROVE  WithTotal(total, parts) \in [0 .. n -> Int]
BY DEF WithTotal, At, ++

\* A map without a quantity, and one that has given values of its parts and no others.
Lacks(m, name) == \A k \in DOMAIN m : k[1] # name
HasParts(m, name, values) ==
  \A p : /\ <<name, p>> \in DOMAIN m <=> p \in DOMAIN values
         /\ p \in DOMAIN values => m[<<name, p>>] = values[p]

LEMMA OtherLacks ==
  ASSUME NEW name, NEW other, name # other, NEW values
  PROVE  Lacks(Each(other, values), name) /\ Lacks(Field(other, values), name)
BY DEF Lacks, Each, Field, At

LEMMA JoinedLacks ==
  ASSUME NEW name, NEW maps, \A m \in maps : Lacks(m, name)
  PROVE  Lacks(Joined(maps), name)
BY DEF Lacks, Joined

LEMMA EachParts == ASSUME NEW name, NEW values PROVE HasParts(Each(name, values), name, values)
BY DEF HasParts, Each

LEMMA JoinedParts ==
  ASSUME NEW name, NEW values, NEW maps, NEW own \in maps, HasParts(own, name, values),
         \A m \in maps : m = own \/ Lacks(m, name)
  PROVE  HasParts(Joined(maps), name, values)
<1>1. ASSUME NEW p, NEW m \in maps, <<name, p>> \in DOMAIN m PROVE m = own
  BY <1>1 DEF Lacks
<1>2. ASSUME NEW p, p \in DOMAIN values
      PROVE  <<name, p>> \in DOMAIN Joined(maps) /\ Joined(maps)[<<name, p>>] = values[p]
  <2>1. <<name, p>> \in DOMAIN own /\ own[<<name, p>>] = values[p]
    BY <1>2 DEF HasParts
  <2>2. (CHOOSE m \in maps : <<name, p>> \in DOMAIN m) = own
    BY <1>1, <2>1
  <2> QED  BY <2>1, <2>2 DEF Joined
<1>3. ASSUME NEW p, <<name, p>> \in DOMAIN Joined(maps) PROVE p \in DOMAIN values
  <2>1. PICK m \in maps : <<name, p>> \in DOMAIN m
    BY <1>3 DEF Joined
  <2> QED  BY <1>1, <2>1 DEF HasParts
<1> QED  BY <1>2, <1>3 DEF HasParts

\* Which of two maps has a quantity.
LEMMA OverlayParts ==
  ASSUME NEW f, NEW g, NEW name, NEW values
  PROVE  /\ HasParts(f, name, values) /\ Lacks(g, name) => HasParts(f ++ g, name, values)
         /\ Lacks(f, name) /\ HasParts(g, name, values) => HasParts(f ++ g, name, values)
         /\ Lacks(f, name) /\ Lacks(g, name) => Lacks(f ++ g, name)
BY DEF HasParts, Lacks, ++

\* An overlay hides what it has all parts of.
LEMMA OverlayHides ==
  ASSUME NEW f, NEW g, NEW name, NEW values, HasParts(f, name, values),
         \A p : <<name, p>> \in DOMAIN g => p \in DOMAIN values
  PROVE  HasParts(f ++ g, name, values)
BY DEF HasParts, ++

------------------------------------------------------------------------------
(* Totals and their parts *)

\* Two numbers of the sign of a total that take no more than their share of it leave a
\* third of that sign.
LEMMA ThirdPart ==
  ASSUME NEW t \in Int, NEW a \in Nat, NEW b \in Nat, NEW w \in Nat, w > 0, a + b <= w,
         NEW p \in Int, NEW q \in Int,
         t >= 0 => 0 <= p /\ p * w <= t * a /\ 0 <= q /\ q * w <= t * b,
         t <= 0 => p <= 0 /\ t * a <= p * w /\ q <= 0 /\ t * b <= q * w
  PROVE  /\ t >= 0 => t - p - q >= 0
         /\ t <= 0 => t - p - q <= 0
<1>1. t * a + t * b = t * (a + b)
  OBVIOUS
<1>2. (p + q) * w = p * w + q * w
  OBVIOUS
<1>3. CASE t >= 0
  <2>1. t * (a + b) <= t * w
    BY <1>3
  <2>2. (p + q) * w <= t * w
    BY <1>1, <1>2, <1>3, <2>1
  <2>3. p + q <= t
    BY <2>2
  <2> QED  BY <1>3, <2>3
<1>4. CASE t <= 0
  <2>1. t * w <= t * (a + b)
    BY <1>4
  <2>2. t * w <= (p + q) * w
    BY <1>1, <1>2, <1>4, <2>1
  <2>3. t <= p + q
    BY <2>2
  <2> QED  BY <1>4, <2>3
<1> QED  BY <1>3, <1>4

\* Three parts add up to a total and none has the opposite sign.
AddUp(total, parts) ==
  /\ \A i \in 1 .. 3 : parts[i] \in Int
  /\ parts[1] + parts[2] + parts[3] = total
  /\ \A i \in 1 .. 3 : ~(parts[i] > 0 /\ total < 0) /\ ~(parts[i] < 0 /\ total > 0)

\* A payload has a total and three parts that add up to it.
ThreeShare(m, name) ==
  \E total \in Int, parts \in [1 .. 3 -> Int] :
    AddUp(total, parts) /\ HasParts(m, name, WithTotal(total, parts))

\* The meter's powers that only the client adds up: three parts, of any sign, and their sum.
Summed == {"meter_reactive_power", "meter_apparent_power"}
ThreeSum(m, name) ==
  \E values \in [0 .. 3 -> Int] :
    values[1] + values[2] + values[3] = values[0] /\ HasParts(m, name, values)

\* The remainder of an equal division by three goes to the last part.
LEMMA EvenParts ==
  ASSUME NEW total \in Int
  PROVE  AddUp(total, SplitEvenly(total, 3))
<1> DEFINE third == Trunc(total, 3)
<1>1. /\ third \in Int
      /\ total >= 0 => 0 <= third /\ third * 3 <= total
      /\ total <= 0 => third <= 0 /\ total <= third * 3
  BY TruncWithinUnit
<1>2. /\ SplitEvenly(total, 3)[1] = third + 0
      /\ SplitEvenly(total, 3)[2] = third + 0
      /\ SplitEvenly(total, 3)[3] = third + (total - 3 * third)
  BY DEF SplitEvenly
<1> HIDE DEF third
<1> QED  BY <1>1, <1>2 DEF AddUp

\* _split_total_by_weights: the phases' parts of a power add up to it, and none feeds in
\* while the total draws, for all totals and weights, and where the floats fall short of
\* whole watts.
THEOREM WeightedPartsAddUp ==
  ASSUME NEW total \in Int, NEW w \in [1 .. 3 -> Nat], NEW short \in BOOLEAN
  PROVE  AddUp(total, SplitByWeights(total, w, short))
<1> DEFINE sum == w[1] + w[2] + w[3]
           part(i) == Cut(total * w[i], sum, short)
<1>1. /\ w[1] \in Nat /\ w[2] \in Nat /\ w[3] \in Nat
      /\ sum \in Nat /\ w[1] + w[2] <= sum
  OBVIOUS
<1>2. CASE sum = 0
  BY <1>2, EvenParts DEF SplitByWeights
<1>3. CASE sum > 0
  <2> DEFINE p == part(1)
             q == part(2)
  <2> HIDE DEF sum
  <2>1. ASSUME NEW i \in 1 .. 2
        PROVE  /\ part(i) \in Int
               /\ total >= 0 => 0 <= part(i) /\ part(i) * sum <= total * w[i]
               /\ total <= 0 => part(i) <= 0 /\ total * w[i] <= part(i) * sum
    <3>1. w[i] \in Nat /\ total * w[i] \in Int
      OBVIOUS
    <3>2. /\ total >= 0 => total * w[i] >= 0
          /\ total <= 0 => total * w[i] <= 0
      BY <3>1
    <3> QED  BY <1>1, <1>3, <3>1, <3>2, CutWithinUnit
  <2>2. /\ p \in Int /\ q \in Int
        /\ total >= 0 => /\ 0 <= p /\ p * sum <= total * w[1]
                         /\ 0 <= q /\ q * sum <= total * w[2]
        /\ total <= 0 => /\ p <= 0 /\ total * w[1] <= p * sum
                         /\ q <= 0 /\ total * w[2] <= q * sum
    BY <2>1
  <2>3. SplitByWeights(total, w, short) = <<p, q, total - p - q>>
    BY <1>3 DEF SplitByWeights, sum
  <2> HIDE DEF p, q
  <2>4. /\ total >= 0 => total - p - q >= 0
        /\ total <= 0 => total - p - q <= 0
    BY <1>1, <1>3, <2>2, ThirdPart
  <2> QED  BY <2>2, <2>3, <2>4 DEF AddUp
<1> QED  BY <1>1, <1>2, <1>3

\* _apply_em540_synthetic_grid_export: the parts of the invented power.
THEOREM SyntheticPartsAddUp ==
  ASSUME NEW total \in Int
  PROVE  LET third == Trunc(total, 3)
         IN  AddUp(total, <<third, third, total - 2 * third>>)
<1> DEFINE third == Trunc(total, 3)
<1>1. /\ third \in Int
      /\ total >= 0 => 0 <= third /\ third * 3 <= total
      /\ total <= 0 => third <= 0 /\ total <= third * 3
  BY TruncWithinUnit
<1> HIDE DEF third
<1>2. AddUp(total, <<third, third, total - 2 * third>>)
  BY <1>1 DEF AddUp
<1> QED  BY <1>2 DEF third

------------------------------------------------------------------------------
(* Clamps *)

\* max(lo, min(hi, v)) lies between its bounds when they are in order, and only then:
\* with crossed bounds it is the lower one, whatever the value.
THEOREM WithinBounds ==
  ASSUME NEW lo \in Int, NEW hi \in Int, NEW v \in Int
  PROVE  /\ Within(lo, hi, v) \in Int
         /\ lo <= hi => lo <= Within(lo, hi, v) /\ Within(lo, hi, v) <= hi
         /\ hi < lo => Within(lo, hi, v) = lo
BY DEF Within

\* _derive_power_factor gives a power factor, whatever the inverter says: an apparent power
\* that is negative or zero included.
THEOREM PowerFactorBounded ==
  ASSUME NEW active \in Int, NEW apparent \in Int, NEW candidate \in Int
  PROVE  /\ PowerFactor(active, apparent, candidate) \in Int
         /\ PowerFactor(active, apparent, candidate) >= -1000
         /\ PowerFactor(active, apparent, candidate) <= 1000
<1>1. CASE candidate # 0 \/ apparent = 0
  BY <1>1, WithinBounds DEF PowerFactor
<1>2. CASE candidate = 0 /\ apparent > 0
  <2> DEFINE quotient == Trunc(1000 * active, apparent)
  <2>1. quotient \in Int
    BY <1>2, TruncWithinUnit
  <2>2. PowerFactor(active, apparent, candidate) = Within(-1000, 1000, quotient)
    BY <1>2 DEF PowerFactor
  <2> HIDE DEF quotient
  <2> QED  BY <2>1, <2>2, WithinBounds
<1>3. CASE candidate = 0 /\ apparent < 0
  <2> DEFINE quotient == Trunc(-1000 * active, -apparent)
  <2>1. quotient \in Int
    BY <1>3, TruncWithinUnit
  <2>2. PowerFactor(active, apparent, candidate) = Within(-1000, 1000, quotient)
    BY <1>3 DEF PowerFactor
  <2> HIDE DEF quotient
  <2> QED  BY <2>1, <2>2, WithinBounds
<1> QED  BY <1>1, <1>2, <1>3

------------------------------------------------------------------------------
(* Numbers *)

LEMMA TruncInt == ASSUME NEW n \in Int, NEW d \in Nat, d > 0 PROVE Trunc(n, d) \in Int
BY TruncWithinUnit

LEMMA TruncPositive ==
  ASSUME NEW n \in Int, NEW d \in Nat \ {0} PROVE Trunc(n, d) \in Int
BY TruncInt

LEMMA I16Int == ASSUME NEW a \in Int PROVE I16(a) \in Int
BY DEF I16, WordSize

LEMMA PairInt ==
  ASSUME NEW a \in Int, NEW b \in Int
  PROVE  I32(a, b) \in Int /\ U32(a, b) \in Int
BY DEF I16, I32, U32, WordSize

LEMMA WordInt == ASSUME NEW v \in Int PROVE LowWord(v) \in Int /\ HighWord(v) \in Int
BY WordsFit

------------------------------------------------------------------------------
(* Em540BridgeClient *)

LEMMA MeterKeys ==
  /\ {"meter_power"} \X (0 .. 3) \subseteq MeterFields
  /\ {"meter_reactive_power"} \X (0 .. 3) \subseteq MeterFields
  /\ {"meter_apparent_power"} \X (0 .. 3) \subseteq MeterFields
  /\ {"meter_power_factor"} \X (0 .. 3) \subseteq MeterFields
  /\ {"meter_energy_import"} \X (0 .. 3) \subseteq MeterFields
  /\ {"meter_voltage"} \X (1 .. 3) \subseteq MeterFields
  /\ {"meter_current"} \X (1 .. 3) \subseteq MeterFields
  /\ <<"meter_frequency", 0>> \in MeterFields
  /\ <<"meter_energy_export", 0>> \in MeterFields
BY DEF MeterFields, Phases

\* Every voltage is a whole number of tenths of a volt, as the bridge counts them.
WholeTenths(m) ==
  \A p \in Phases : <<"meter_voltage", p>> \in DOMAIN m =>
                     \E k \in Int : m[<<"meter_voltage", p>>] = 100 * k

LEMMA JoinedTenths ==
  ASSUME NEW maps, \A m \in maps : WholeTenths(m)
  PROVE  WholeTenths(Joined(maps))
<1>1. \A k \in DOMAIN Joined(maps) : \E m \in maps : k \in DOMAIN m /\ Joined(maps)[k] = m[k]
  BY DEF Joined
<1> SUFFICES ASSUME NEW p \in Phases, <<"meter_voltage", p>> \in DOMAIN Joined(maps)
             PROVE  \E k \in Int : Joined(maps)[<<"meter_voltage", p>>] = 100 * k
  BY DEF WholeTenths
<1>2. PICK m \in maps : /\ <<"meter_voltage", p>> \in DOMAIN m
                       /\ Joined(maps)[<<"meter_voltage", p>>] = m[<<"meter_voltage", p>>]
  BY <1>1
<1>3. \E k \in Int : m[<<"meter_voltage", p>>] = 100 * k
  BY <1>2 DEF WholeTenths
<1> QED  BY <1>2, <1>3

LEMMA OtherTenths ==
  ASSUME NEW name, name # "meter_voltage", NEW values
  PROVE  WholeTenths(Each(name, values)) /\ WholeTenths(Field(name, values))
BY DEF WholeTenths, Each, Field, At

THEOREM Em540Payload ==
  ASSUME NEW words \in [0 .. Count - 1 -> Int]
  PROVE  /\ Payload(Em540Values(words), MeterFields) /\ WholeTenths(Em540Values(words))
         /\ \A name \in Summed : ThreeSum(Em540Values(words), name)
<1> USE DEF First, Count, Phases, VoltageOf
<1> DEFINE reg(a) == IF a - First \in DOMAIN words THEN words[a - First] ELSE 0
           i32(a) == I32lw(reg(a), reg(a + 1))
           watts(a) == Trunc(i32(a), 10)
           kwh(a) == U32lw(reg(a), reg(a + 1)) * 10
           sum(x) == x[1] + x[2] + x[3]
           power == [p \in 0 .. 3 |-> watts(IF p = 0 THEN 262 ELSE VoltageOf(p) + 4)]
           reactive == [p \in Phases |-> watts(VoltageOf(p) + 8)]
           apparent == [p \in Phases |-> watts(VoltageOf(p) + 6)]
           factor == [p \in 0 .. 3 |-> I16(reg(IF p = 0 THEN 269 ELSE VoltageOf(p) + 11))]
           voltage == [p \in Phases |-> 100 * i32(VoltageOf(p))]
           current == [p \in Phases |-> i32(VoltageOf(p) + 2)]
           import == [p \in 0 .. 3 |-> kwh(IF p = 0 THEN 274 ELSE 330 + 2 * p)]
<1>1. \A a \in 258 .. 352 : reg(a) \in Int /\ I16(reg(a)) \in Int
  BY I16Int
<1>2. \A a \in 258 .. 351 : i32(a) \in Int /\ watts(a) \in Int /\ kwh(a) \in Int
  <2> TAKE a \in 258 .. 351
  <2>1. reg(a) \in Int /\ reg(a + 1) \in Int
    BY <1>1, a + 1 \in 258 .. 352
  <2>2. i32(a) \in Int /\ U32lw(reg(a), reg(a + 1)) \in Int
    <3> DEFINE low == reg(a)
               high == reg(a + 1)
    <3>1. low \in Int /\ high \in Int
      BY <2>1
    <3> HIDE DEF low, high
    <3>2. I32lw(low, high) \in Int /\ U32lw(low, high) \in Int
      BY <3>1, PairInt DEF I32lw, U32lw
    <3> QED  BY <3>2 DEF low, high
  <2>3. Trunc(i32(a), 10) \in Int
    BY <2>2, TruncInt
  <2> QED  BY <2>2, <2>3
<1> HIDE DEF reg, i32, watts, kwh
<1>3. /\ power \in [0 .. 3 -> Int]
      /\ reactive \in [1 .. 3 -> Int] /\ apparent \in [1 .. 3 -> Int]
  BY <1>2
<1>4. factor \in [0 .. 3 -> Int]
  BY <1>1
<1>5. voltage \in [1 .. 3 -> Int] /\ current \in [1 .. 3 -> Int]
  BY <1>2
<1>6. WholeTenths(Each("meter_voltage", voltage))
  <2> SUFFICES \A p \in 1 .. 3 : \E k \in Int : voltage[p] = 100 * k
    BY DEF WholeTenths, Each
  <2> TAKE p \in 1 .. 3
  <2>1. i32(VoltageOf(p)) \in Int /\ voltage[p] = 100 * i32(VoltageOf(p))
    BY <1>2
  <2> QED  BY <2>1
<1>7. import \in [0 .. 3 -> Int]
  BY <1>2
<1> HIDE DEF power, reactive, apparent, factor, voltage, current, import
<1>8. /\ WithTotal(sum(reactive), reactive) \in [0 .. 3 -> Int]
      /\ WithTotal(sum(apparent), apparent) \in [0 .. 3 -> Int]
  BY <1>3, WithTotalType
<1>9. /\ Payload(Each("meter_power", power), MeterFields)
      /\ Payload(Each("meter_reactive_power", WithTotal(sum(reactive), reactive)), MeterFields)
      /\ Payload(Each("meter_apparent_power", WithTotal(sum(apparent), apparent)), MeterFields)
      /\ Payload(Each("meter_power_factor", factor), MeterFields)
      /\ Payload(Each("meter_voltage", voltage), MeterFields)
      /\ Payload(Each("meter_current", current), MeterFields)
      /\ Payload(Each("meter_energy_import", import), MeterFields)
  BY <1>3, <1>4, <1>5, <1>7, <1>8, EachPayload, MeterKeys
<1>10. /\ Payload(Field("meter_frequency", 100 * I16(reg(272))), MeterFields)
      /\ Payload(Field("meter_energy_export", kwh(278)), MeterFields)
  BY <1>1, <1>2, FieldPayload, MeterKeys
<1> HIDE DEF First, Count, Phases, VoltageOf
<1>11. Em540Values(words) =
         Joined({Each("meter_power", power),
                 Each("meter_reactive_power", WithTotal(sum(reactive), reactive)),
                 Each("meter_apparent_power", WithTotal(sum(apparent), apparent)),
                 Each("meter_power_factor", factor), Each("meter_voltage", voltage),
                 Each("meter_current", current),
                 Field("meter_frequency", 100 * I16(reg(272))),
                 Field("meter_energy_export", kwh(278)), Each("meter_energy_import", import)})
  BY Zenon DEF Em540Values, power, reactive, apparent, factor, voltage, current, import,
     reg, i32, watts, kwh
<1>12. /\ WholeTenths(Each("meter_power", power))
       /\ WholeTenths(Each("meter_reactive_power", WithTotal(sum(reactive), reactive)))
       /\ WholeTenths(Each("meter_apparent_power", WithTotal(sum(apparent), apparent)))
       /\ WholeTenths(Each("meter_power_factor", factor))
       /\ WholeTenths(Each("meter_current", current))
       /\ WholeTenths(Field("meter_frequency", 100 * I16(reg(272))))
       /\ WholeTenths(Field("meter_energy_export", kwh(278)))
       /\ WholeTenths(Each("meter_energy_import", import))
  BY OtherTenths
<1>13. ASSUME NEW name, NEW parts \in [1 .. 3 -> Int],
              HasParts(Em540Values(words), name, WithTotal(sum(parts), parts))
       PROVE  ThreeSum(Em540Values(words), name)
  <2> DEFINE values == WithTotal(sum(parts), parts)
  <2>1. sum(parts) \in Int
    OBVIOUS
  <2>2. /\ values \in [0 .. 3 -> Int] /\ values[0] = sum(parts)
        /\ \A p \in 1 .. 3 : values[p] = parts[p]
    BY <2>1, WithTotalType DEF WithTotal, At, ++
  <2> HIDE DEF values
  <2>3. HasParts(Em540Values(words), name, values)
    BY <1>13 DEF values
  <2> QED  BY <2>2, <2>3 DEF ThreeSum
<1>14. /\ HasParts(Em540Values(words), "meter_reactive_power", WithTotal(sum(reactive), reactive))
       /\ HasParts(Em540Values(words), "meter_apparent_power", WithTotal(sum(apparent), apparent))
  <2> DEFINE own1 == Each("meter_reactive_power", WithTotal(sum(reactive), reactive))
             own2 == Each("meter_apparent_power", WithTotal(sum(apparent), apparent))
             others == {Each("meter_power", power), Each("meter_power_factor", factor),
                        Each("meter_voltage", voltage), Each("meter_current", current),
                        Field("meter_frequency", 100 * I16(reg(272))),
                        Field("meter_energy_export", kwh(278)),
                        Each("meter_energy_import", import)}
             maps == {own1, own2} \cup others
  <2>1. Em540Values(words) = Joined(maps)
    <3>1. maps = {Each("meter_power", power), own1, own2, Each("meter_power_factor", factor),
                  Each("meter_voltage", voltage), Each("meter_current", current),
                  Field("meter_frequency", 100 * I16(reg(272))),
                  Field("meter_energy_export", kwh(278)), Each("meter_energy_import", import)}
      <4> HIDE DEF own1, own2
      <4> QED  OBVIOUS
    <3> HIDE DEF maps
    <3> QED  BY <1>11, <3>1
  <2>2. /\ \A m \in others : Lacks(m, "meter_reactive_power") /\ Lacks(m, "meter_apparent_power")
        /\ Lacks(own1, "meter_apparent_power") /\ Lacks(own2, "meter_reactive_power")
    BY OtherLacks
  <2>3. /\ HasParts(own1, "meter_reactive_power", WithTotal(sum(reactive), reactive))
        /\ HasParts(own2, "meter_apparent_power", WithTotal(sum(apparent), apparent))
    BY EachParts
  <2> HIDE DEF own1, own2, others
  <2>4. /\ own1 \in maps /\ \A m \in maps : m = own1 \/ Lacks(m, "meter_reactive_power")
        /\ own2 \in maps /\ \A m \in maps : m = own2 \/ Lacks(m, "meter_apparent_power")
    BY <2>2
  <2> HIDE DEF maps, sum
  <2> QED  BY <2>1, <2>3, <2>4, JoinedParts
<1>15. \A name \in Summed : ThreeSum(Em540Values(words), name)
  BY <1>3, <1>13, <1>14 DEF Summed
<1> DEFINE maps ==
      {Each("meter_power", power),
       Each("meter_reactive_power", WithTotal(sum(reactive), reactive)),
       Each("meter_apparent_power", WithTotal(sum(apparent), apparent)),
       Each("meter_power_factor", factor), Each("meter_voltage", voltage),
       Each("meter_current", current),
       Field("meter_frequency", 100 * I16(reg(272))),
       Field("meter_energy_export", kwh(278)), Each("meter_energy_import", import)}
<1>16. Em540Values(words) = Joined(maps)
  BY <1>11
<1>17. (\A m \in maps : Payload(m, MeterFields)) /\ (\A m \in maps : WholeTenths(m))
  <2> HIDE DEF sum, reg, kwh
  <2> QED  BY <1>6, <1>9, <1>10, <1>12
<1> HIDE DEF maps
<1>18. Payload(Em540Values(words), MeterFields) /\ WholeTenths(Em540Values(words))
  BY <1>16, <1>17, JoinedPayload, JoinedTenths
<1> QED  BY <1>15, <1>18

\* _apply_em540_synthetic_grid_export divides by no zero: a positive number of tenths of a
\* volt is at least one of them.
LEMMA CurrentForInt ==
  ASSUME NEW power \in Int, NEW k \in Int
  PROVE  CurrentFor(power, 100 * k) \in Int
<1>1. Size(power) \in Int
  BY DEF Size
<1>2. (100 * k) \div 100 = k
  OBVIOUS
<1>3. 100 * k > 0 => k \in Nat /\ k > 0
  OBVIOUS
<1>4. k > 0 => (Size(power) * 10000) \div k \in Int
  BY <1>1
<1> QED  BY <1>2, <1>3, <1>4 DEF CurrentFor

THEOREM ExportPayload ==
  ASSUME NEW c, c.synthetic_grid_total_power_w \in Int,
         c.synthetic_grid_frequency_hz \in Int,
         NEW data, Payload(data, MeterFields), WholeTenths(data),
         \A name \in Summed : ThreeSum(data, name)
  PROVE  LET m == WithSyntheticExport(c, data)
         IN  /\ Payload(m, MeterFields)
             /\ c.synthetic_grid_export_enabled => ThreeShare(m, "meter_power")
             /\ \A name \in Summed : ThreeSum(m, name)
<1> USE DEF Phases
<1> DEFINE total == c.synthetic_grid_total_power_w
           third == Trunc(total, 3)
           share == <<third, third, total - 2 * third>>
           voltage(p) ==
             IF <<"meter_voltage", p>> \in DOMAIN data THEN data[<<"meter_voltage", p>>] ELSE 0
           none == [p \in 0 .. 3 |-> 0]
           apparent == [p \in 0 .. 3 |->
                          IF p = 0 THEN Size(share[1]) + Size(share[2]) + Size(share[3])
                          ELSE Size(share[p])]
           factor == [p \in 0 .. 3 |-> -1000]
           frequency == IF c.synthetic_grid_frequency_hz < 100 THEN 100
                        ELSE c.synthetic_grid_frequency_hz
           current == [p \in Phases |-> CurrentFor(share[p], voltage(p))]
           invented == Joined({Each("meter_power", WithTotal(total, share)),
                               Each("meter_reactive_power", none),
                               Each("meter_apparent_power", apparent),
                               Each("meter_power_factor", factor),
                               Field("meter_frequency", frequency),
                               Each("meter_current", current)})
<1>1. third \in Int
  BY TruncInt
<1>2. share \in [1 .. 3 -> Int]
  BY <1>1
<1>3. \A p \in 1 .. 3 : \E k \in Int : voltage(p) = 100 * k
  <2> TAKE p \in 1 .. 3
  <2>1. CASE <<"meter_voltage", p>> \in DOMAIN data
    BY <2>1 DEF WholeTenths
  <2>2. CASE <<"meter_voltage", p>> \notin DOMAIN data
    <3>1. voltage(p) = 0
      BY <2>2
    <3> HIDE DEF voltage
    <3>2. voltage(p) = 100 * 0
      BY <3>1
    <3> QED  BY <3>2
  <2> QED  BY <2>1, <2>2
<1> HIDE DEF share, voltage
<1>4. current \in [1 .. 3 -> Int]
  <2> SUFFICES ASSUME NEW p \in 1 .. 3 PROVE CurrentFor(share[p], voltage(p)) \in Int
    OBVIOUS
  <2>1. PICK k \in Int : voltage(p) = 100 * k
    BY <1>3
  <2>2. share[p] \in Int
    BY <1>2
  <2> QED  BY <2>1, <2>2, CurrentForInt
<1>5. /\ apparent \in [0 .. 3 -> Int]
      /\ apparent[1] + apparent[2] + apparent[3] = apparent[0]
  <2>1. \A p \in 1 .. 3 : Size(share[p]) \in Int
    BY <1>2 DEF Size
  <2> QED  BY <2>1
<1>6. /\ none \in [0 .. 3 -> Int] /\ none[1] + none[2] + none[3] = none[0]
      /\ factor \in [0 .. 3 -> Int] /\ frequency \in Int
      /\ WithTotal(total, share) \in [0 .. 3 -> Int]
  BY <1>2, WithTotalType
<1> HIDE DEF none, factor, frequency, current, apparent, total
<1>7. Payload(invented, MeterFields)
  <2>1. /\ Payload(Each("meter_power", WithTotal(total, share)), MeterFields)
        /\ Payload(Each("meter_reactive_power", none), MeterFields)
        /\ Payload(Each("meter_apparent_power", apparent), MeterFields)
        /\ Payload(Each("meter_power_factor", factor), MeterFields)
        /\ Payload(Each("meter_current", current), MeterFields)
    BY <1>4, <1>5, <1>6, EachPayload, MeterKeys
  <2>2. Payload(Field("meter_frequency", frequency), MeterFields)
    BY <1>6, FieldPayload, MeterKeys
  <2> QED  BY <2>1, <2>2, JoinedPayload
<1>8. /\ Payload(Field("meter_energy_export", 0), MeterFields)
      /\ Payload(Each("meter_energy_import", none), MeterFields)
  BY <1>6, EachPayload, FieldPayload, MeterKeys
<1> HIDE DEF Phases, invented
<1>9. Payload(invented ++ data ++ Field("meter_energy_export", 0)
                       ++ Each("meter_energy_import", none), MeterFields)
  <2>1. Payload(invented ++ data, MeterFields)
    BY <1>7, OverlayPayload
  <2>2. Payload(invented ++ data ++ Field("meter_energy_export", 0), MeterFields)
    BY <1>8, <2>1, OverlayPayload
  <2> QED  BY <1>8, <2>2, OverlayPayload
<1> DEFINE m == invented ++ data ++ Field("meter_energy_export", 0)
                         ++ Each("meter_energy_import", none)
<1>10. ASSUME NEW name \in {"meter_power"} \cup Summed, NEW values \in [0 .. 3 -> Int],
              \/ name = "meter_power" /\ values = WithTotal(total, share)
              \/ name = "meter_reactive_power" /\ values = none
              \/ name = "meter_apparent_power" /\ values = apparent
       PROVE  HasParts(m, name, values)
  <2>1. HasParts(invented, name, values)
    <3> DEFINE own == Each(name, values)
               maps == {Each("meter_power", WithTotal(total, share)),
                        Each("meter_reactive_power", none),
                        Each("meter_apparent_power", apparent),
                        Each("meter_power_factor", factor),
                        Field("meter_frequency", frequency), Each("meter_current", current)}
    <3>1. invented = Joined(maps)
      BY DEF invented
    <3>2. HasParts(own, name, values)
      BY EachParts
    <3>3. own \in maps
      BY <1>10
    <3>4. \A k \in maps : k = own \/ Lacks(k, name)
      <4>1. /\ name # "meter_power" => Lacks(Each("meter_power", WithTotal(total, share)), name)
            /\ name # "meter_reactive_power" => Lacks(Each("meter_reactive_power", none), name)
            /\ name # "meter_apparent_power" =>
                 Lacks(Each("meter_apparent_power", apparent), name)
            /\ name # "meter_power_factor" => Lacks(Each("meter_power_factor", factor), name)
            /\ name # "meter_frequency" => Lacks(Field("meter_frequency", frequency), name)
            /\ name # "meter_current" => Lacks(Each("meter_current", current), name)
        BY OtherLacks
      <4>2. /\ name # "meter_power_factor" /\ name # "meter_frequency"
            /\ name # "meter_current"
        BY DEF Summed
      <4>3. /\ name = "meter_power" => own = Each("meter_power", WithTotal(total, share))
            /\ name = "meter_reactive_power" => own = Each("meter_reactive_power", none)
            /\ name = "meter_apparent_power" => own = Each("meter_apparent_power", apparent)
        BY <1>10
      <4> HIDE DEF own
      <4> QED  BY <4>1, <4>2, <4>3
    <3> HIDE DEF own, maps
    <3> QED  BY <3>1, <3>2, <3>3, <3>4, JoinedParts
  <2>2. HasParts(invented ++ data, name, values)
    <3>1. \A p : <<name, p>> \in DOMAIN data => p \in 0 .. 3
      BY DEF Payload, MeterFields, Summed
    <3> QED  BY <2>1, <3>1, OverlayHides
  <2>3. /\ Lacks(Field("meter_energy_export", 0), name)
        /\ Lacks(Each("meter_energy_import", none), name)
    BY OtherLacks DEF Summed
  <2>4. HasParts(invented ++ data ++ Field("meter_energy_export", 0), name, values)
    BY <2>2, <2>3, OverlayParts
  <2> QED  BY <2>3, <2>4, OverlayParts
<1>11. ThreeShare(m, "meter_power") /\ \A name \in Summed : ThreeSum(m, name)
  <2>1. /\ HasParts(m, "meter_power", WithTotal(total, share))
        /\ HasParts(m, "meter_reactive_power", none)
        /\ HasParts(m, "meter_apparent_power", apparent)
    <3>1. /\ "meter_power" \in {"meter_power"} \cup Summed
          /\ "meter_reactive_power" \in {"meter_power"} \cup Summed
          /\ "meter_apparent_power" \in {"meter_power"} \cup Summed
      BY DEF Summed
    <3> HIDE DEF m
    <3> QED  BY <1>5, <1>6, <1>10, <3>1
  <2>2. AddUp(total, share) /\ total \in Int
    BY SyntheticPartsAddUp DEF share, total
  <2> HIDE DEF m
  <2> QED  BY <1>2, <1>5, <1>6, <2>1, <2>2 DEF ThreeShare, ThreeSum, Summed
<1>12. WithSyntheticExport(c, data) =
         IF c.synthetic_grid_export_enabled
           THEN invented ++ data ++ Field("meter_energy_export", 0)
                         ++ Each("meter_energy_import", none)
           ELSE data
  BY Zenon DEF WithSyntheticExport, invented, current, apparent, frequency, factor, none,
     voltage, share, total
<1> QED  BY <1>9, <1>11, <1>12

------------------------------------------------------------------------------
(* VictronClient *)

LEMMA StateOfChargeInt == ASSUME NEW v \in Int PROVE StateOfCharge(v) \in Int
BY DEF StateOfCharge, Within

LEMMA BatteryKeys ==
  \A name \in {"battery_soc", "battery_voltage", "battery_power", "battery_current",
               "battery_temperature", "battery_health"} : <<name, 0>> \in BatteryFields
BY DEF BatteryFields

\* A payload of the battery always has what _transform_victron_battery_data scales.
THEOREM VictronPayload ==
  ASSUME NEW c, NEW r \in [BatteryFields -> Int], NEW answered
  PROVE  LET m == VictronValues(c, r, answered)
         IN  /\ Payload(m, BatteryFields)
             /\ {<<"battery_voltage", 0>>, <<"battery_current", 0>>} \subseteq DOMAIN m
<1> DEFINE read(name) == r[<<name, 0>>]
           tenths(name) == LowWord(read(name) \div 100)
<1>1. \A name \in {"battery_soc", "battery_voltage", "battery_power", "battery_current",
                   "battery_temperature", "battery_health"} : read(name) \in Int
  BY BatteryKeys
<1>2. CASE c.slave_id = 100
  <2> DEFINE regs == SystemRegisters(r)
  <2>1. /\ regs[1] \in Int /\ regs[2] \in Int /\ regs[3] \in Int /\ regs[4] \in Int
    BY <1>1, WordInt DEF SystemRegisters
  <2> HIDE DEF regs
  <2>2. I16(regs[2]) \in Int /\ I16(regs[3]) \in Int /\ StateOfCharge(regs[4]) \in Int
    BY <2>1, I16Int, StateOfChargeInt
  <2>3. /\ Payload(Field("battery_voltage", 100 * regs[1]), BatteryFields)
        /\ Payload(Field("battery_current", 100 * I16(regs[2])), BatteryFields)
        /\ Payload(Field("battery_power", I16(regs[3])), BatteryFields)
        /\ Payload(Field("battery_soc", StateOfCharge(regs[4])), BatteryFields)
    BY <2>1, <2>2, FieldPayload, BatteryKeys
  <2>4. Payload(SystemBattery(regs), BatteryFields)
    BY <2>3, JoinedPayload DEF SystemBattery
  <2>5. {<<"battery_voltage", 0>>, <<"battery_current", 0>>} \subseteq DOMAIN SystemBattery(regs)
    BY DEF SystemBattery, Joined, Field, At
  <2> QED  BY <1>2, <2>4, <2>5 DEF VictronValues, regs
<1>3. CASE c.slave_id # 100
  <2> DEFINE regs == ServiceRegisters(r)
             power == <<HighWord(read("battery_power")), LowWord(read("battery_power"))>>
             health == read("battery_health") \div 100
             m == BatteryService(regs, power, health, answered)
  <2>1. /\ regs.voltage \in Int /\ regs.current \in Int /\ regs.temperature \in Int
        /\ regs.soc \in Int /\ power[1] \in Int /\ power[2] \in Int /\ health \in Int
    BY <1>1, WordInt DEF ServiceRegisters
  <2> HIDE DEF regs, power, health
  <2>2. /\ I16(regs.current) \in Int /\ I16(regs.temperature) \in Int
        /\ StateOfCharge(regs.soc) \in Int /\ I32(power[1], power[2]) \in Int
    BY <2>1, I16Int, PairInt, StateOfChargeInt
  <2>3. /\ Payload(Field("battery_voltage", 100 * regs.voltage), BatteryFields)
        /\ Payload(Field("battery_current", 100 * I16(regs.current)), BatteryFields)
        /\ Payload(Field("battery_temperature", 100 * I16(regs.temperature)), BatteryFields)
        /\ Payload(Field("battery_soc", StateOfCharge(regs.soc)), BatteryFields)
        /\ Payload(Field("battery_power", I32(power[1], power[2])), BatteryFields)
        /\ Payload(Field("battery_health", 100 * health), BatteryFields)
    BY <2>1, <2>2, FieldPayload, BatteryKeys
  <2>4. Payload(m, BatteryFields)
    BY <2>3, EmptyPayload, JoinedPayload DEF BatteryService
  <2>5. {<<"battery_voltage", 0>>, <<"battery_current", 0>>} \subseteq DOMAIN m
    BY DEF BatteryService, Joined, Field, At
  <2>6. VictronValues(c, r, answered) = m
    BY <1>3 DEF VictronValues, regs, power, health
  <2> QED  BY <2>4, <2>5, <2>6
<1> QED  BY <1>2, <1>3

THEOREM ScaledPayload ==
  ASSUME NEW c, c.battery_scale[1] \in Nat \ {0}, c.battery_scale[2] \in Nat \ {0},
         c.battery_voltage_min_v \in Int, c.battery_voltage_max_v \in Int,
         NEW data, Payload(data, BatteryFields),
         {<<"battery_voltage", 0>>, <<"battery_current", 0>>} \subseteq DOMAIN data
  PROVE  Payload(Scaled(c, data), BatteryFields)
<1> DEFINE current == Trunc(data[<<"battery_current", 0>>] * c.battery_scale[2],
                            c.battery_scale[1])
<1>1. data[<<"battery_voltage", 0>>] \in Int /\ data[<<"battery_current", 0>>] \in Int
  BY DEF Payload
<1>2. ScaledVoltage(c, data) \in Int /\ current \in Int
  <2> DEFINE pack == data[<<"battery_voltage", 0>>] * c.battery_scale[1]
             unscaled == data[<<"battery_current", 0>>] * c.battery_scale[2]
  <2>1. pack \in Int /\ unscaled \in Int
    BY <1>1
  <2> HIDE DEF pack, unscaled
  <2>2. Trunc(pack, c.battery_scale[2]) \in Int /\ Trunc(unscaled, c.battery_scale[1]) \in Int
    BY Zenon, <2>1, TruncPositive
  <2>3. Within(c.battery_voltage_min_v, c.battery_voltage_max_v,
               Trunc(pack, c.battery_scale[2])) \in Int
    BY <2>2, WithinBounds
  <2> QED  BY <2>2, <2>3 DEF ScaledVoltage, pack, unscaled
<1> HIDE DEF current
<1>3. /\ Payload(Field("battery_voltage", ScaledVoltage(c, data)), BatteryFields)
      /\ Payload(Field("battery_current", current), BatteryFields)
  BY <1>2, FieldPayload, BatteryKeys
<1>4. Payload(Field("battery_voltage", ScaledVoltage(c, data))
                ++ Field("battery_current", current), BatteryFields)
  BY <1>3, OverlayPayload
<1> QED  BY <1>4, OverlayPayload DEF Scaled, current

------------------------------------------------------------------------------
(* FroniusClient: scaling *)

LEMMA TenToPositive == ASSUME NEW k \in 0 .. 9 PROVE TenTo(k) \in Nat /\ TenTo(k) > 0
BY DEF TenTo

LEMMA TimesTenToInt ==
  ASSUME NEW raw \in Int, NEW sf \in -6 .. 6
  PROVE  TimesTenTo(raw, sf) \in Int
<1>1. CASE sf >= -3
  <2>1. sf + 3 \in 0 .. 9
    BY <1>1
  <2>2. TenTo(sf + 3) \in Int
    BY <2>1, TenToPositive
  <2> QED  BY <1>1, <2>2 DEF TimesTenTo
<1>2. CASE sf < -3
  <2>1. -3 - sf \in 0 .. 9
    BY <1>2
  <2>2. TenTo(-3 - sf) \in Nat /\ TenTo(-3 - sf) > 0
    BY <2>1, TenToPositive
  <2>3. Trunc(raw, TenTo(-3 - sf)) \in Int
    BY <2>2, TruncInt
  <2> QED  BY <1>2, <2>3 DEF TimesTenTo
<1> QED  BY <1>1, <1>2

\* Whatever its words are, a register with a scale factor gives a number: one that is not
\* implemented, or has no scale, gives zero.
LEMMA ScaledInt ==
  ASSUME NEW b, NEW v, NEW sf, b[v] \in Int, b[sf] \in Int
  PROVE  ScaledI16(b, v, sf) \in Int /\ ScaledU16(b, v, sf) \in Int
<1>1. I16(b[v]) \in Int
  BY I16Int
<1>2. CASE IsScaleFactor(b[sf])
  <2>1. I16(b[sf]) \in -6 .. 6
    BY <1>2 DEF IsScaleFactor
  <2>2. TimesTenTo(I16(b[v]), I16(b[sf])) \in Int /\ TimesTenTo(b[v], I16(b[sf])) \in Int
    BY <1>1, <2>1, TimesTenToInt
  <2> QED  BY <2>2 DEF ScaledI16, ScaledU16
<1>3. CASE ~IsScaleFactor(b[sf])
  BY <1>3 DEF ScaledI16, ScaledU16
<1> QED  BY <1>2, <1>3

LEMMA LegacyInt ==
  ASSUME NEW b, Payload(b, Int), NEW v, NEW sf
  PROVE  LegacyI16(b, v, sf) \in Int
<1>1. CASE {v, sf} \subseteq DOMAIN b /\ IsScaleFactor(b[sf])
  <2>1. b[v] \in Int
    BY <1>1 DEF Payload
  <2>2. I16(b[v]) \in Int /\ I16(b[sf]) \in -6 .. 6
    BY <1>1, <2>1, I16Int DEF IsScaleFactor
  <2>3. TimesTenTo(I16(b[v]), I16(b[sf])) \in Int
    BY <2>2, TimesTenToInt
  <2> QED  BY <1>1, <2>3 DEF LegacyI16
<1>2. CASE ~({v, sf} \subseteq DOMAIN b /\ IsScaleFactor(b[sf]))
  BY <1>2 DEF LegacyI16
<1> QED  BY <1>1, <1>2

LEMMA WattsInt == ASSUME NEW x \in Int PROVE Watts(x) \in Int
BY TruncInt DEF Watts

LEMMA EvenPartsType ==
  ASSUME NEW total \in Int, NEW n \in 1 .. 4
  PROVE  SplitEvenly(total, n) \in [1 .. n -> Int]
<1>1. Trunc(total, n) \in Int
  BY TruncInt
<1>2. total - n * Trunc(total, n) \in Int
  BY <1>1
<1> QED  BY <1>1, <1>2 DEF SplitEvenly

LEMMA WeightedPartsType ==
  ASSUME NEW total \in Int, NEW w \in [1 .. 3 -> Nat], NEW short \in BOOLEAN
  PROVE  SplitByWeights(total, w, short) \in [1 .. 3 -> Int]
<1> DEFINE sum == w[1] + w[2] + w[3]
           part(i) == Cut(total * w[i], sum, short)
<1>1. /\ w[1] \in Nat /\ w[2] \in Nat /\ w[3] \in Nat
      /\ sum \in Nat
  OBVIOUS
<1>2. CASE sum = 0
  <2>1. Trunc(total, 3) \in Int
    BY TruncInt
  <2>2. SplitEvenly(total, 3) \in [1 .. 3 -> Int]
    BY <2>1 DEF SplitEvenly
  <2> QED  BY <1>2, <2>2 DEF SplitByWeights
<1>3. CASE sum > 0
  <2>1. total * w[1] \in Int /\ total * w[2] \in Int
    BY <1>1
  <2> HIDE DEF sum
  <2>2. part(1) \in Int /\ part(2) \in Int
    BY <1>1, <1>3, <2>1, CutWithinUnit
  <2>3. SplitByWeights(total, w, short) = <<part(1), part(2), total - part(1) - part(2)>>
    BY <1>3 DEF SplitByWeights, sum
  <2> HIDE DEF part
  <2> QED  BY <2>2, <2>3
<1> QED  BY <1>1, <1>2, <1>3

------------------------------------------------------------------------------
(* FroniusClient: temperatures *)

LEMMA FloatInt == ASSUME NEW f, Payload(f, Int), NEW i PROVE Float(f, i) \in Int
BY DEF Float, Payload

LEMMA NormalizedInt ==
  ASSUME NEW x \in Int
  PROVE  Normalized(x) \in Int
<1> DEFINE shifts == {k \in 0 .. 3 : /\ IsPlausible(Trunc(x, TenTo(k)))
                                    /\ ~IsEffectiveZero(Trunc(x, TenTo(k)))}
           first == CHOOSE k \in shifts : \A j \in shifts : k <= j
<1>1. CASE shifts = {}
  BY <1>1 DEF Normalized
<1>2. CASE shifts # {}
  <2>1. shifts \subseteq 0 .. 3
    OBVIOUS
  <2> HIDE DEF shifts
  <2>2. \E k \in shifts : \A j \in shifts : k <= j
    <3>1. PICK k \in shifts : TRUE
      BY <1>2
    <3>2. k \in 0 .. 3
      BY <2>1
    <3>3. k = 0 \/ k = 1 \/ k = 2 \/ k = 3
      BY <3>2
    <3>4. \/ 0 \in shifts \/ 1 \in shifts \/ 2 \in shifts \/ 3 \in shifts
      BY <3>3
    <3> QED  BY <2>1, <3>4
  <2>3. first \in shifts
    BY <2>2, Zenon
  <2> HIDE DEF first
  <2>4. first \in 0 .. 9
    BY <2>1, <2>3
  <2>5. Trunc(x, TenTo(first)) \in Int
    BY <2>4, TenToPositive, TruncInt
  <2> QED  BY <1>2, <2>5 DEF Normalized, shifts, first
<1> QED  BY <1>1, <1>2

\* The mean is taken of one sensor at least.
LEMMA ImputedType ==
  ASSUME NEW temps \in [1 .. 3 -> Int]
  PROVE  ImputeMissing(temps) \in [1 .. 3 -> Int]
<1> DEFINE found(i) == IF i \in Sensors(temps) THEN temps[i] ELSE 0
           sum == found(1) + found(2) + found(3)
           mean == Trunc(sum, SensorCount(temps))
<1>1. CASE Sensors(temps) = {}
  BY <1>1 DEF ImputeMissing
<1>2. CASE Sensors(temps) # {}
  <2>1. SensorCount(temps) \in Nat /\ SensorCount(temps) > 0
    BY <1>2 DEF SensorCount, Sensors
  <2>2. sum \in Int
    OBVIOUS
  <2> HIDE DEF sum
  <2>3. mean \in Int
    BY <2>1, <2>2, TruncInt
  <2>4. ImputeMissing(temps) = [i \in 1 .. 3 |-> IF i \in Sensors(temps) THEN temps[i] ELSE mean]
    BY <1>2 DEF ImputeMissing, sum
  <2> HIDE DEF mean
  <2> QED  BY <2>3, <2>4
<1> QED  BY <1>1, <1>2

\* The words are needed where model 103 has its temperatures.
LEMMA ModelTemperaturesType ==
  ASSUME NEW f, Payload(f, Int), NEW words, \A k \in 31 .. 35 \ {34} : words[k] \in Int
  PROVE  ModelTemperatures(f, words) \in [1 .. 3 -> Int]
<1>1. BestTriplet(f) \in [1 .. 3 -> Int]
  <2>1. \A i : Normalized(Float(f, i)) \in Int
    BY FloatInt, NormalizedInt
  <2> QED  BY <2>1 DEF BestTriplet
<1> DEFINE scaled == [i \in 1 .. 3 |-> Normalized(ScaledI16(words, <<31, 33, 32>>[i], 35))]
<1>2. scaled \in [1 .. 3 -> Int]
  <2>1. \A k \in {31, 32, 33} : ScaledI16(words, k, 35) \in Int
    BY ScaledInt
  <2>2. \A k \in {31, 32, 33} : Normalized(ScaledI16(words, k, 35)) \in Int
    BY <2>1, NormalizedInt
  <2>3. \A i \in 1 .. 3 : <<31, 33, 32>>[i] \in {31, 32, 33}
    OBVIOUS
  <2> QED  BY <2>2, <2>3
<1> HIDE DEF scaled
<1> QED  BY <1>1, <1>2, ImputedType DEF ModelTemperatures, scaled

------------------------------------------------------------------------------
(* FroniusClient: the registers of an inverter that implements what it likes *)

\* A reading of an inverter has its strings; it may lack any other field.
Reading(r) == PvFields \subseteq DOMAIN r /\ \A f \in DOMAIN r : r[f] \in Int

LEMMA SentinelOrWord ==
  ASSUME NEW r, Reading(r), NEW name, NEW part, NEW unit \in Nat, unit > 0
  PROVE  SignedWord(r, name, part, unit) \in Int /\ UnsignedWord(r, name, part, unit) \in Int
<1>1. CASE <<name, part>> \in DOMAIN r
  <2>1. r[<<name, part>>] \in Int
    BY <1>1 DEF Reading
  <2>2. r[<<name, part>>] \div unit \in Int
    BY <2>1
  <2> QED  BY <1>1, <2>2, WordInt DEF SignedWord, UnsignedWord
<1>2. CASE <<name, part>> \notin DOMAIN r
  BY <1>2 DEF SignedWord, UnsignedWord
<1> QED  BY <1>1, <1>2

LEMMA PvKeys ==
  /\ {"pv_power"} \X (0 .. 4) \subseteq PvFields
  /\ {"pv_voltage"} \X (1 .. 4) \subseteq PvFields
  /\ {"pv_current"} \X (1 .. 4) \subseteq PvFields
BY DEF PvFields, Strings

LEMMA IntegerTemperaturesType ==
  ASSUME NEW r, Reading(r)
  PROVE  /\ Payload(IntegerTemperatures(r), Int)
         /\ DOMAIN IntegerTemperatures(r) = {31, 32, 33, 35}
<1> DEFINE word(name) == SignedWord(r, name, 0, 100)
<1>1. \A name : word(name) \in Int
  BY SentinelOrWord
<1> HIDE DEF word
<1>2. LowWord(-1) \in Int
  BY WordInt
<1>3. IntegerTemperatures(r) =
        Joined({At(31, word("temperature_air")), At(33, word("temperature_module")),
                At(32, word("temperature_radiator")), At(35, LowWord(-1))})
  BY Zenon DEF IntegerTemperatures, word
<1>4. /\ Payload(At(31, word("temperature_air")), Int)
      /\ Payload(At(33, word("temperature_module")), Int)
      /\ Payload(At(32, word("temperature_radiator")), Int)
      /\ Payload(At(35, LowWord(-1)), Int)
  BY <1>1, <1>2, AtPayload
<1>5. DOMAIN IntegerTemperatures(r) = {31, 32, 33, 35}
  BY <1>3 DEF Joined, At
<1> QED  BY <1>3, <1>4, <1>5, JoinedPayload

\* The words of an integer model: those that the client finds what it looks for in, and the
\* others.
RightIndices == {1, 2, 3, 4, 14, 15, 31, 32, 33, 35}
RightWords(r, phases) ==
  {[p \in Phases |-> IF p \in phases THEN UnsignedWord(r, "inverter_current", p, 10) ELSE 65535],
   At(4, LowWord(-2)), At(14, UnsignedWord(r, "inverter_frequency", 0, 10)),
   At(15, LowWord(-2)), IntegerTemperatures(r)}

LEMMA RightWordsType ==
  ASSUME NEW r, Reading(r), NEW phases \in SUBSET (1 .. 3)
  PROVE  /\ \A m \in RightWords(r, phases) : Payload(m, Int)
         /\ \A k \in RightIndices : \E m \in RightWords(r, phases) : k \in DOMAIN m
<1> DEFINE current == [p \in Phases |-> IF p \in phases
                                         THEN UnsignedWord(r, "inverter_current", p, 10)
                                         ELSE 65535]
           frequency == UnsignedWord(r, "inverter_frequency", 0, 10)
<1>1. \A name, part : UnsignedWord(r, name, part, 10) \in Int
  BY SentinelOrWord
<1>2. DOMAIN current = {1, 2, 3} /\ Payload(current, Int) /\ frequency \in Int
  BY <1>1 DEF Phases, Payload
<1> HIDE DEF current, frequency
<1>3. LowWord(-2) \in Int
  BY WordInt
<1>4. /\ Payload(At(4, LowWord(-2)), Int) /\ Payload(At(14, frequency), Int)
      /\ Payload(At(15, LowWord(-2)), Int) /\ Payload(IntegerTemperatures(r), Int)
  BY <1>2, <1>3, AtPayload, IntegerTemperaturesType
<1>5. /\ DOMAIN At(4, LowWord(-2)) = {4} /\ DOMAIN At(14, frequency) = {14}
      /\ DOMAIN At(15, LowWord(-2)) = {15} /\ DOMAIN IntegerTemperatures(r) = {31, 32, 33, 35}
  BY IntegerTemperaturesType DEF At
<1>6. RightWords(r, phases) = {current, At(4, LowWord(-2)), At(14, frequency),
                               At(15, LowWord(-2)), IntegerTemperatures(r)}
  BY DEF RightWords, current, frequency
<1> QED  BY <1>2, <1>4, <1>5, <1>6 DEF RightIndices

LEMMA IntegerRegistersType ==
  ASSUME NEW r, Reading(r), NEW phases \in SUBSET (1 .. 3), NEW scale \in 0 .. 6
  PROVE  \E others :
           /\ IntegerRegisters(r, phases, scale) = Joined(RightWords(r, phases) \cup others)
           /\ \A m \in others : Payload(m, Int) /\ DOMAIN m \cap RightIndices = {}
           /\ \A k \in (0 .. 30) \ RightIndices : \E m \in others : k \in DOMAIN m
<1> DEFINE measured(name, parts) == ({name} \X parts) \subseteq DOMAIN r
           current == [p \in Phases |-> IF p \in phases
                                         THEN UnsignedWord(r, "inverter_current", p, 10)
                                         ELSE 65535]
           voltage(p) == IF p \in phases THEN UnsignedWord(r, "inverter_voltage", p, 100)
                         ELSE 65535
           share(p) == IF p \in phases THEN r[<<"inverter_current", p>>] ELSE 0
           sum == IF ~measured("inverter_current", phases) THEN 65535
                  ELSE LowWord((share(1) + share(2) + share(3)) \div 10)
           factor == IF ~measured("inverter_power_factor", {0}) THEN 32768
                     ELSE LowWord(10 * r[<<"inverter_power_factor", 0>>])
           energy == IF Energy \in DOMAIN r THEN r[Energy] ELSE 0
           active == SignedWord(r, "inverter_power", 0, TenTo(scale))
           apparent == SignedWord(r, "inverter_apparent_power", 0, TenTo(scale))
           reactive == SignedWord(r, "inverter_reactive_power", 0, TenTo(scale))
           frequency == UnsignedWord(r, "inverter_frequency", 0, 10)
           dca == LowWord(r[<<"pv_current", 1>>] \div 10)
           dcv == LowWord(r[<<"pv_voltage", 1>>] \div 100)
           dcw == LowWord(r[<<"pv_power", 0>>])
           between == [k \in 5 .. 7 |-> 65535]
           voltages == [k \in 8 .. 10 |-> voltage(k - 7)]
           scales == [k \in {13, 17, 19} |-> scale]
           low == {At(0, sum), between, voltages, At(11, LowWord(-1)), At(12, active),
                   At(16, apparent), At(18, reactive), scales}
           high == {At(20, factor), At(21, LowWord(-2)), At(22, HighWord(energy)),
                    At(23, LowWord(energy)), At(24, 0), At(25, dca), At(26, LowWord(-2)),
                    At(27, dcv), At(28, LowWord(-1)), At(29, dcw), At(30, 0), At(34, 32768)}
           all == {At(0, sum), current, At(4, LowWord(-2)), between, voltages, At(11, LowWord(-1)),
                   At(12, active), At(14, frequency), At(15, LowWord(-2)), At(16, apparent),
                   At(18, reactive), scales, At(20, factor), At(21, LowWord(-2)),
                   At(22, HighWord(energy)), At(23, LowWord(energy)), At(24, 0), At(25, dca),
                   At(26, LowWord(-2)), At(27, dcv), At(28, LowWord(-1)), At(29, dcw), At(30, 0),
                   At(34, 32768), IntegerTemperatures(r)}
<1>1. IntegerRegisters(r, phases, scale) = Joined(RightWords(r, phases) \cup (low \cup high))
  <2>1. IntegerRegisters(r, phases, scale) = Joined(all)
    BY DEF IntegerRegisters
  <2>2. RightWords(r, phases) = {current, At(4, LowWord(-2)), At(14, frequency),
                                 At(15, LowWord(-2)), IntegerTemperatures(r)}
    BY DEF RightWords
  <2> HIDE DEF current, sum, factor, energy, active, apparent, reactive, frequency, dca, dcv, dcw,
               between, voltages, scales
  <2>3. RightWords(r, phases) \cup (low \cup high) = all
    BY <2>2
  <2> HIDE DEF low, high, all
  <2> QED  BY <2>1, <2>3
<1>2. \A v \in Int : LowWord(v) \in Int /\ HighWord(v) \in Int
  BY WordInt
<1>3. \A f \in DOMAIN r : r[f] \in Int
  BY DEF Reading
<1>4. sum \in Int
  <2>1. CASE ~measured("inverter_current", phases)
    BY <2>1
  <2>2. CASE measured("inverter_current", phases)
    <3>1. \A p \in 1 .. 3 : share(p) \in Int
      BY <1>3, <2>2
    <3> HIDE DEF share
    <3>2. (share(1) + share(2) + share(3)) \div 10 \in Int
      BY <3>1
    <3> HIDE DEF measured
    <3> QED  BY <1>2, <2>2, <3>2
  <2> QED  BY <2>1, <2>2
<1>5. factor \in Int /\ energy \in Int
  <2>1. measured("inverter_power_factor", {0}) => 10 * r[<<"inverter_power_factor", 0>>] \in Int
    BY <1>3
  <2> HIDE DEF measured
  <2> QED  BY <1>2, <1>3, <2>1
<1>6. active \in Int /\ apparent \in Int /\ reactive \in Int
  BY TenToPositive, SentinelOrWord
<1>7. dca \in Int /\ dcv \in Int /\ dcw \in Int
  <2>1. /\ <<"pv_current", 1>> \in DOMAIN r /\ <<"pv_voltage", 1>> \in DOMAIN r
        /\ <<"pv_power", 0>> \in DOMAIN r
    BY PvKeys DEF Reading
  <2>2. /\ r[<<"pv_current", 1>>] \div 10 \in Int /\ r[<<"pv_voltage", 1>>] \div 100 \in Int
        /\ r[<<"pv_power", 0>>] \in Int
    BY <1>3, <2>1
  <2> QED  BY <1>2, <2>2
<1>8. /\ DOMAIN between = 5 .. 7 /\ DOMAIN voltages = 8 .. 10 /\ DOMAIN scales = {13, 17, 19}
      /\ Payload(between, Int) /\ Payload(voltages, Int) /\ Payload(scales, Int)
  <2>1. \A name, part : UnsignedWord(r, name, part, 100) \in Int
    BY SentinelOrWord
  <2> QED  BY <2>1 DEF Payload
<1> HIDE DEF sum, factor, energy, active, apparent, reactive, dca, dcv, dcw, between, voltages,
             scales
<1>9. \A k, v : DOMAIN At(k, v) = {k}
  BY DEF At
<1>10. \A k, v \in Int : Payload(At(k, v), Int)
  BY AtPayload
<1>11. /\ LowWord(-1) \in Int /\ LowWord(-2) \in Int
       /\ LowWord(energy) \in Int /\ HighWord(energy) \in Int
  BY <1>2, <1>5
<1> HIDE DEF all
<1>12. \A k \in Int \ RightIndices, v \in Int :
         Payload(At(k, v), Int) /\ DOMAIN At(k, v) \cap RightIndices = {}
  <2> TAKE k \in Int \ RightIndices, v \in Int
  <2>1. DOMAIN At(k, v) = {k} /\ k \notin RightIndices
    BY <1>9
  <2>2. Payload(At(k, v), Int)
    BY <1>10
  <2> QED  BY <2>1, <2>2
<1>13. /\ \A m \in low : Payload(m, Int) /\ DOMAIN m \cap RightIndices = {}
       /\ \A m \in high : Payload(m, Int) /\ DOMAIN m \cap RightIndices = {}
  <2>1. /\ {0, 11, 12, 16, 18} \subseteq Int \ RightIndices
        /\ (20 .. 30) \cup {34} \subseteq Int \ RightIndices
        /\ \A m \in {between, voltages, scales} : DOMAIN m \cap RightIndices = {}
    BY <1>8 DEF RightIndices
  <2>2. ASSUME NEW m \in low PROVE Payload(m, Int) /\ DOMAIN m \cap RightIndices = {}
    <3>1. m \in {between, voltages, scales} \/ \E k \in {0, 11, 12, 16, 18}, v \in Int : m = At(k, v)
      BY <1>4, <1>6, <1>11
    <3> HIDE DEF low
    <3>2. CASE m \in {between, voltages, scales}
      BY <1>8, <2>1, <3>2
    <3>3. CASE \E k \in {0, 11, 12, 16, 18}, v \in Int : m = At(k, v)
      BY <1>12, <2>1, <3>3
    <3> QED  BY <3>1, <3>2, <3>3
  <2>3. ASSUME NEW m \in high PROVE Payload(m, Int) /\ DOMAIN m \cap RightIndices = {}
    <3>1. \E k \in (20 .. 30) \cup {34}, v \in Int : m = At(k, v)
      BY <1>5, <1>7, <1>11
    <3> HIDE DEF high
    <3> QED  BY <1>12, <2>1, <3>1
  <2> QED  BY <2>2, <2>3
<1>14. ASSUME NEW k \in (0 .. 19) \ RightIndices PROVE \E m \in low : k \in DOMAIN m
  <2>1. \/ k = 0 \/ k \in 5 .. 7 \/ k \in 8 .. 10 \/ k = 11 \/ k = 12 \/ k \in {13, 17, 19}
        \/ k = 16 \/ k = 18
    BY DEF RightIndices
  <2>2. /\ At(0, sum) \in low /\ between \in low /\ voltages \in low /\ At(11, LowWord(-1)) \in low
        /\ At(12, active) \in low /\ At(16, apparent) \in low /\ At(18, reactive) \in low
        /\ scales \in low
    OBVIOUS
  <2> HIDE DEF low
  <2>3. CASE k \in 5 .. 7
    BY <1>8, <2>2, <2>3
  <2>4. CASE k \in 8 .. 10
    BY <1>8, <2>2, <2>4
  <2>5. CASE k \in {13, 17, 19}
    BY <1>8, <2>2, <2>5
  <2>6. CASE k = 0 \/ k = 11 \/ k = 12 \/ k = 16 \/ k = 18
    <3>1. PICK v : At(k, v) \in low
      BY <2>2, <2>6
    <3>2. k \in DOMAIN At(k, v)
      BY DEF At
    <3> QED  BY <3>1, <3>2
  <2> QED  BY <2>1, <2>3, <2>4, <2>5, <2>6
<1>15. ASSUME NEW k \in 20 .. 30 PROVE \E m \in high : k \in DOMAIN m
  <2>1. \/ k = 20 \/ k = 21 \/ k = 22 \/ k = 23 \/ k = 24 \/ k = 25 \/ k = 26 \/ k = 27
        \/ k = 28 \/ k = 29 \/ k = 30
    OBVIOUS
  <2>2. /\ At(20, factor) \in high /\ At(21, LowWord(-2)) \in high /\ At(22, HighWord(energy)) \in high
        /\ At(23, LowWord(energy)) \in high /\ At(24, 0) \in high /\ At(25, dca) \in high
        /\ At(26, LowWord(-2)) \in high /\ At(27, dcv) \in high /\ At(28, LowWord(-1)) \in high
        /\ At(29, dcw) \in high /\ At(30, 0) \in high
    OBVIOUS
  <2> HIDE DEF high
  <2>3. PICK v : At(k, v) \in high
    BY <2>1, <2>2
  <2>4. k \in DOMAIN At(k, v)
    BY DEF At
  <2> QED  BY <2>3, <2>4
<1> HIDE DEF low, high
<1>16. \A k \in (0 .. 30) \ RightIndices : \E m \in low \cup high : k \in DOMAIN m
  <2>1. \A k \in 0 .. 30 : k \in 0 .. 19 \/ k \in 20 .. 30
    OBVIOUS
  <2> QED  BY <1>14, <1>15, <2>1
<1>17. \A m \in low \cup high : Payload(m, Int) /\ DOMAIN m \cap RightIndices = {}
  BY <1>13
<1> QED  BY <1>1, <1>16, <1>17

\* Whatever index the client uses, there is a word.
LEMMA IntegerWords ==
  ASSUME NEW r, Reading(r), NEW phases \in SUBSET (1 .. 3), NEW scale \in 0 .. 6
  PROVE  \A k \in (0 .. 30) \cup RightIndices : IntegerRegisters(r, phases, scale)[k] \in Int
<1>1. PICK others :
        /\ IntegerRegisters(r, phases, scale) = Joined(RightWords(r, phases) \cup others)
        /\ \A m \in others : Payload(m, Int) /\ DOMAIN m \cap RightIndices = {}
        /\ \A k \in (0 .. 30) \ RightIndices : \E m \in others : k \in DOMAIN m
  BY IntegerRegistersType
<1>2. \A m \in RightWords(r, phases) \cup others : Payload(m, Int)
  BY <1>1, RightWordsType
<1>3. \A k \in (0 .. 30) \cup RightIndices :
        \E m \in RightWords(r, phases) \cup others : k \in DOMAIN m
  BY <1>1, RightWordsType
<1> QED  BY <1>1, <1>2, <1>3, JoinedInt

LEMMA FloatsPayload ==
  ASSUME NEW r, Reading(r), NEW layout \in Int \X Int \X Int
  PROVE  Payload(Floats(r, layout), Int)
<1> DEFINE Told(first, name, parts, unit) ==
             [k \in {first + 2 * p : p \in {q \in parts : <<name, q>> \in DOMAIN r}} |->
                unit * r[<<name, (k - first) \div 2>>]]
<1>1. ASSUME NEW first \in Int, NEW name, NEW parts \in SUBSET Int, NEW unit \in Int
      PROVE  Payload(Told(first, name, parts, unit), Int)
  <2> DEFINE told == {q \in parts : <<name, q>> \in DOMAIN r}
             value(k) == unit * r[<<name, (k - first) \div 2>>]
  <2>1. ASSUME NEW k \in {first + 2 * p : p \in told}
        PROVE  k \in Int /\ value(k) \in Int
    <3>1. PICK p \in told : k = first + 2 * p
      OBVIOUS
    <3>2. p \in Int
      OBVIOUS
    <3>3. k \in Int /\ (k - first) \div 2 = p
      BY <3>1, <3>2
    <3>4. r[<<name, p>>] \in Int
      BY DEF Reading
    <3> QED  BY <3>3, <3>4
  <2>2. Told(first, name, parts, unit) = [k \in {first + 2 * p : p \in told} |-> value(k)]
    OBVIOUS
  <2> HIDE DEF told, Told, value
  <2> QED  BY <2>1, <2>2 DEF Payload
<1> HIDE DEF Told
<1>2. Phases \in SUBSET Int /\ {0} \in SUBSET Int
  BY DEF Phases
<1>3. /\ Payload(Told(0, "inverter_current", Phases, 1), Int)
      /\ Payload(Told(12, "inverter_voltage", Phases, 1), Int)
      /\ Payload(Told(20, "inverter_power", {0}, 1000), Int)
      /\ Payload(Told(22, "inverter_frequency", {0}, 1), Int)
      /\ Payload(Told(24, "inverter_apparent_power", {0}, 1000), Int)
      /\ Payload(Told(26, "inverter_reactive_power", {0}, 1000), Int)
      /\ Payload(Told(28, "inverter_power_factor", {0}, 100), Int)
      /\ Payload(Told(30, "inverter_energy", {0}, 1000), Int)
  BY <1>1, <1>2
<1>4. layout[1] \in Int /\ layout[2] \in Int /\ layout[3] \in Int
  OBVIOUS
<1>5. /\ Payload(Told(layout[1], "temperature_air", {0}, 1), Int)
      /\ Payload(Told(layout[2], "temperature_module", {0}, 1), Int)
      /\ Payload(Told(layout[3], "temperature_radiator", {0}, 1), Int)
  BY <1>1, <1>2, <1>4
<1> DEFINE others == Joined({Told(30, "inverter_energy", {0}, 1000),
                             At(32, r[<<"pv_current", 1>>]), At(34, r[<<"pv_voltage", 1>>]),
                             At(36, 1000 * r[<<"pv_power", 0>>])})
<1>6. Payload(others, Int)
  <2>1. /\ r[<<"pv_current", 1>>] \in Int /\ r[<<"pv_voltage", 1>>] \in Int
        /\ r[<<"pv_power", 0>>] \in Int
    BY PvKeys DEF Reading
  <2>2. 1000 * r[<<"pv_power", 0>>] \in Int
    BY <2>1
  <2>3. /\ Payload(At(32, r[<<"pv_current", 1>>]), Int)
        /\ Payload(At(34, r[<<"pv_voltage", 1>>]), Int)
        /\ Payload(At(36, 1000 * r[<<"pv_power", 0>>]), Int)
    BY <2>1, <2>2, AtPayload
  <2> QED  BY <1>3, <2>3, JoinedPayload
<1> DEFINE before == IF layout = SunSpecLayout THEN others ELSE <<>>
<1>7. Payload(before, Int)
  BY <1>6, EmptyPayload
<1>8. Floats(r, layout) =
        Joined({Told(0, "inverter_current", Phases, 1),
                Told(12, "inverter_voltage", Phases, 1),
                Told(20, "inverter_power", {0}, 1000),
                Told(22, "inverter_frequency", {0}, 1),
                Told(24, "inverter_apparent_power", {0}, 1000),
                Told(26, "inverter_reactive_power", {0}, 1000),
                Told(28, "inverter_power_factor", {0}, 100),
                Told(layout[1], "temperature_air", {0}, 1),
                Told(layout[2], "temperature_module", {0}, 1),
                Told(layout[3], "temperature_radiator", {0}, 1), before})
  BY Zenon DEF Floats, Told
<1> HIDE DEF before
<1> QED  BY <1>3, <1>5, <1>7, <1>8, JoinedPayload

------------------------------------------------------------------------------
(* FroniusClient: the inverter models *)

LEMMA InverterKeys ==
  /\ {"inverter_power"} \X (0 .. 3) \subseteq InverterFields
  /\ {"inverter_reactive_power"} \X (0 .. 3) \subseteq InverterFields
  /\ {"inverter_apparent_power"} \X (0 .. 3) \subseteq InverterFields
  /\ {"inverter_voltage"} \X (1 .. 3) \subseteq InverterFields
  /\ {"inverter_current"} \X (1 .. 3) \subseteq InverterFields
  /\ \A name \in {"inverter_frequency", "inverter_power_factor", "temperature_air",
                  "temperature_module", "temperature_radiator"} :
       <<name, 0>> \in InverterFields
BY DEF InverterFields, Phases

LEMMA TemperaturesPayload ==
  ASSUME NEW temps, temps[1] \in Int, temps[2] \in Int, temps[3] \in Int
  PROVE  Payload(Temperatures(temps), InverterFields)
<1>1. /\ Payload(Field("temperature_air", temps[1]), InverterFields)
      /\ Payload(Field("temperature_module", temps[2]), InverterFields)
      /\ Payload(Field("temperature_radiator", temps[3]), InverterFields)
  BY FieldPayload, InverterKeys
<1> QED  BY <1>1, JoinedPayload DEF Temperatures

LEMMA TemperaturesLack ==
  ASSUME NEW temps, NEW name \in Powers
  PROVE  Lacks(Temperatures(temps), name)
<1>1. /\ Lacks(Field("temperature_air", temps[1]), name)
      /\ Lacks(Field("temperature_module", temps[2]), name)
      /\ Lacks(Field("temperature_radiator", temps[3]), name)
  BY OtherLacks DEF Powers
<1> QED  BY <1>1, JoinedLacks DEF Temperatures

\* The block that every inverter model delivers: what it has, and which parts of the powers.
Block(active, apparent, reactive, current, voltage, frequency, factor, temps) ==
  Joined({Each("inverter_power", active), Each("inverter_apparent_power", apparent),
          Each("inverter_reactive_power", reactive), Each("inverter_current", current),
          Each("inverter_voltage", voltage), Field("inverter_frequency", frequency),
          Field("inverter_power_factor", factor), Temperatures(temps)})

LEMMA BlockPayload ==
  ASSUME NEW parts \in SUBSET (0 .. 3), NEW phases \in SUBSET (1 .. 3),
         NEW active \in [parts -> Int], NEW apparent \in [parts -> Int],
         NEW reactive \in [parts -> Int], NEW current \in [phases -> Int],
         NEW voltage \in [phases -> Int], NEW frequency \in Int, NEW factor \in Int,
         NEW temps \in [1 .. 3 -> Int]
  PROVE  LET m == Block(active, apparent, reactive, current, voltage, frequency, factor, temps)
         IN  /\ Payload(m, InverterFields)
             /\ HasParts(m, "inverter_power", active)
             /\ HasParts(m, "inverter_apparent_power", apparent)
             /\ HasParts(m, "inverter_reactive_power", reactive)
<1> DEFINE powers == {Each("inverter_power", active), Each("inverter_apparent_power", apparent),
                      Each("inverter_reactive_power", reactive)}
           others == {Each("inverter_current", current), Each("inverter_voltage", voltage),
                      Field("inverter_frequency", frequency),
                      Field("inverter_power_factor", factor), Temperatures(temps)}
           m == Block(active, apparent, reactive, current, voltage, frequency, factor, temps)
<1>1. m = Joined(powers \cup others)
  <2>1. powers \cup others =
          {Each("inverter_power", active), Each("inverter_apparent_power", apparent),
           Each("inverter_reactive_power", reactive), Each("inverter_current", current),
           Each("inverter_voltage", voltage), Field("inverter_frequency", frequency),
           Field("inverter_power_factor", factor), Temperatures(temps)}
    OBVIOUS
  <2> QED  BY <2>1, Zenon DEF Block, m
<1>2. \A x \in powers \cup others : Payload(x, InverterFields)
  <2>1. /\ Payload(Each("inverter_power", active), InverterFields)
        /\ Payload(Each("inverter_apparent_power", apparent), InverterFields)
        /\ Payload(Each("inverter_reactive_power", reactive), InverterFields)
        /\ Payload(Each("inverter_current", current), InverterFields)
        /\ Payload(Each("inverter_voltage", voltage), InverterFields)
    <3>1. /\ {"inverter_power"} \X parts \subseteq InverterFields
          /\ {"inverter_apparent_power"} \X parts \subseteq InverterFields
          /\ {"inverter_reactive_power"} \X parts \subseteq InverterFields
          /\ {"inverter_current"} \X phases \subseteq InverterFields
          /\ {"inverter_voltage"} \X phases \subseteq InverterFields
      BY InverterKeys
    <3> QED  BY <3>1, EachPayload
  <2>2. /\ Payload(Field("inverter_frequency", frequency), InverterFields)
        /\ Payload(Field("inverter_power_factor", factor), InverterFields)
    BY FieldPayload, InverterKeys
  <2> QED  BY <2>1, <2>2, TemperaturesPayload
<1>3. \A name \in Powers : \A x \in others : Lacks(x, name)
  <2> TAKE name \in Powers
  <2>1. /\ Lacks(Each("inverter_current", current), name)
        /\ Lacks(Each("inverter_voltage", voltage), name)
        /\ Lacks(Field("inverter_frequency", frequency), name)
        /\ Lacks(Field("inverter_power_factor", factor), name)
    BY OtherLacks DEF Powers
  <2> QED  BY <2>1, TemperaturesLack
<1>4. ASSUME NEW name \in Powers, NEW values, Each(name, values) \in powers,
             \A x \in powers : x = Each(name, values) \/ Lacks(x, name)
      PROVE  HasParts(m, name, values)
  <2> DEFINE own == Each(name, values)
  <2>1. HasParts(own, name, values)
    BY EachParts
  <2>2. own \in powers \cup others /\ \A x \in powers \cup others : x = own \/ Lacks(x, name)
    BY <1>3, <1>4
  <2> HIDE DEF powers, others, m, own
  <2> QED  BY <1>1, <2>1, <2>2, JoinedParts
<1>5. /\ Lacks(Each("inverter_apparent_power", apparent), "inverter_power")
      /\ Lacks(Each("inverter_reactive_power", reactive), "inverter_power")
      /\ Lacks(Each("inverter_power", active), "inverter_apparent_power")
      /\ Lacks(Each("inverter_reactive_power", reactive), "inverter_apparent_power")
      /\ Lacks(Each("inverter_power", active), "inverter_reactive_power")
      /\ Lacks(Each("inverter_apparent_power", apparent), "inverter_reactive_power")
  BY OtherLacks
<1> HIDE DEF others, m
<1>6. /\ HasParts(m, "inverter_power", active)
      /\ HasParts(m, "inverter_apparent_power", apparent)
      /\ HasParts(m, "inverter_reactive_power", reactive)
  BY <1>4, <1>5 DEF Powers
<1> HIDE DEF powers
<1>7. Payload(m, InverterFields)
  BY <1>1, <1>2, JoinedPayload
<1> QED  BY <1>6, <1>7 DEF m

\* Three phases, floats: the phases share each power.
LEMMA Model113Payload ==
  ASSUME NEW f, Payload(f, Int), NEW short \in BOOLEAN,
         NEW words, \A k \in 31 .. 35 \ {34} : words[k] \in Int
  PROVE  /\ Payload(Model113(f, words, short), InverterFields)
         /\ \A name \in Powers :
              \E total \in Int, parts \in [1 .. 3 -> Int] :
                /\ AddUp(total, parts)
                /\ HasParts(Model113(f, words, short), name, WithTotal(total, parts))
<1> DEFINE total(name) == FloatTotal(f, name)
           parts(name) == SplitByWeights(total(name), PhaseWeights(f), short)
           whole(name) == WithTotal(total(name), parts(name))
           currents == [p \in Phases |-> Float(f, 2 * p)]
           voltages == [p \in Phases |-> Float(f, 12 + 2 * p)]
           frequency == Float(f, 22)
           factor == PowerFactor(total("inverter_power"), total("inverter_apparent_power"),
                                 Float(f, 28))
           temps == ModelTemperatures(f, words)
           m == Block(whole("inverter_power"), whole("inverter_apparent_power"),
                      whole("inverter_reactive_power"), currents, voltages, frequency,
                      factor, temps)
<1>1. \A i : Float(f, i) \in Int
  BY FloatInt
<1>2. \A name : total(name) \in Int
  BY <1>1, WattsInt DEF FloatTotal
<1>3. PhaseWeights(f) \in [1 .. 3 -> Nat]
  <2> DEFINE current(p) == Float(f, 2 * p)
             voltage(p) == Float(f, 12 + 2 * p)
  <2>1. \A p \in 1 .. 3 : current(p) \in Int /\ voltage(p) \in Int
    BY <1>1
  <2> HIDE DEF current, voltage
  <2>2. \A p \in 1 .. 3 : current(p) * voltage(p) \in Int
    BY <2>1
  <2> QED  BY <2>2 DEF Positive, Phases, PhaseWeights, current, voltage
<1> HIDE DEF total
<1>4. \A name : parts(name) \in [1 .. 3 -> Int] /\ AddUp(total(name), parts(name))
  BY <1>2, <1>3, WeightedPartsType, WeightedPartsAddUp
<1> HIDE DEF parts
<1>5. \A name : whole(name) \in [0 .. 3 -> Int]
  BY <1>2, <1>4, WithTotalType
<1>6. currents \in [1 .. 3 -> Int] /\ voltages \in [1 .. 3 -> Int] /\ frequency \in Int
  BY <1>1 DEF Phases
<1>7. factor \in Int
  BY <1>1, <1>2, PowerFactorBounded
<1>8. temps \in [1 .. 3 -> Int]
  BY ModelTemperaturesType
<1> HIDE DEF whole, currents, voltages, frequency, factor, temps
<1>9. Model113(f, words, short) = m
  BY Zenon DEF Model113, Block, m, whole, currents, voltages, frequency, factor, temps, total,
     parts
<1>10. /\ Payload(m, InverterFields)
       /\ HasParts(m, "inverter_power", whole("inverter_power"))
       /\ HasParts(m, "inverter_apparent_power", whole("inverter_apparent_power"))
       /\ HasParts(m, "inverter_reactive_power", whole("inverter_reactive_power"))
  BY <1>5, <1>6, <1>7, <1>8, BlockPayload
<1> HIDE DEF m
<1>11. \A name \in Powers : HasParts(m, name, whole(name))
  BY <1>10 DEF Powers
<1> QED  BY <1>2, <1>4, <1>9, <1>10, <1>11 DEF whole

\* What is known of the powers of a single-phase inverter: the total is the one phase's.
Both(x) == [p \in 0 .. 1 |-> x]
BothShow(m, name) == \E x \in Int : HasParts(m, name, Both(x))

LEMMA SinglePhaseBlock ==
  ASSUME NEW active \in Int, NEW apparent \in Int, NEW reactive \in Int, NEW current \in Int,
         NEW voltage \in Int, NEW frequency \in Int, NEW factor \in Int,
         NEW temps \in [1 .. 3 -> Int]
  PROVE  LET m == Block(Both(active), Both(apparent), Both(reactive), At(1, current),
                        At(1, voltage), frequency, factor, temps)
         IN  Payload(m, InverterFields) /\ \A name \in Powers : BothShow(m, name)
<1> DEFINE m == Block(Both(active), Both(apparent), Both(reactive), At(1, current),
                      At(1, voltage), frequency, factor, temps)
<1>1. /\ Both(active) \in [0 .. 1 -> Int] /\ Both(apparent) \in [0 .. 1 -> Int]
      /\ Both(reactive) \in [0 .. 1 -> Int]
      /\ At(1, current) \in [{1} -> Int] /\ At(1, voltage) \in [{1} -> Int]
      /\ 0 .. 1 \in SUBSET (0 .. 3) /\ {1} \in SUBSET (1 .. 3)
  BY DEF At, Both
<1>2. /\ Payload(m, InverterFields)
      /\ HasParts(m, "inverter_power", Both(active))
      /\ HasParts(m, "inverter_apparent_power", Both(apparent))
      /\ HasParts(m, "inverter_reactive_power", Both(reactive))
  BY <1>1, BlockPayload
<1> HIDE DEF m
<1>3. \A name \in Powers : BothShow(m, name)
  BY <1>2 DEF Powers, BothShow
<1> QED  BY <1>2, <1>3 DEF m

LEMMA Model111Payload ==
  ASSUME NEW f, Payload(f, Int), NEW words, \A k \in 31 .. 35 \ {34} : words[k] \in Int
  PROVE  /\ Payload(Model111(f, words), InverterFields)
         /\ \A name \in Powers : BothShow(Model111(f, words), name)
<1> DEFINE active == FloatTotal(f, "inverter_power")
           apparent == FloatTotal(f, "inverter_apparent_power")
           reactive == FloatTotal(f, "inverter_reactive_power")
           factor == PowerFactor(active, apparent, Float(f, 28))
           temps == ModelTemperatures(f, words)
           m == Block(Both(active), Both(apparent), Both(reactive), At(1, Float(f, 2)),
                      At(1, Float(f, 14)), Float(f, 22), factor, temps)
<1>1. \A i : Float(f, i) \in Int
  BY FloatInt
<1>2. active \in Int /\ apparent \in Int /\ reactive \in Int
  BY <1>1, WattsInt DEF FloatTotal
<1> HIDE DEF active, apparent, reactive
<1>3. factor \in Int /\ temps \in [1 .. 3 -> Int]
  BY <1>1, <1>2, PowerFactorBounded, ModelTemperaturesType
<1> HIDE DEF factor, temps
<1>4. Model111(f, words) = m
  BY Zenon DEF Model111, Block, Both, m, factor, temps, active, apparent, reactive
<1>5. Payload(m, InverterFields) /\ \A name \in Powers : BothShow(m, name)
  BY <1>1, <1>2, <1>3, SinglePhaseBlock
<1> QED  BY <1>4, <1>5

LEMMA ScaledTemperaturesType ==
  ASSUME NEW b, \A k \in {31, 32, 33, 35} : b[k] \in Int
  PROVE  \E temps \in [1 .. 3 -> Int] : ScaledTemperatures(b) = Temperatures(temps)
<1> DEFINE temps == <<ScaledI16(b, 31, 35), ScaledI16(b, 33, 35), ScaledI16(b, 32, 35)>>
<1>1. /\ ScaledI16(b, 31, 35) \in Int /\ ScaledI16(b, 33, 35) \in Int
      /\ ScaledI16(b, 32, 35) \in Int
  BY ScaledInt
<1>2. temps \in [1 .. 3 -> Int]
  BY <1>1
<1>3. ScaledTemperatures(b) = Temperatures(temps)
  BY DEF ScaledTemperatures
<1> QED  BY <1>2, <1>3

LEMMA Model101Payload ==
  ASSUME NEW b, \A k \in (0 .. 30) \cup RightIndices : b[k] \in Int
  PROVE  /\ Payload(Model101(b), InverterFields)
         /\ \A name \in Powers : BothShow(Model101(b), name)
<1> DEFINE active == Watts(ScaledI16(b, 4, 5))
           apparent == Watts(ScaledU16(b, 8, 9))
           reactive == Watts(ScaledI16(b, 10, 11))
           current == ScaledU16(b, 0, 1)
           voltage == ScaledU16(b, 2, 3)
           frequency == ScaledU16(b, 6, 7)
           factor == PowerFactor(active, apparent, ScaledI16(b, 20, 21))
           m(temps) == Block(Both(active), Both(apparent), Both(reactive), At(1, current),
                      At(1, voltage), frequency, factor, temps)
<1>1. /\ ScaledI16(b, 4, 5) \in Int /\ ScaledU16(b, 8, 9) \in Int
      /\ ScaledI16(b, 10, 11) \in Int /\ ScaledI16(b, 20, 21) \in Int
      /\ current \in Int /\ voltage \in Int /\ frequency \in Int
  BY ScaledInt
<1>2. active \in Int /\ apparent \in Int /\ reactive \in Int
  BY <1>1, WattsInt
<1> HIDE DEF active, apparent, reactive, current, voltage, frequency
<1>3. factor \in Int
  BY <1>1, <1>2, PowerFactorBounded
<1> HIDE DEF factor
<1>4. PICK temps \in [1 .. 3 -> Int] : ScaledTemperatures(b) = Temperatures(temps)
  BY ScaledTemperaturesType DEF RightIndices
<1>5. Model101(b) = m(temps)
  BY <1>4, Zenon DEF Model101, Block, Both, m, factor, active, apparent, reactive, current,
     voltage, frequency
<1>6. Payload(m(temps), InverterFields) /\ \A name \in Powers : BothShow(m(temps), name)
  BY <1>1, <1>2, <1>3, SinglePhaseBlock
<1> QED  BY <1>5, <1>6

LEMMA Model103Payload ==
  ASSUME NEW b, \A k \in (0 .. 30) \cup RightIndices : b[k] \in Int
  PROVE  Payload(Model103(b), InverterFields)
<1> DEFINE active == [p \in 0 .. 3 |-> Watts(ScaledI16(b, 9 + p, 13))]
           apparent == [p \in 0 .. 3 |-> Watts(ScaledU16(b, 16 + p, 20))]
           reactive == [p \in 0 .. 3 |-> Watts(ScaledI16(b, 21 + p, 25))]
           current == [p \in Phases |-> ScaledU16(b, p, 4)]
           voltage == [p \in Phases |-> ScaledU16(b, 4 + p, 8)]
           frequency == ScaledU16(b, 14, 15)
           factor == PowerFactor(active[0], apparent[0], ScaledI16(b, 20, 21))
           m(temps) == Block(active, apparent, reactive, current, voltage, frequency, factor, temps)
<1>1. \A v, sf \in 0 .. 30 :
        ScaledI16(b, v, sf) \in Int /\ ScaledU16(b, v, sf) \in Int
  BY ScaledInt
<1>2. active \in [0 .. 3 -> Int] /\ apparent \in [0 .. 3 -> Int] /\ reactive \in [0 .. 3 -> Int]
  <2>1. \A p \in 0 .. 3 : /\ ScaledI16(b, 9 + p, 13) \in Int
                          /\ ScaledU16(b, 16 + p, 20) \in Int
                          /\ ScaledI16(b, 21 + p, 25) \in Int
    BY <1>1
  <2> QED  BY <2>1, WattsInt
<1>3. current \in [1 .. 3 -> Int] /\ voltage \in [1 .. 3 -> Int]
  <2>1. \A p \in 1 .. 3 : ScaledU16(b, p, 4) \in Int /\ ScaledU16(b, 4 + p, 8) \in Int
    BY <1>1
  <2> QED  BY <2>1 DEF Phases
<1>4. frequency \in Int /\ ScaledI16(b, 20, 21) \in Int
  BY <1>1
<1> HIDE DEF active, apparent, reactive, current, voltage, frequency
<1>5. active[0] \in Int /\ apparent[0] \in Int
  BY <1>2
<1>6. factor \in Int
  <2>1. \A x, y, z \in Int : PowerFactor(x, y, z) \in Int
    BY PowerFactorBounded
  <2> QED  BY <1>4, <1>5, <2>1
<1> HIDE DEF factor
<1>7. PICK temps \in [1 .. 3 -> Int] : ScaledTemperatures(b) = Temperatures(temps)
  BY ScaledTemperaturesType DEF RightIndices
<1>8. Model103(b) = m(temps)
  BY <1>7, Zenon DEF Model103, Block, m, factor, active, apparent, reactive, current, voltage,
     frequency
<1>9. Payload(m(temps), InverterFields)
  <2>1. 0 .. 3 \in SUBSET (0 .. 3) /\ 1 .. 3 \in SUBSET (1 .. 3)
    OBVIOUS
  <2> QED  BY <1>2, <1>3, <1>4, <1>6, <2>1, BlockPayload
<1> QED  BY <1>8, <1>9

------------------------------------------------------------------------------
(* FroniusClient: the PV strings *)

LEMMA PvPayload ==
  ASSUME NEW current \in [1 .. 4 -> Int], NEW voltage \in [1 .. 4 -> Int],
         NEW power \in [0 .. 4 -> Int]
  PROVE  /\ Payload(PvFieldsOf(current, voltage, power), PvFields)
         /\ HasParts(PvFieldsOf(current, voltage, power), "pv_power", power)
<1> DEFINE maps == {Each("pv_current", current), Each("pv_voltage", voltage),
                    Each("pv_power", power)}
<1>1. PvFieldsOf(current, voltage, power) = Joined(maps)
  BY DEF PvFieldsOf
<1>2. \A m \in maps : Payload(m, PvFields)
  BY EachPayload, PvKeys
<1>3. HasParts(Each("pv_power", power), "pv_power", power)
  BY EachParts
<1>4. /\ Each("pv_power", power) \in maps
      /\ \A m \in maps : m = Each("pv_power", power) \/ Lacks(m, "pv_power")
  <2>1. /\ Lacks(Each("pv_current", current), "pv_power")
        /\ Lacks(Each("pv_voltage", voltage), "pv_power")
    BY OtherLacks
  <2> QED  BY <2>1
<1> HIDE DEF maps
<1> QED  BY <1>1, <1>2, <1>3, <1>4, JoinedPayload, JoinedParts

LEMMA StringCountType ==
  ASSUME NEW c, c.pv_string_count \in Int
  PROVE  StringCount(c) \in 1 .. 4
BY DEF StringCount, Within

\* A block of model 160 holds what the client may ask of it.
LEMMA Registers160Type ==
  ASSUME NEW r, Reading(r), NEW modules \in Nat
  PROVE  LET b == Registers160(r, modules)
         IN  /\ b[0] \in Int /\ b[1] \in Int /\ b[2] \in Int /\ b[6] \in Int
             /\ \A i \in 1 .. modules, j \in 9 .. 11 : b[8 + 20 * (i - 1) + j] \in Int
<1> DEFINE quantity == <<"pv_current", "pv_voltage", "pv_power">>
           unit == <<10, 100, 1>>
           held == ModuleIndices(modules)
           value(k) == UnsignedWord(r, quantity[((k - 8) % 20) - 8], (k - 8) \div 20 + 1,
                                    unit[((k - 8) % 20) - 8])
           strings == [k \in held |-> value(k)]
           maps == {At(0, LowWord(-2)), At(1, LowWord(-1)), At(2, 0), At(6, modules), strings}
<1>1. Registers160(r, modules) = Joined(maps)
  BY Zenon DEF Registers160
<1>2. Payload(strings, Int)
  <2>1. ASSUME NEW k \in held PROVE k \in Int /\ value(k) \in Int
    <3>1. PICK i \in 1 .. modules, j \in 9 .. 11 : k = 8 + 20 * (i - 1) + j
      BY DEF ModuleIndices
    <3>2. k \in Int /\ ((k - 8) % 20) - 8 \in 1 .. 3
      BY <3>1
    <3>3. unit[((k - 8) % 20) - 8] \in Nat /\ unit[((k - 8) % 20) - 8] > 0
      BY <3>2
    <3> HIDE DEF quantity, unit
    <3> QED  BY <3>2, <3>3, SentinelOrWord
  <2> HIDE DEF held, value
  <2> QED  BY <2>1 DEF Payload
<1>3. \A m \in maps : Payload(m, Int)
  <2>1. LowWord(-1) \in Int /\ LowWord(-2) \in Int
    BY WordInt
  <2>2. /\ Payload(At(0, LowWord(-2)), Int) /\ Payload(At(1, LowWord(-1)), Int)
        /\ Payload(At(2, 0), Int) /\ Payload(At(6, modules), Int)
    BY <2>1, AtPayload
  <2> HIDE DEF strings
  <2> QED  BY <1>2, <2>2
<1>4. \A k \in {0, 1, 2, 6} \cup held : \E m \in maps : k \in DOMAIN m
  <2>1. /\ DOMAIN At(0, LowWord(-2)) = {0} /\ DOMAIN At(1, LowWord(-1)) = {1}
        /\ DOMAIN At(2, 0) = {2} /\ DOMAIN At(6, modules) = {6} /\ DOMAIN strings = held
    BY DEF At
  <2> HIDE DEF strings, held
  <2> QED  BY <2>1
<1> HIDE DEF maps, held
<1>5. \A k \in {0, 1, 2, 6} \cup held : Registers160(r, modules)[k] \in Int
  BY <1>1, <1>3, <1>4, JoinedInt
<1> QED  BY <1>5 DEF held, ModuleIndices

\* No string beyond the modules of the block is asked of it.
LEMMA Model160Payload ==
  ASSUME NEW r, Reading(r), NEW modules \in Nat, NEW c, c.pv_string_count \in Int
  PROVE  LET m == Model160(Registers160(r, modules), 8 + 20 * modules, c)
         IN  Payload(m, PvFields) /\ (m # <<>> => <<"pv_power", 0>> \in DOMAIN m)
<1> DEFINE b == Registers160(r, modules)
           length == 8 + 20 * modules
           read == ModulesRead(b, length, c)
           raw(i, k) == b[8 + 20 * (i - 1) + k]
           value(i, k, sf) == ModuleValue(b, read, i, k, sf)
           power(i) == Watts(value(i, 11, 2))
           current == [i \in Strings |-> value(i, 9, 0)]
           voltage == [i \in Strings |-> value(i, 10, 1)]
           powers == [i \in 0 .. 4 |-> IF i > 0 THEN power(i)
                                       ELSE power(1) + power(2) + power(3) + power(4)]
           m == Model160(b, length, c)
<1> SUFFICES Payload(m, PvFields) /\ (m # <<>> => <<"pv_power", 0>> \in DOMAIN m)
  OBVIOUS
<1>1. /\ b[0] \in Int /\ b[1] \in Int /\ b[2] \in Int /\ b[6] \in Int
      /\ \A i \in 1 .. modules, j \in 9 .. 11 : raw(i, j) \in Int
  BY Registers160Type
<1>2. read \in Int /\ read <= modules
  <2>1. (length - 8) \div 20 = modules
    OBVIOUS
  <2>2. StringCount(c) \in Int
    BY StringCountType
  <2> HIDE DEF b, length
  <2> QED  BY <1>1, <2>1, <2>2 DEF ModulesRead, MinOf, Positive
<1> HIDE DEF b, read
<1> DEFINE unusable == length < 8 \/ ~(\A k \in 0 .. 2 : IsScaleFactor(b[k]))
<1>3. ASSUME ~unusable
      PROVE  /\ current \in [1 .. 4 -> Int] /\ voltage \in [1 .. 4 -> Int]
             /\ powers \in [0 .. 4 -> Int]
  <2>1. \A k \in 0 .. 2 : I16(b[k]) \in -6 .. 6
    BY <1>3 DEF IsScaleFactor
  <2>2. ASSUME NEW i \in 1 .. 4, NEW k \in 9 .. 11, NEW sf \in 0 .. 2
        PROVE  value(i, k, sf) \in Int
    <3>1. CASE i > read
      BY <3>1 DEF ModuleValue
    <3>2. CASE ~(i > read)
      <4>1. i \in 1 .. modules
        BY <1>2, <3>2
      <4>2. raw(i, k) \in Int
        BY <1>1, <4>1
      <4>3. TimesTenTo(raw(i, k), I16(b[sf])) \in Int
        BY <2>1, <4>2, TimesTenToInt
      <4> QED  BY <4>3 DEF ModuleValue
    <3> QED  BY <3>1, <3>2
  <2> HIDE DEF value
  <2>3. \A i \in 1 .. 4 : power(i) \in Int
    BY <2>2, WattsInt
  <2> HIDE DEF power
  <2> QED  BY <2>2, <2>3 DEF Strings
<1> HIDE DEF current, voltage, powers, power, value, m, unusable, length
<1>4. m = IF unusable THEN <<>> ELSE PvFieldsOf(current, voltage, powers)
  BY Zenon DEF Model160, m, unusable, current, voltage, powers, power, value, read
<1>5. CASE ~unusable
  <2>1. /\ Payload(PvFieldsOf(current, voltage, powers), PvFields)
        /\ HasParts(PvFieldsOf(current, voltage, powers), "pv_power", powers)
    BY <1>3, <1>5, PvPayload
  <2>2. <<"pv_power", 0>> \in DOMAIN PvFieldsOf(current, voltage, powers)
    BY <1>3, <1>5, <2>1 DEF HasParts
  <2> QED  BY <1>4, <1>5, <2>1, <2>2
<1>6. CASE unusable
  BY <1>4, <1>6, EmptyPayload
<1> QED  BY <1>5, <1>6

LEMMA LegacyRegistersType ==
  ASSUME NEW r, Reading(r)
  PROVE  Payload(LegacyRegisters(r), Int)
<1> DEFINE power == SignedWord(r, "pv_power", 0, 1)
           current == LowWord(r[<<"pv_current", 1>>] \div 10)
           voltage == LowWord(r[<<"pv_voltage", 1>>] \div 100)
           maps == {At(40083, power), At(40084, 0), At(40096, current), At(40099, LowWord(-2)),
                    At(40097, voltage), At(40100, LowWord(-1)), At(40098, power), At(40101, 0)}
<1>1. r[<<"pv_current", 1>>] \in Int /\ r[<<"pv_voltage", 1>>] \in Int
  BY PvKeys DEF Reading
<1>2. r[<<"pv_current", 1>>] \div 10 \in Int /\ r[<<"pv_voltage", 1>>] \div 100 \in Int
  BY <1>1
<1>3. current \in Int /\ voltage \in Int /\ LowWord(-1) \in Int /\ LowWord(-2) \in Int
  BY <1>2, WordInt
<1>4. power \in Int
  BY SentinelOrWord
<1> HIDE DEF power, current, voltage
<1>5. LegacyRegisters(r) = Joined(maps)
  BY DEF LegacyRegisters, power, current, voltage
<1>6. \A m \in maps : Payload(m, Int)
  BY <1>3, <1>4, AtPayload
<1> HIDE DEF maps
<1> QED  BY <1>5, <1>6, JoinedPayload

LEMMA DcAnswersType ==
  ASSUME NEW r, Reading(r), NEW answered
  PROVE  Payload(DcAnswers(r, answered), Int)
<1> DEFINE read == UNION {DcRequests[q] : q \in {p \in DOMAIN DcRequests :
                                                   {p, "block"} \cap answered # {}}}
<1>1. /\ DOMAIN DcRequests = {"pv_power", "dc_current", "dc_voltage", "dc_power"}
      /\ \A q \in DOMAIN DcRequests : DcRequests[q] \subseteq DOMAIN LegacyRegisters(r)
  <2>1. DOMAIN LegacyRegisters(r) = {40083, 40084, 40096, 40099, 40097, 40100, 40098, 40101}
    BY DEF LegacyRegisters, Joined, At
  <2> QED  BY <2>1 DEF DcRequests
<1>2. read \subseteq DOMAIN LegacyRegisters(r)
  BY <1>1
<1>3. DcAnswers(r, answered) = [a \in read |-> LegacyRegisters(r)[a]]
  BY DEF DcAnswers
<1> HIDE DEF read
<1> QED  BY <1>2, <1>3, LegacyRegistersType DEF Payload

LEMMA LegacyChannelsType ==
  ASSUME NEW r, Reading(r)
  PROVE  \A i \in 1 .. 4, k \in 1 .. 3 : LegacyChannels(r)[i][k] \in Int
<1>1. ASSUME NEW i \in 1 .. 4
      PROVE  /\ LowWord(r[<<"pv_voltage", i>>] \div 100) \in Int
             /\ LowWord(r[<<"pv_current", i>>] \div 100) \in Int
             /\ LowWord(r[<<"pv_power", i>>]) \in Int
  <2>1. /\ <<"pv_voltage", i>> \in PvFields /\ <<"pv_current", i>> \in PvFields
        /\ <<"pv_power", i>> \in PvFields
    BY PvKeys
  <2>2. /\ r[<<"pv_voltage", i>>] \in Int /\ r[<<"pv_current", i>>] \in Int
        /\ r[<<"pv_power", i>>] \in Int
    BY <2>1 DEF Reading
  <2>3. r[<<"pv_voltage", i>>] \div 100 \in Int /\ r[<<"pv_current", i>>] \div 100 \in Int
    BY <2>2
  <2> QED  BY <2>2, <2>3, WordInt
<1> QED  BY <1>1 DEF LegacyChannels, Strings

\* Whatever was not answered is empty, and gives zeros.
LEMMA LegacyPvPayload ==
  ASSUME NEW b, Payload(b, Int), NEW channels,
         \A i \in DOMAIN channels, k \in 1 .. 3 : channels[i][k] \in Int,
         NEW c, c.pv_string_count \in Int
  PROVE  /\ Payload(LegacyPv(b, channels, c), PvFields)
         /\ <<"pv_power", 0>> \in DOMAIN LegacyPv(b, channels, c)
<1> DEFINE n == StringCount(c)
           dc == LegacyDc(b)
           own(i, k) == I16(Channel(channels, n, i, k))
           share == [i \in Strings |-> IF i <= n THEN SplitEvenly(dc.power, n)[i] ELSE 0]
           current == [i \in Strings |-> Shown(channels, n, i, 100 * own(i, 2),
                                              Positive(Trunc(dc.current, n)))]
           voltage == [i \in Strings |-> Shown(channels, n, i, 100 * own(i, 1), dc.voltage)]
           power == [i \in 0 .. 4 |->
                       IF i = 0 THEN dc.total
                       ELSE Shown(channels, n, i, own(i, 3), Positive(share[i]))]
<1>1. n \in 1 .. 4
  BY StringCountType
<1>2. dc.total \in Int /\ dc.power \in Int /\ dc.current \in Int /\ dc.voltage \in Int
  <2>1. \A v, sf : LegacyI16(b, v, sf) \in Int
    BY LegacyInt
  <2> QED  BY <2>1, WattsInt DEF LegacyDc
<1> HIDE DEF n, dc
<1>3. \A i \in 1 .. 4, k \in 1 .. 3 : own(i, k) \in Int
  <2>1. \A i \in 1 .. 4, k \in 1 .. 3 : Channel(channels, n, i, k) \in Int
    BY DEF Channel
  <2> QED  BY <2>1, I16Int
<1>4. \A i : share[i] \in Int \/ i \notin 1 .. 4
  <2>1. SplitEvenly(dc.power, n) \in [1 .. n -> Int]
    BY <1>1, <1>2, EvenPartsType
  <2> QED  BY <1>1, <2>1 DEF Strings
<1> HIDE DEF own, share
<1>5. ASSUME NEW i, NEW x \in Int, NEW y \in Int PROVE Shown(channels, n, i, x, y) \in Int
  BY DEF Shown
<1>6. current \in [1 .. 4 -> Int]
  <2>1. Positive(Trunc(dc.current, n)) \in Int
    <3>1. Trunc(dc.current, n) \in Int
      BY <1>1, <1>2, TruncInt
    <3> QED  BY <3>1 DEF Positive
  <2>2. \A i \in 1 .. 4 : 100 * own(i, 2) \in Int
    BY <1>3
  <2> QED  BY <1>5, <2>1, <2>2 DEF Strings
<1>7. voltage \in [1 .. 4 -> Int]
  <2>1. \A i \in 1 .. 4 : 100 * own(i, 1) \in Int
    BY <1>3
  <2> QED  BY <1>2, <1>5, <2>1 DEF Strings
<1>8. power \in [0 .. 4 -> Int]
  <2>1. \A i \in 1 .. 4 : own(i, 3) \in Int /\ Positive(share[i]) \in Int
    BY <1>3, <1>4 DEF Positive
  <2> QED  BY <1>2, <1>5, <2>1
<1> HIDE DEF current, voltage, power
<1>9. LegacyPv(b, channels, c) = PvFieldsOf(current, voltage, power)
  BY Zenon DEF LegacyPv, current, voltage, power, share, own, dc, n
<1>10. /\ Payload(PvFieldsOf(current, voltage, power), PvFields)
       /\ HasParts(PvFieldsOf(current, voltage, power), "pv_power", power)
  BY <1>6, <1>7, <1>8, PvPayload
<1> QED  BY <1>8, <1>9, <1>10 DEF HasParts

------------------------------------------------------------------------------
(* FroniusClient: what it delivers *)

LEMMA PayloadLacks ==
  ASSUME NEW m, NEW keys, Payload(m, keys), NEW name, \A k \in keys : k[1] # name
  PROVE  Lacks(m, name)
BY DEF Payload, Lacks

LEMMA WiderPayload ==
  ASSUME NEW m, NEW keys, NEW wider, Payload(m, keys), keys \subseteq wider
  PROVE  Payload(m, wider)
BY DEF Payload

LEMMA PvLacksPowers == \A name \in Powers : \A k \in PvFields : k[1] # name
BY DEF Powers, PvFields

\* What is delivered of a power of the inverter.
PowerOf(inverter, m, name) ==
  \/ Lacks(m, name)
  \/ inverter.model = "103"
  \/ inverter.model \in {"101", "111"} /\ BothShow(m, name)
  \/ inverter.model = "113" /\ ThreeShare(m, name)

LEMMA AcPayload ==
  ASSUME NEW inverter, inverter.model \in {"none", "101", "103", "111", "113"},
         inverter.scale \in 0 .. 6,
         inverter.model \in {"111", "113"} => inverter.layout \in Int \X Int \X Int,
         NEW r, Reading(r), NEW short \in BOOLEAN
  PROVE  /\ Payload(AcValues(inverter, r, short), InverterFields)
         /\ \A name \in Powers : PowerOf(inverter, AcValues(inverter, r, short), name)
<1> DEFINE floats == Floats(r, inverter.layout)
           words == IntegerTemperatures(r)
           ac == AcValues(inverter, r, short)
<1>1. CASE inverter.model = "none"
  <2>1. ac = <<>>
    BY <1>1 DEF AcValues
  <2>2. \A name : Lacks(<<>>, name)
    BY DEF Lacks
  <2> QED  BY <2>1, <2>2, EmptyPayload DEF PowerOf
<1>2. \A k \in 31 .. 35 \ {34} : words[k] \in Int
  <2>1. Payload(words, Int) /\ DOMAIN words = {31, 32, 33, 35}
    BY IntegerTemperaturesType
  <2> HIDE DEF words
  <2> QED  BY <2>1 DEF Payload
<1>3. CASE inverter.model = "113"
  <2>1. Payload(floats, Int)
    BY <1>3, FloatsPayload
  <2>2. ac = Model113(floats, words, short)
    BY <1>3 DEF AcValues
  <2> HIDE DEF floats, words, ac
  <2>3. /\ Payload(ac, InverterFields)
        /\ \A name \in Powers : ThreeShare(ac, name)
    BY <1>2, <2>1, <2>2, Model113Payload DEF ThreeShare
  <2> QED  BY <1>3, <2>3 DEF PowerOf, ac
<1>4. CASE inverter.model = "103"
  <2>1. ac = Model103(IntegerRegisters(r, 1 .. 3, inverter.scale))
    BY <1>4 DEF AcValues, Phases
  <2>2. 1 .. 3 \in SUBSET (1 .. 3)
    OBVIOUS
  <2> QED  BY <1>4, <2>1, <2>2, IntegerWords, Model103Payload DEF PowerOf
<1>5. CASE inverter.model = "111"
  <2>1. Payload(floats, Int)
    BY <1>5, FloatsPayload
  <2>2. ac = Model111(floats, words)
    BY <1>5 DEF AcValues
  <2> HIDE DEF floats, words, ac
  <2>3. Payload(ac, InverterFields) /\ \A name \in Powers : BothShow(ac, name)
    BY <1>2, <2>1, <2>2, Model111Payload
  <2> QED  BY <1>5, <2>3 DEF PowerOf, ac
<1>6. CASE inverter.model = "101"
  <2>1. ac = Model101(IntegerRegisters(r, {1}, inverter.scale))
    BY <1>6 DEF AcValues
  <2>2. {1} \in SUBSET (1 .. 3)
    OBVIOUS
  <2> QED  BY <1>6, <2>1, <2>2, IntegerWords, Model101Payload DEF PowerOf
<1> QED  BY <1>1, <1>3, <1>4, <1>5, <1>6

LEMMA StringsPayload ==
  ASSUME NEW c, c.pv_string_count \in Int, NEW modules \in Nat, NEW r, Reading(r),
         NEW answered
  PROVE  /\ Payload(PvValues(c, modules, r, answered), PvFields)
         /\ <<"pv_power", 0>> \in DOMAIN PvValues(c, modules, r, answered)
<1> DEFINE b == DcAnswers(r, answered)
           channels == ChannelAnswers(r, answered)
           strings == IF modules = 0 \/ "160" \notin answered \/ ~c.sunspec_model_160_enabled
                        THEN <<>> ELSE Model160(Registers160(r, modules), 8 + 20 * modules, c)
           legacy == LegacyPv(b, channels, c)
<1>1. Payload(b, Int)
  BY DcAnswersType
<1>2. \A i \in DOMAIN channels, k \in 1 .. 3 : channels[i][k] \in Int
  BY LegacyChannelsType DEF ChannelAnswers, Strings
<1> HIDE DEF b, channels
<1>3. Payload(legacy, PvFields) /\ <<"pv_power", 0>> \in DOMAIN legacy
  BY <1>1, <1>2, LegacyPvPayload
<1>4. Payload(strings, PvFields) /\ (strings # <<>> => <<"pv_power", 0>> \in DOMAIN strings)
  BY Model160Payload, EmptyPayload
<1> HIDE DEF strings, legacy
<1>5. PvValues(c, modules, r, answered) = IF strings = <<>> THEN legacy ELSE strings
  BY Zenon DEF PvValues, strings, legacy, b, channels
<1> QED  BY <1>3, <1>4, <1>5

\* Whatever the inverter implements and whichever requests fail, the client delivers numbers
\* of its fields, and its payload passes _is_valid_fronius: an inverter whose registers
\* cannot be read is shown without PV power.
THEOREM FroniusPayload ==
  ASSUME NEW c, c.pv_string_count \in Int, NEW inverter,
         inverter.model \in {"none", "101", "103", "111", "113"},
         inverter.scale \in 0 .. 6, inverter.modules \in Nat,
         inverter.model \in {"111", "113"} => inverter.layout \in Int \X Int \X Int,
         NEW r, Reading(r), NEW answered, NEW short \in BOOLEAN
  PROVE  LET m == FroniusValues(c, inverter, r, answered, short)
         IN  /\ Payload(m, InverterFields \cup PvFields)
             /\ IsValidFronius(m)
             /\ \A name \in Powers : PowerOf(inverter, m, name)
<1> DEFINE ac == IF "ac" \in answered THEN AcValues(inverter, r, short) ELSE <<>>
           pv == PvValues(c, inverter.modules, r, answered)
           m == FroniusValues(c, inverter, r, answered, short)
<1>1. Payload(ac, InverterFields) /\ \A name \in Powers : PowerOf(inverter, ac, name)
  <2>1. CASE "ac" \in answered
    BY <2>1, AcPayload
  <2>2. CASE "ac" \notin answered
    <3>1. \A name : Lacks(<<>>, name)
      BY DEF Lacks
    <3> QED  BY <2>2, <3>1, EmptyPayload DEF PowerOf
  <2> QED  BY <2>1, <2>2
<1>2. Payload(pv, PvFields) /\ <<"pv_power", 0>> \in DOMAIN pv
  BY StringsPayload
<1>3. m = ac ++ pv
  BY DEF FroniusValues
<1> SUFFICES /\ Payload(m, InverterFields \cup PvFields) /\ IsValidFronius(m)
             /\ \A name \in Powers : PowerOf(inverter, m, name)
  OBVIOUS
<1> HIDE DEF ac, pv, m
<1>4. Payload(ac, InverterFields \cup PvFields) /\ Payload(pv, InverterFields \cup PvFields)
  BY <1>1, <1>2, WiderPayload
<1>5. IsValidFronius(m)
  BY <1>2, <1>3, Overlay DEF IsValidFronius
<1>6. ASSUME NEW name \in Powers PROVE PowerOf(inverter, m, name)
  <2>1. Lacks(pv, name)
    BY <1>2, PvLacksPowers, PayloadLacks
  <2>2. /\ Lacks(ac, name) => Lacks(m, name)
        /\ BothShow(ac, name) => BothShow(m, name)
        /\ ThreeShare(ac, name) => ThreeShare(m, name)
    BY <1>3, <2>1, OverlayParts DEF BothShow, ThreeShare
  <2> QED  BY <1>1, <2>2 DEF PowerOf
<1>7. Payload(m, InverterFields \cup PvFields)
  BY <1>3, <1>4, OverlayPayload
<1> QED  BY <1>5, <1>6, <1>7

\* _apply_fronius_synthetic_pv divides by no zero, and its two strings add up to the power.
THEOREM SyntheticPvPayload ==
  ASSUME NEW c, c.synthetic_pv_total_power_w \in Int, c.synthetic_pv1_voltage_v \in Int,
         c.synthetic_pv2_voltage_v \in Int,
         NEW data, Payload(data, InverterFields \cup PvFields)
  PROVE  LET m == WithSyntheticPv(c, data)
         IN  /\ Payload(m, InverterFields \cup PvFields)
             /\ ~c.synthetic_pv_enabled => m = data
             /\ c.synthetic_pv_enabled =>
                  \E a, b \in Nat : HasParts(m, "pv_power", WithTotal(a + b, <<a, b, 0, 0>>))
             /\ \A name : (\A k \in PvFields : k[1] # name) =>
                  /\ Lacks(data, name) => Lacks(m, name)
                  /\ \A values : HasParts(data, name, values) => HasParts(m, name, values)
<1> DEFINE total == Positive(c.synthetic_pv_total_power_w)
           set == <<c.synthetic_pv1_voltage_v, c.synthetic_pv2_voltage_v>>
           power == <<total \div 2, total - total \div 2, 0, 0>>
           voltage == [i \in Strings |->
                         IF i > 2 THEN 0
                         ELSE IF set[i] < 1000 THEN 1000
                         ELSE set[i]]
           current == [i \in Strings |->
                         IF i > 2 THEN 0 ELSE (power[i] * 10000) \div (voltage[i] \div 100)]
           pv == PvFieldsOf(current, voltage, WithTotal(total, power))
           m == WithSyntheticPv(c, data)
<1>1. total \in Nat /\ total \div 2 \in Nat /\ total - total \div 2 \in Nat
  BY DEF Positive
<1>2. power \in [1 .. 4 -> Int] /\ WithTotal(total, power) \in [0 .. 4 -> Int]
  <2>1. power \in [1 .. 4 -> Int]
    BY <1>1
  <2> HIDE DEF power
  <2> QED  BY <1>1, <2>1, WithTotalType
<1>3. voltage \in [1 .. 4 -> Int] /\ \A i \in 1 .. 2 : voltage[i] \div 100 > 0
  <2>1. \A i \in 1 .. 2 : set[i] \in Int
    OBVIOUS
  <2> HIDE DEF set
  <2> QED  BY <2>1 DEF Strings
<1>4. \E a, b \in Nat : WithTotal(total, power) = WithTotal(a + b, <<a, b, 0, 0>>)
  <2>1. total = total \div 2 + (total - total \div 2)
    BY <1>1
  <2> DEFINE a == total \div 2
             b == total - total \div 2
  <2>2. WithTotal(total, power) = WithTotal(a + b, <<a, b, 0, 0>>)
    BY <2>1
  <2> QED  BY <1>1, <2>2
<1> HIDE DEF power, voltage, total
<1>5. current \in [1 .. 4 -> Int]
  <2>1. ASSUME NEW i \in 1 .. 2
        PROVE  (power[i] * 10000) \div (voltage[i] \div 100) \in Int
    <3>1. power[i] * 10000 \in Int /\ voltage[i] \div 100 \in Int /\ voltage[i] \div 100 > 0
      BY <1>2, <1>3
    <3> QED  BY <3>1
  <2> QED  BY <2>1 DEF Strings
<1> HIDE DEF current
<1>6. Payload(pv, PvFields) /\ HasParts(pv, "pv_power", WithTotal(total, power))
  <2>1. \A amperes, volts \in [1 .. 4 -> Int], watts \in [0 .. 4 -> Int] :
          LET x == PvFieldsOf(amperes, volts, watts)
          IN  Payload(x, PvFields) /\ HasParts(x, "pv_power", watts)
    BY PvPayload
  <2>2. voltage \in [1 .. 4 -> Int]
    BY <1>3
  <2> QED  BY <1>2, <1>5, <2>1, <2>2
<1> HIDE DEF pv
<1>7. m = IF c.synthetic_pv_enabled THEN pv ++ data ELSE data
  BY DEF WithSyntheticPv, pv, current, voltage, power, set, total
<1> SUFFICES /\ Payload(m, InverterFields \cup PvFields)
             /\ ~c.synthetic_pv_enabled => m = data
             /\ c.synthetic_pv_enabled =>
                  \E a, b \in Nat : HasParts(m, "pv_power", WithTotal(a + b, <<a, b, 0, 0>>))
             /\ \A name : (\A k \in PvFields : k[1] # name) =>
                  /\ Lacks(data, name) => Lacks(m, name)
                  /\ \A values : HasParts(data, name, values) => HasParts(m, name, values)
  OBVIOUS
<1> HIDE DEF m
<1>8. Payload(m, InverterFields \cup PvFields)
  <2>1. Payload(pv, InverterFields \cup PvFields)
    BY <1>6, WiderPayload
  <2> QED  BY <1>7, <2>1, OverlayPayload
<1>9. HasParts(pv ++ data, "pv_power", WithTotal(total, power))
  <2>1. \A p : <<"pv_power", p>> \in DOMAIN data => p \in 0 .. 4
    BY DEF Payload, InverterFields, PvFields
  <2> QED  BY <1>2, <1>6, <2>1, OverlayHides
<1>10. ASSUME NEW name, \A k \in PvFields : k[1] # name
       PROVE  /\ Lacks(data, name) => Lacks(m, name)
              /\ \A values : HasParts(data, name, values) => HasParts(m, name, values)
  BY <1>6, <1>7, <1>10, PayloadLacks, OverlayParts
<1> QED  BY <1>4, <1>7, <1>8, <1>9, <1>10

------------------------------------------------------------------------------
(* Invented powers and their currents *)

\* A current in thousandths that makes a power of a voltage in tenths, to within its last
\* digit.
Physical(power, voltage, current) ==
  LET k == voltage \div 100
  IN  /\ voltage >= 0 /\ current >= 0
      /\ k * current <= 10000 * Size(power)
      /\ 10000 * Size(power) <= k * current + k

LEMMA QuotientIsPhysical ==
  ASSUME NEW power \in Int, NEW voltage \in Int, voltage \div 100 > 0,
         NEW current, current = (Size(power) * 10000) \div (voltage \div 100)
  PROVE  current \in Int /\ Physical(power, voltage, current)
<1> DEFINE k == voltage \div 100
           n == Size(power) * 10000
<1>1. k \in Nat /\ k > 0 /\ n \in Nat /\ voltage >= 0
  BY DEF Size
<1>2. n = 10000 * Size(power) /\ Size(power) \in Int
  BY DEF Size
<1>3. current = n \div k
  OBVIOUS
<1> HIDE DEF k, n
<1>4. /\ n \div k \in Int
      /\ k * (n \div k) <= n
      /\ n < k * (n \div k) + k
  <2>1. n \in Int /\ k \in Int
    BY <1>1
  <2>2. /\ n \div k \in Int
        /\ k * (n \div k) <= n
        /\ n < k * ((n \div k) + 1)
    BY <1>1, <2>1, Quotient
  <2>3. k * ((n \div k) + 1) = k * (n \div k) + k
    BY <1>1, <2>2
  <2> QED  BY <2>2, <2>3
<1>5. n \div k >= 0
  BY <1>1, <1>3
<1> QED  BY <1>1, <1>2, <1>3, <1>4, <1>5 DEF Physical, k

\* A quantity of a payload that is joined of quantities with names of their own.
LEMMA JoinedEach ==
  ASSUME NEW name, NEW values, NEW maps, Each(name, values) \in maps,
         \A m \in maps : m = Each(name, values) \/ Lacks(m, name)
  PROVE  HasParts(Joined(maps), name, values)
BY EachParts, JoinedParts

\* The values of a quantity that an overlay has.
LEMMA OverlayTakes ==
  ASSUME NEW f, NEW g, NEW name, NEW values, HasParts(f, name, values), NEW p \in DOMAIN values
  PROVE  <<name, p>> \in DOMAIN (f ++ g) /\ (f ++ g)[<<name, p>>] = values[p]
BY DEF HasParts, ++

\* _apply_em540_synthetic_grid_export: each phase shows the current that its share of the
\* power makes of the measured voltage, if the payload is valid and so may be merged.
LEMMA ExportIsPhysical ==
  ASSUME NEW c, c.synthetic_grid_total_power_w \in Int, c.synthetic_grid_export_enabled,
         NEW data, Payload(data, MeterFields), WholeTenths(data),
         IsValidEm540(WithSyntheticExport(c, data))
  PROVE  LET m == WithSyntheticExport(c, data)
         IN  \A p \in Phases :
               /\ {<<"meter_power", p>>, <<"meter_voltage", p>>, <<"meter_current", p>>}
                    \subseteq DOMAIN m
               /\ Physical(m[<<"meter_power", p>>], m[<<"meter_voltage", p>>],
                           m[<<"meter_current", p>>])
<1> DEFINE total == c.synthetic_grid_total_power_w
           third == Trunc(total, 3)
           share == <<third, third, total - 2 * third>>
           voltage(p) ==
             IF <<"meter_voltage", p>> \in DOMAIN data THEN data[<<"meter_voltage", p>>] ELSE 0
           none == [p \in 0 .. 3 |-> 0]
           apparent == [p \in 0 .. 3 |->
                          IF p = 0 THEN Size(share[1]) + Size(share[2]) + Size(share[3])
                          ELSE Size(share[p])]
           factor == [p \in 0 .. 3 |-> -1000]
           frequency == IF c.synthetic_grid_frequency_hz < 100 THEN 100
                        ELSE c.synthetic_grid_frequency_hz
           current == [p \in Phases |-> CurrentFor(share[p], voltage(p))]
           maps == {Each("meter_power", WithTotal(total, share)),
                    Each("meter_reactive_power", none),
                    Each("meter_apparent_power", apparent),
                    Each("meter_power_factor", factor),
                    Field("meter_frequency", frequency),
                    Each("meter_current", current)}
           energy == Each("meter_energy_import", none)
           exported == Field("meter_energy_export", 0)
           m == WithSyntheticExport(c, data)
<1>1. m = Joined(maps) ++ data ++ exported ++ energy
  BY Zenon DEF WithSyntheticExport, maps, exported, energy, current, apparent, frequency,
     factor, none, voltage, share, third, total
<1>2. share \in [1 .. 3 -> Int] /\ DOMAIN share = 1 .. 3
  <2>1. third \in Int
    BY TruncInt
  <2> QED  BY <2>1
<1> DEFINE power == WithTotal(total, share)
<1>3. DOMAIN power = 0 .. 3 /\ \A p \in 1 .. 3 : power[p] = share[p]
  <2> HIDE DEF share
  <2> QED  BY <1>2 DEF WithTotal, At, ++
<1>4. DOMAIN current = Phases /\ \A p \in Phases : current[p] = CurrentFor(share[p], voltage(p))
  OBVIOUS
<1> HIDE DEF share, total, third, none, apparent, factor, frequency, current, power, m, energy,
             exported, voltage
<1>5. /\ HasParts(Joined(maps), "meter_power", power)
      /\ HasParts(Joined(maps), "meter_current", current)
      /\ Lacks(Joined(maps), "meter_voltage")
  <2>1. \A n \in maps : n = Each("meter_power", power) \/ Lacks(n, "meter_power")
    BY OtherLacks DEF power
  <2>2. \A n \in maps : n = Each("meter_current", current) \/ Lacks(n, "meter_current")
    BY OtherLacks
  <2>3. \A n \in maps : Lacks(n, "meter_voltage")
    BY OtherLacks
  <2>4. Each("meter_power", power) \in maps /\ Each("meter_current", current) \in maps
    BY DEF power
  <2> HIDE DEF maps
  <2> QED  BY <2>1, <2>2, <2>3, <2>4, JoinedEach, JoinedLacks
<1> DEFINE invented == Joined(maps)
<1> HIDE DEF invented, maps
<1>6. ASSUME NEW p \in Phases
      PROVE  /\ {<<"meter_power", p>>, <<"meter_voltage", p>>, <<"meter_current", p>>}
                  \subseteq DOMAIN m
             /\ Physical(m[<<"meter_power", p>>], m[<<"meter_voltage", p>>],
                         m[<<"meter_current", p>>])
  <2>1. p \in 1 .. 3 /\ p \in DOMAIN power /\ p \in DOMAIN current
    BY <1>3, <1>4 DEF Phases
  <2>2. /\ <<"meter_power", p>> \in DOMAIN invented /\ <<"meter_current", p>> \in DOMAIN invented
        /\ <<"meter_voltage", p>> \notin DOMAIN invented
        /\ invented[<<"meter_power", p>>] = power[p]
        /\ invented[<<"meter_current", p>>] = current[p]
    BY <1>5, <2>1 DEF HasParts, Lacks, invented
  <2>3. <<"meter_voltage", p>> \notin DOMAIN energy /\ <<"meter_voltage", p>> \notin DOMAIN exported
    BY DEF energy, exported, Each, Field, At
  <2>4. /\ <<"meter_voltage", p>> \in DOMAIN m /\ m[<<"meter_voltage", p>>] > 0
    BY <1>1 DEF IsValidEm540, m
  <2>5. /\ <<"meter_voltage", p>> \in DOMAIN data
        /\ m[<<"meter_voltage", p>>] = data[<<"meter_voltage", p>>]
    BY <1>1, <2>2, <2>3, <2>4 DEF ++, invented
  <2>6. /\ <<"meter_power", p>> \in DOMAIN m /\ m[<<"meter_power", p>>] = share[p]
        /\ <<"meter_current", p>> \in DOMAIN m
        /\ m[<<"meter_current", p>>] = CurrentFor(share[p], voltage(p))
    <3>1. /\ <<"meter_power", p>> \in DOMAIN m /\ m[<<"meter_power", p>>] = power[p]
          /\ <<"meter_current", p>> \in DOMAIN m /\ m[<<"meter_current", p>>] = current[p]
      BY <1>1, <2>2 DEF ++, invented
    <3> QED  BY <1>3, <1>4, <2>1, <3>1
  <2>7. voltage(p) = m[<<"meter_voltage", p>>]
    BY <2>5 DEF voltage
  <2>8. PICK k \in Int : voltage(p) = 100 * k
    BY <2>5, <2>7 DEF WholeTenths
  <2> DEFINE v == voltage(p)
             s == share[p]
  <2>9. v \in Int /\ v > 0 /\ v \div 100 > 0 /\ s \in Int
    <3>1. v > 0 /\ v = 100 * k
      BY <2>4, <2>7, <2>8
    <3>2. s \in Int
      BY <1>2, <2>1
    <3> HIDE DEF v, s
    <3> QED  BY <3>1, <3>2
  <2>10. Physical(s, v, CurrentFor(s, v))
    <3> HIDE DEF v, s
    <3>1. CurrentFor(s, v) = (Size(s) * 10000) \div (v \div 100)
      BY <2>9 DEF CurrentFor
    <3> QED  BY <2>9, <3>1, QuotientIsPhysical
  <2> QED  BY <2>4, <2>6, <2>7, <2>10
<1> QED  BY <1>6 DEF m

LEMMA PvParts ==
  ASSUME NEW current, NEW voltage, NEW power
  PROVE  LET x == PvFieldsOf(current, voltage, power)
         IN  /\ HasParts(x, "pv_current", current) /\ HasParts(x, "pv_voltage", voltage)
             /\ HasParts(x, "pv_power", power)
<1> DEFINE maps == {Each("pv_current", current), Each("pv_voltage", voltage),
                    Each("pv_power", power)}
<1>1. PvFieldsOf(current, voltage, power) = Joined(maps)
  BY DEF PvFieldsOf
<1>2. /\ \A m \in maps : m = Each("pv_current", current) \/ Lacks(m, "pv_current")
      /\ \A m \in maps : m = Each("pv_voltage", voltage) \/ Lacks(m, "pv_voltage")
      /\ \A m \in maps : m = Each("pv_power", power) \/ Lacks(m, "pv_power")
  BY OtherLacks
<1>3. /\ Each("pv_current", current) \in maps /\ Each("pv_voltage", voltage) \in maps
      /\ Each("pv_power", power) \in maps
  OBVIOUS
<1> HIDE DEF maps
<1> QED  BY <1>1, <1>2, <1>3, JoinedEach

\* _apply_fronius_synthetic_pv: each of the two strings shows the current that its half of
\* the power makes of its configured voltage.
LEMMA SyntheticPvIsPhysical ==
  ASSUME NEW c, c.synthetic_pv_total_power_w \in Int, c.synthetic_pv1_voltage_v \in Int,
         c.synthetic_pv2_voltage_v \in Int, c.synthetic_pv_enabled, NEW data
  PROVE  LET m == WithSyntheticPv(c, data)
         IN  \A i \in 1 .. 2 :
               /\ {<<"pv_power", i>>, <<"pv_voltage", i>>, <<"pv_current", i>>} \subseteq DOMAIN m
               /\ Physical(m[<<"pv_power", i>>], m[<<"pv_voltage", i>>], m[<<"pv_current", i>>])
<1> DEFINE total == Positive(c.synthetic_pv_total_power_w)
           set == <<c.synthetic_pv1_voltage_v, c.synthetic_pv2_voltage_v>>
           power == <<total \div 2, total - total \div 2, 0, 0>>
           voltage == [i \in Strings |->
                         IF i > 2 THEN 0
                         ELSE IF set[i] < 1000 THEN 1000
                         ELSE set[i]]
           current == [i \in Strings |->
                         IF i > 2 THEN 0 ELSE (power[i] * 10000) \div (voltage[i] \div 100)]
           watts == WithTotal(total, power)
           pv == PvFieldsOf(current, voltage, watts)
           m == WithSyntheticPv(c, data)
<1>1. m = pv ++ data
  BY Zenon DEF WithSyntheticPv, pv, watts, current, voltage, power, set, total
<1>2. total \in Nat /\ total \div 2 \in Nat /\ total - total \div 2 \in Nat
  BY DEF Positive
<1>3. /\ DOMAIN power = 1 .. 4 /\ \A i \in 1 .. 2 : power[i] \in Nat
  BY <1>2
<1>4. DOMAIN watts = 0 .. 4 /\ \A i \in 1 .. 4 : watts[i] = power[i]
  <2> HIDE DEF power, total
  <2> QED  BY <1>3 DEF WithTotal, At, ++
<1>5. DOMAIN voltage = 1 .. 4 /\ \A i \in 1 .. 2 : voltage[i] \in Int /\ voltage[i] \div 100 > 0
  <2>1. \A i \in 1 .. 2 : set[i] \in Int
    OBVIOUS
  <2> HIDE DEF set
  <2> QED  BY <2>1 DEF Strings
<1>6. /\ DOMAIN current = 1 .. 4
      /\ \A i \in 1 .. 2 : current[i] = (power[i] * 10000) \div (voltage[i] \div 100)
  <2> HIDE DEF power, voltage
  <2> QED  BY DEF Strings
<1> HIDE DEF total, set, power, voltage, current, watts
<1>7. /\ HasParts(pv, "pv_current", current) /\ HasParts(pv, "pv_voltage", voltage)
      /\ HasParts(pv, "pv_power", watts)
  BY PvParts
<1> HIDE DEF pv, m
<1>8. ASSUME NEW i \in 1 .. 2
      PROVE  /\ {<<"pv_power", i>>, <<"pv_voltage", i>>, <<"pv_current", i>>} \subseteq DOMAIN m
             /\ Physical(m[<<"pv_power", i>>], m[<<"pv_voltage", i>>], m[<<"pv_current", i>>])
  <2>1. i \in 1 .. 4 /\ i \in 0 .. 4
    OBVIOUS
  <2>2. /\ <<"pv_power", i>> \in DOMAIN m /\ m[<<"pv_power", i>>] = watts[i]
        /\ <<"pv_voltage", i>> \in DOMAIN m /\ m[<<"pv_voltage", i>>] = voltage[i]
        /\ <<"pv_current", i>> \in DOMAIN m /\ m[<<"pv_current", i>>] = current[i]
    BY <1>1, <1>4, <1>5, <1>6, <1>7, <2>1, OverlayTakes
  <2>3. power[i] \in Int /\ Size(power[i]) = power[i]
    BY <1>3 DEF Size
  <2>4. current[i] = (Size(power[i]) * 10000) \div (voltage[i] \div 100)
    BY <1>6, <2>3
  <2>5. Physical(power[i], voltage[i], current[i])
    <3> DEFINE P == power[i]
               V == voltage[i]
               C == current[i]
    <3>1. P \in Int /\ V \in Int /\ V \div 100 > 0 /\ C = (Size(P) * 10000) \div (V \div 100)
      BY <1>5, <2>3, <2>4
    <3> HIDE DEF P, V, C
    <3>2. Physical(P, V, C)
      BY <3>1, QuotientIsPhysical
    <3> QED  BY <3>2 DEF P, V, C
  <2>6. watts[i] = power[i]
    BY <1>4, <2>1
  <2> QED  BY <2>2, <2>5, <2>6
<1> QED  BY <1>8 DEF m

------------------------------------------------------------------------------
(* Devices that say what they measure *)

\* A key that only one of the joined maps has.
LEMMA JoinedOwn ==
  ASSUME NEW maps, NEW own \in maps, NEW k, \A m \in maps : m = own \/ k \notin DOMAIN m
  PROVE  /\ k \in DOMAIN Joined(maps) <=> k \in DOMAIN own
         /\ k \in DOMAIN own => Joined(maps)[k] = own[k]
BY DEF Joined

\* A field of a payload has a value.
Has(d, name, p, v) == <<name, p>> \in DOMAIN d /\ d[<<name, p>>] = v

LEMMA JoinedField ==
  ASSUME NEW name, NEW v, NEW maps, Field(name, v) \in maps,
         \A m \in maps : m = Field(name, v) \/ Lacks(m, name)
  PROVE  Has(Joined(maps), name, 0, v)
<1>1. <<name, 0>> \in DOMAIN Field(name, v) /\ Field(name, v)[<<name, 0>>] = v
  BY DEF Field, At
<1>2. \A m \in maps : m = Field(name, v) \/ <<name, 0>> \notin DOMAIN m
  BY DEF Lacks
<1> QED  BY <1>1, <1>2, JoinedOwn DEF Has

\* What a reading says of a field that its device has, and a payload that says the same of
\* the given fields.
SaidOf(reading, f) == IF f \in DOMAIN reading THEN reading[f] ELSE 0
Agrees(d, reading, fields) == \A f \in fields \cap DOMAIN d : d[f] = SaidOf(reading, f)

LEMMA JoinedAgrees ==
  ASSUME NEW maps, NEW r, NEW fields, \A m \in maps : Agrees(m, r, fields)
  PROVE  Agrees(Joined(maps), r, fields)
<1>1. \A f \in DOMAIN Joined(maps) : \E m \in maps : f \in DOMAIN m /\ Joined(maps)[f] = m[f]
  BY DEF Joined
<1> QED  BY <1>1 DEF Agrees

LEMMA OverlayAgrees ==
  ASSUME NEW f, NEW g, NEW r, NEW fields, Agrees(f, r, fields), Agrees(g, r, fields)
  PROVE  Agrees(f ++ g, r, fields)
BY DEF Agrees, ++

LEMMA EachAgrees ==
  ASSUME NEW name, NEW values, NEW r, NEW fields,
         \A p \in DOMAIN values : <<name, p>> \in fields => values[p] = SaidOf(r, <<name, p>>)
  PROVE  Agrees(Each(name, values), r, fields)
BY DEF Agrees, Each

LEMMA FieldAgrees ==
  ASSUME NEW name, NEW v, NEW r, NEW fields,
         <<name, 0>> \in fields => v = SaidOf(r, <<name, 0>>)
  PROVE  Agrees(Field(name, v), r, fields)
BY DEF Agrees, Field, At

LEMMA EmptyAgrees == ASSUME NEW r, NEW fields PROVE Agrees(<<>>, r, fields)
BY DEF Agrees

\* Whole units of a number that registers tell.
UnitsTold == {1, 10, 100, 1000, 10000, 100000, 1000000}

LEMMA WholeUnits ==
  ASSUME NEW v \in Int, NEW unit \in UnitsTold, v % unit = 0
  PROVE  v \div unit \in Int /\ unit * (v \div unit) = v
<1>1. CASE unit = 1
  <2>1. v \div 1 = v
    OBVIOUS
  <2> QED  BY <1>1, <2>1
<1>2. CASE unit = 10
  BY <1>2
<1>3. CASE unit = 100
  BY <1>3
<1>4. CASE unit = 1000
  BY <1>4
<1>5. CASE unit = 10000
  BY <1>5
<1>6. CASE unit = 100000
  BY <1>6
<1>7. CASE unit = 1000000
  BY <1>7
<1> QED  BY <1>1, <1>2, <1>3, <1>4, <1>5, <1>6, <1>7 DEF UnitsTold

Makes(kind, unit, v, q) == q \in Int /\ unit * q = v /\ Holds(kind, q)

LEMMA ToldWhole ==
  ASSUME NEW kind, NEW v \in Int, NEW unit \in UnitsTold, Tells(kind, unit, v), NEW q,
         q = v \div unit
  PROVE  Makes(kind, unit, v, q)
<1>1. v % unit = 0
  BY Zenon DEF Tells
<1> QED  BY <1>1, WholeUnits, Zenon DEF Tells, Makes

LEMMA Told16 ==
  ASSUME NEW v \in Int, NEW unit \in UnitsTold, Tells("i16", unit, v), NEW q,
         q = v \div unit
  PROVE  unit * I16(LowWord(q)) = v
<1>0. Makes("i16", unit, v, q)
  BY ToldWhole, Zenon
<1>1. unit * q = v
  BY <1>0, Zenon DEF Makes
<1>2. q \in Int /\ Holds("i16", q)
  BY <1>0, Zenon DEF Makes
<1>3. I16(LowWord(q)) = q
  <2>1. -32768 <= q /\ q < 32768
    <3> HIDE <1>1
    <3> QED  BY <1>2 DEF Holds, FitsInto
  <2> QED  BY <1>2, <2>1, RoundTrip16
<1> QED  BY <1>1, <1>3, Zenon

LEMMA ToldUnsigned ==
  ASSUME NEW v \in Int, NEW unit \in UnitsTold, Tells("u16", unit, v), NEW q,
         q = v \div unit
  PROVE  q \in Int /\ 0 <= q /\ q <= 65535 /\ unit * q = v /\ LowWord(q) = q
<1>0. Makes("u16", unit, v, q)
  BY ToldWhole, Zenon
<1>1. unit * q = v
  BY <1>0, Zenon DEF Makes
<1>2. q \in Int /\ Holds("u16", q)
  BY <1>0, Zenon DEF Makes
<1>3. q \in Int /\ 0 <= q /\ q <= 65535
  BY <1>2 DEF Holds, FitsInto
<1>4. LowWord(q) = q
  BY <1>3 DEF LowWord, WordSize
<1> QED  BY <1>1, <1>3, <1>4

------------------------------------------------------------------------------
(* VictronClient: what the battery measures *)

LEMMA BatteryNumbers ==
  ASSUME NEW c, NEW r \in [BatteryFields -> Int], BatteryTells(c, r), NEW v, NEW i, NEW p,
         NEW s, NEW t, NEW h, v = r[<<"battery_voltage", 0>>], i = r[<<"battery_current", 0>>],
         p = r[<<"battery_power", 0>>], s = r[<<"battery_soc", 0>>],
         t = r[<<"battery_temperature", 0>>], h = r[<<"battery_health", 0>>]
  PROVE  /\ 100 * (v \div 100) = v /\ 100 * I16(LowWord(i \div 100)) = i
         /\ 100 * I16(LowWord(t \div 100)) = t /\ 100 * (h \div 100) = h
         /\ StateOfCharge(s) = s
         /\ c.slave_id = 100 => I16(LowWord(p)) = p
         /\ c.slave_id # 100 => I32(HighWord(p), LowWord(p)) = p
<1>1. v \in Int /\ i \in Int /\ p \in Int /\ s \in Int /\ t \in Int /\ h \in Int
  BY BatteryKeys
<1>2. /\ Tells("u16", 100, v) /\ Tells("i16", 100, i) /\ Tells("i16", 100, t)
      /\ Tells("u16", 100, h) /\ s \in 0 .. 100
      /\ Tells(IF c.slave_id = 100 THEN "i16" ELSE "i32", 1, p)
  BY DEF BatteryTells
<1>3. 100 \in UnitsTold
  BY DEF UnitsTold
<1>4. p \div 1 = p
  BY <1>1
<1>5. 100 * (v \div 100) = v /\ 100 * (h \div 100) = h
  BY <1>1, <1>2, <1>3, ToldUnsigned
<1>6. 100 * I16(LowWord(i \div 100)) = i /\ 100 * I16(LowWord(t \div 100)) = t
  BY <1>1, <1>2, <1>3, Told16
<1>7. StateOfCharge(s) = s
  BY <1>2 DEF StateOfCharge, Within
<1>8. ASSUME c.slave_id = 100 PROVE I16(LowWord(p)) = p
  <2>1. Holds("i16", p)
    BY <1>2, <1>4, <1>8 DEF Tells
  <2>2. -32768 <= p /\ p < 32768
    BY <1>1, <2>1 DEF Holds, FitsInto
  <2> QED  BY <1>1, <2>2, RoundTrip16
<1>9. ASSUME c.slave_id # 100 PROVE I32(HighWord(p), LowWord(p)) = p
  <2>1. Holds("i32", p)
    BY <1>2, <1>4, <1>9 DEF Tells
  <2>2. -2147483648 <= p /\ p < 2147483648
    BY <1>1, <2>1 DEF Holds, FitsInto, WordSize
  <2> QED  BY <1>1, <2>2, RoundTrip32
<1> QED  BY <1>5, <1>6, <1>7, <1>8, <1>9

\* _read_once: both services tell what the battery measures.
LEMMA VictronAgrees ==
  ASSUME NEW c, NEW r \in [BatteryFields -> Int], BatteryTells(c, r), NEW answered
  PROVE  Agrees(VictronValues(c, r, answered), r, BatteryFields)
<1> DEFINE v == r[<<"battery_voltage", 0>>]
           i == r[<<"battery_current", 0>>]
           p == r[<<"battery_power", 0>>]
           s == r[<<"battery_soc", 0>>]
           t == r[<<"battery_temperature", 0>>]
           h == r[<<"battery_health", 0>>]
<1>1. /\ SaidOf(r, <<"battery_voltage", 0>>) = v /\ SaidOf(r, <<"battery_current", 0>>) = i
      /\ SaidOf(r, <<"battery_power", 0>>) = p /\ SaidOf(r, <<"battery_soc", 0>>) = s
      /\ SaidOf(r, <<"battery_temperature", 0>>) = t /\ SaidOf(r, <<"battery_health", 0>>) = h
  BY BatteryKeys DEF SaidOf
<1>2. /\ 100 * (v \div 100) = v /\ 100 * I16(LowWord(i \div 100)) = i
      /\ 100 * I16(LowWord(t \div 100)) = t /\ 100 * (h \div 100) = h
      /\ StateOfCharge(s) = s
      /\ c.slave_id = 100 => I16(LowWord(p)) = p
      /\ c.slave_id # 100 => I32(HighWord(p), LowWord(p)) = p
  BY BatteryNumbers
<1> HIDE DEF v, i, p, s, t, h
<1>3. /\ Agrees(Field("battery_voltage", v), r, BatteryFields)
      /\ Agrees(Field("battery_current", i), r, BatteryFields)
      /\ Agrees(Field("battery_power", p), r, BatteryFields)
      /\ Agrees(Field("battery_soc", s), r, BatteryFields)
      /\ Agrees(Field("battery_temperature", t), r, BatteryFields)
      /\ Agrees(Field("battery_health", h), r, BatteryFields)
  BY <1>1, FieldAgrees, Zenon
<1>4. CASE c.slave_id = 100
  <2> DEFINE regs == SystemRegisters(r)
  <2>1. regs = <<v \div 100, LowWord(i \div 100), LowWord(p), s>>
    BY DEF SystemRegisters, v, i, p, s
  <2>2. /\ 100 * regs[1] = v /\ 100 * I16(regs[2]) = i /\ I16(regs[3]) = p
        /\ StateOfCharge(regs[4]) = s
    BY <1>2, <1>4, <2>1
  <2> HIDE DEF regs
  <2>3. VictronValues(c, r, answered) =
          Joined({Field("battery_voltage", v), Field("battery_current", i),
                  Field("battery_power", p), Field("battery_soc", s)})
    BY <1>4, <2>2 DEF VictronValues, SystemBattery, regs
  <2> QED  BY <1>3, <2>3, JoinedAgrees
<1>5. CASE c.slave_id # 100
  <2> DEFINE regs == ServiceRegisters(r)
             word == r[<<"battery_health", 0>>] \div 100
             power == IF "power" \in answered THEN Field("battery_power", p) ELSE <<>>
             health == IF "extended" \in answered THEN Field("battery_health", h) ELSE <<>>
  <2>1. /\ regs.voltage = v \div 100 /\ regs.current = LowWord(i \div 100)
        /\ regs.temperature = LowWord(t \div 100) /\ regs.soc = s
    BY DEF ServiceRegisters, v, i, t, s
  <2>2. /\ 100 * regs.voltage = v /\ 100 * I16(regs.current) = i
        /\ 100 * I16(regs.temperature) = t /\ StateOfCharge(regs.soc) = s
    BY <1>2, <2>1
  <2>3. 100 * word = h
    BY <1>2 DEF h
  <2>4. I32(HighWord(p), LowWord(p)) = p
    BY <1>2, <1>5
  <2> DEFINE words == <<HighWord(p), LowWord(p)>>
  <2>5. I32(words[1], words[2]) = p
    BY <2>4
  <2>6. VictronValues(c, r, answered) = BatteryService(regs, words, word, answered)
    BY <1>5 DEF VictronValues, p
  <2> HIDE DEF regs, words, word
  <2> DEFINE maps == {Field("battery_voltage", 100 * regs.voltage),
                      Field("battery_current", 100 * I16(regs.current)),
                      Field("battery_temperature", 100 * I16(regs.temperature)),
                      Field("battery_soc", StateOfCharge(regs.soc)),
                      IF "power" \in answered
                        THEN Field("battery_power", I32(words[1], words[2])) ELSE <<>>,
                      IF "extended" \in answered
                        THEN Field("battery_health", 100 * word) ELSE <<>>}
  <2>7. VictronValues(c, r, answered) = Joined(maps)
    BY <2>6, Zenon DEF BatteryService
  <2>8. /\ Agrees(Field("battery_voltage", 100 * regs.voltage), r, BatteryFields)
        /\ Agrees(Field("battery_current", 100 * I16(regs.current)), r, BatteryFields)
        /\ Agrees(Field("battery_temperature", 100 * I16(regs.temperature)), r, BatteryFields)
        /\ Agrees(Field("battery_soc", StateOfCharge(regs.soc)), r, BatteryFields)
        /\ Agrees(Field("battery_power", I32(words[1], words[2])), r, BatteryFields)
        /\ Agrees(Field("battery_health", 100 * word), r, BatteryFields)
    BY <1>3, <2>2, <2>3, <2>5
  <2>9. \A m \in maps : Agrees(m, r, BatteryFields)
    <3> SUFFICES ASSUME NEW m \in maps PROVE Agrees(m, r, BatteryFields)
      OBVIOUS
    <3>1. Agrees(<<>>, r, BatteryFields)
      BY EmptyAgrees
    <3>2. \/ m = <<>>
          \/ m = Field("battery_voltage", 100 * regs.voltage)
          \/ m = Field("battery_current", 100 * I16(regs.current))
          \/ m = Field("battery_temperature", 100 * I16(regs.temperature))
          \/ m = Field("battery_soc", StateOfCharge(regs.soc))
          \/ m = Field("battery_power", I32(words[1], words[2]))
          \/ m = Field("battery_health", 100 * word)
      OBVIOUS
    <3> QED  BY <2>8, <3>1, <3>2
  <2> HIDE DEF maps
  <2> QED  BY <2>7, <2>9, JoinedAgrees, Zenon
<1> QED  BY <1>4, <1>5

------------------------------------------------------------------------------
(* FroniusClient: what the integer models measure *)

\* A register of a signed number holds the sentinel where the inverter lacks the field, and
\* tells it otherwise.
NotSigned == 32768
NotUnsigned == 65535
SignedRead(w, unit, r, f) ==
  /\ f \in DOMAIN r => w # NotSigned /\ I16(w) \in Int /\ unit * I16(w) = r[f]
  /\ f \notin DOMAIN r => w = NotSigned
UnsignedRead(w, unit, r, f) ==
  /\ f \in DOMAIN r => w # NotUnsigned /\ w \in Int /\ unit * w = r[f]
  /\ f \notin DOMAIN r => w = NotUnsigned

LEMMA SignedNumber ==
  ASSUME NEW v \in Int, NEW unit \in UnitsTold, SignedTells(unit, v), NEW w,
         w = LowWord(v \div unit)
  PROVE  w # NotSigned /\ I16(w) \in Int /\ unit * I16(w) = v
<1>1. Tells("i16", unit, v)
  BY DEF SignedTells
<1>2. PICK q : q = v \div unit
  OBVIOUS
<1>3. unit * I16(LowWord(q)) = v
  BY <1>1, <1>2, Told16, Zenon
<1>4. q \in Int /\ Holds("i16", q)
  BY <1>1, <1>2, ToldWhole, Zenon DEF Makes
<1>5. q # -32768
  <2>1. v \div unit # -32768
    BY DEF SignedTells
  <2> QED  BY <1>2, <2>1
<1> HIDE <1>2, <1>3
<1>6. -32768 <= q /\ q < 32768
  BY <1>4 DEF Holds, FitsInto
<1>7. I16(LowWord(q)) = q
  BY <1>4, <1>6, RoundTrip16
<1>8. LowWord(q) # NotSigned
  <2>1. LowWord(q) = NotSigned => I16(LowWord(q)) = -32768
    BY DEF I16, WordSize, NotSigned
  <2> QED  BY <1>5, <1>7, <2>1
<1>9. I16(LowWord(q)) \in Int
  BY <1>4, <1>7
<1>10. w = LowWord(q)
  BY <1>2, Zenon
<1> QED  BY <1>3, <1>8, <1>9, <1>10, Zenon

LEMMA UnsignedNumber ==
  ASSUME NEW v \in Int, NEW unit \in UnitsTold, UnsignedTells(unit, v), NEW w,
         w = LowWord(v \div unit)
  PROVE  w # NotUnsigned /\ w \in Int /\ unit * w = v
<1>1. Tells("u16", unit, v)
  BY DEF UnsignedTells
<1>2. PICK q : q = v \div unit
  OBVIOUS
<1>3. q \in Nat /\ unit * q = v /\ LowWord(q) = q
  BY <1>1, <1>2, ToldUnsigned
<1>4. q # NotUnsigned
  <2>1. v \div unit # NotUnsigned
    BY DEF UnsignedTells, NotUnsigned
  <2> QED  BY <1>2, <2>1
<1>5. q \in Int
  <2>1. q \in Nat
    BY <1>3, Zenon
  <2> HIDE <1>3
  <2> QED  BY <2>1
<1>6. w = LowWord(q)
  BY <1>2, Zenon
<1>7. w = q
  BY <1>3, <1>6, Zenon
<1> QED  BY <1>3, <1>4, <1>5, <1>7, Zenon

LEMMA SignedWordRead ==
  ASSUME NEW r, NEW name, NEW p, NEW unit \in UnitsTold,
         <<name, p>> \in DOMAIN r =>
           r[<<name, p>>] \in Int /\ SignedTells(unit, r[<<name, p>>])
  PROVE  SignedRead(SignedWord(r, name, p, unit), unit, r, <<name, p>>)
<1>1. PICK f : f = <<name, p>>
  OBVIOUS
<1>2. CASE f \in DOMAIN r
  <2>1. PICK v : v = r[f]
    OBVIOUS
  <2>2. v \in Int /\ SignedTells(unit, v)
    BY <1>1, <1>2, <2>1, Zenon
  <2>3. SignedWord(r, name, p, unit) = LowWord(v \div unit)
    BY <1>1, <1>2, <2>1 DEF SignedWord
  <2>4. SignedRead(SignedWord(r, name, p, unit), unit, r, f)
    BY <1>2, <2>1, <2>2, <2>3, SignedNumber, Zenon DEF SignedRead
  <2> QED  BY <1>1, <2>4, Zenon
<1>3. CASE f \notin DOMAIN r
  <2>1. SignedWord(r, name, p, unit) = NotSigned
    BY <1>1, <1>3 DEF SignedWord, NotSigned
  <2>2. SignedRead(SignedWord(r, name, p, unit), unit, r, f)
    BY <1>3, <2>1, Zenon DEF SignedRead
  <2> QED  BY <1>1, <2>2, Zenon
<1> QED  BY <1>2, <1>3, Zenon

LEMMA UnsignedWordRead ==
  ASSUME NEW r, NEW name, NEW p, NEW unit \in UnitsTold,
         <<name, p>> \in DOMAIN r =>
           r[<<name, p>>] \in Int /\ UnsignedTells(unit, r[<<name, p>>])
  PROVE  UnsignedRead(UnsignedWord(r, name, p, unit), unit, r, <<name, p>>)
<1>1. PICK f : f = <<name, p>>
  OBVIOUS
<1>2. CASE f \in DOMAIN r
  <2>1. PICK v : v = r[f]
    OBVIOUS
  <2>2. v \in Int /\ UnsignedTells(unit, v)
    BY <1>1, <1>2, <2>1, Zenon
  <2>3. UnsignedWord(r, name, p, unit) = LowWord(v \div unit)
    BY <1>1, <1>2, <2>1 DEF UnsignedWord
  <2>4. UnsignedRead(UnsignedWord(r, name, p, unit), unit, r, f)
    BY <1>2, <2>1, <2>2, <2>3, UnsignedNumber, Zenon DEF UnsignedRead
  <2> QED  BY <1>1, <2>4, Zenon
<1>3. CASE f \notin DOMAIN r
  <2>1. UnsignedWord(r, name, p, unit) = NotUnsigned
    BY <1>1, <1>3 DEF UnsignedWord, NotUnsigned
  <2>2. UnsignedRead(UnsignedWord(r, name, p, unit), unit, r, f)
    BY <1>3, <2>1, Zenon DEF UnsignedRead
  <2> QED  BY <1>1, <2>2, Zenon
<1> QED  BY <1>2, <1>3, Zenon

\* Tenths and hundredths, and whole watts.
LEMMA TimesUnits ==
  ASSUME NEW x \in Int
  PROVE  TimesTenTo(x, -2) = 10 * x /\ TimesTenTo(x, -1) = 100 * x
BY DEF TimesTenTo, TenTo

LEMMA WholeWatts == ASSUME NEW x \in Int PROVE Watts(1000 * x) = x
BY DEF Watts, Trunc

\* The scale factors of the registers.
LEMMA ScaleFactors ==
  /\ I16(LowWord(-1)) = -1 /\ I16(LowWord(-2)) = -2
  /\ \A scale \in 0 .. 6 : I16(scale) = scale
  /\ \A w : I16(w) \in -6 .. 6 => IsScaleFactor(w)
BY DEF I16, LowWord, WordSize, IsScaleFactor

\* Units of tenths and of hundredths, with their scale factors.
UnitOfScale(unit, k) == (unit = 10 /\ k = -2) \/ (unit = 100 /\ k = -1)
ToldIn(unit, b, sf) == UnitOfScale(unit, I16(b[sf]))

LEMMA UnitScales ==
  ASSUME NEW unit, NEW k, UnitOfScale(unit, k), NEW x \in Int
  PROVE  TimesTenTo(x, k) = unit * x /\ k \in -6 .. 6
BY TimesUnits DEF UnitOfScale

LEMMA SignedScaled ==
  ASSUME NEW b, NEW v, NEW sf, NEW r, NEW f, NEW unit, ToldIn(unit, b, sf),
         SignedRead(b[v], unit, r, f)
  PROVE  ScaledI16(b, v, sf) = SaidOf(r, f)
<1>1. IsScaleFactor(b[sf])
  BY UnitScales, ScaleFactors DEF ToldIn
<1>2. ScaledI16(b, v, sf) =
        IF b[v] = NotSigned \/ ~IsScaleFactor(b[sf]) THEN 0
        ELSE TimesTenTo(I16(b[v]), I16(b[sf]))
  BY DEF ScaledI16, NotSigned
<1>3. CASE f \in DOMAIN r
  <2>1. b[v] # NotSigned /\ I16(b[v]) \in Int /\ unit * I16(b[v]) = r[f]
    BY <1>3, Zenon DEF SignedRead
  <2>2. TimesTenTo(I16(b[v]), I16(b[sf])) = r[f]
    BY <2>1, UnitScales, Zenon DEF ToldIn
  <2> QED  BY <1>1, <1>2, <1>3, <2>1, <2>2, Zenon DEF SaidOf
<1>4. CASE f \notin DOMAIN r
  BY <1>2, <1>4, Zenon DEF SignedRead, SaidOf
<1> QED  BY <1>3, <1>4

LEMMA UnsignedScaled ==
  ASSUME NEW b, NEW v, NEW sf, NEW r, NEW f, NEW unit, ToldIn(unit, b, sf),
         UnsignedRead(b[v], unit, r, f)
  PROVE  ScaledU16(b, v, sf) = SaidOf(r, f)
<1>1. IsScaleFactor(b[sf])
  BY UnitScales, ScaleFactors DEF ToldIn
<1>2. ScaledU16(b, v, sf) =
        IF b[v] = NotUnsigned \/ ~IsScaleFactor(b[sf]) THEN 0
        ELSE TimesTenTo(b[v], I16(b[sf]))
  BY DEF ScaledU16, NotUnsigned
<1>3. CASE f \in DOMAIN r
  <2>1. b[v] # NotUnsigned /\ b[v] \in Int /\ unit * b[v] = r[f]
    BY <1>3, Zenon DEF UnsignedRead
  <2>2. TimesTenTo(b[v], I16(b[sf])) = r[f]
    BY <2>1, UnitScales, Zenon DEF ToldIn
  <2> QED  BY <1>1, <1>2, <1>3, <2>1, <2>2, Zenon DEF SaidOf
<1>4. CASE f \notin DOMAIN r
  BY <1>2, <1>4, Zenon DEF UnsignedRead, SaidOf
<1> QED  BY <1>3, <1>4

\* A block agrees if each of its parts does.
PartsAgree(name, values, r, fields) ==
  \A p \in DOMAIN values : <<name, p>> \in fields => values[p] = SaidOf(r, <<name, p>>)
OneAgrees(name, v, r, fields) == <<name, 0>> \in fields => v = SaidOf(r, <<name, 0>>)

LEMMA BlockAgrees ==
  ASSUME NEW r, NEW fields, NEW active, NEW apparent, NEW reactive, NEW current, NEW voltage,
         NEW frequency, NEW factor, NEW temps,
         PartsAgree("inverter_power", active, r, fields),
         PartsAgree("inverter_apparent_power", apparent, r, fields),
         PartsAgree("inverter_reactive_power", reactive, r, fields),
         PartsAgree("inverter_current", current, r, fields),
         PartsAgree("inverter_voltage", voltage, r, fields),
         OneAgrees("inverter_frequency", frequency, r, fields),
         OneAgrees("inverter_power_factor", factor, r, fields),
         OneAgrees("temperature_air", temps[1], r, fields),
         OneAgrees("temperature_module", temps[2], r, fields),
         OneAgrees("temperature_radiator", temps[3], r, fields)
  PROVE  Agrees(Block(active, apparent, reactive, current, voltage, frequency, factor, temps),
                r, fields)
<1>1. \A name, values : PartsAgree(name, values, r, fields) =>
        Agrees(Each(name, values), r, fields)
  BY EachAgrees DEF PartsAgree
<1>2. \A name, v : OneAgrees(name, v, r, fields) => Agrees(Field(name, v), r, fields)
  BY FieldAgrees DEF OneAgrees
<1>3. Agrees(Temperatures(temps), r, fields)
  <2>1. /\ Agrees(Field("temperature_air", temps[1]), r, fields)
        /\ Agrees(Field("temperature_module", temps[2]), r, fields)
        /\ Agrees(Field("temperature_radiator", temps[3]), r, fields)
    BY <1>2
  <2> QED  BY <2>1, JoinedAgrees DEF Temperatures
<1>4. /\ Agrees(Each("inverter_power", active), r, fields)
      /\ Agrees(Each("inverter_apparent_power", apparent), r, fields)
      /\ Agrees(Each("inverter_reactive_power", reactive), r, fields)
      /\ Agrees(Each("inverter_current", current), r, fields)
      /\ Agrees(Each("inverter_voltage", voltage), r, fields)
      /\ Agrees(Field("inverter_frequency", frequency), r, fields)
      /\ Agrees(Field("inverter_power_factor", factor), r, fields)
  BY <1>1, <1>2
<1> DEFINE maps == {Each("inverter_power", active), Each("inverter_apparent_power", apparent),
                    Each("inverter_reactive_power", reactive), Each("inverter_current", current),
                    Each("inverter_voltage", voltage), Field("inverter_frequency", frequency),
                    Field("inverter_power_factor", factor), Temperatures(temps)}
<1>5. \A m \in maps : Agrees(m, r, fields)
  BY <1>3, <1>4
<1>6. Block(active, apparent, reactive, current, voltage, frequency, factor, temps) = Joined(maps)
  BY Zenon DEF Block
<1> HIDE DEF maps
<1> QED  BY <1>5, <1>6, JoinedAgrees, Zenon

\* What the registers of an inverter hold of a field.
LEMMA IntegersRead ==
  ASSUME NEW r, Reading(r), NEW scale \in 0 .. 6, IntegersTell(r, scale), NEW name, NEW p,
         <<name, p>> \in InverterFields
  PROVE  /\ name \in {"inverter_current", "inverter_frequency"} =>
              UnsignedRead(UnsignedWord(r, name, p, 10), 10, r, <<name, p>>)
         /\ <<name, p>> \in TemperatureFields =>
              SignedRead(SignedWord(r, name, p, 100), 100, r, <<name, p>>)
<1>1. PICK f : f = <<name, p>>
  OBVIOUS
<1>2. f \in InverterFields /\ f[1] = name
  BY <1>1
<1>3. f \in DOMAIN r =>
        /\ r[f] \in Int
        /\ name \in {"inverter_current", "inverter_frequency"} => UnsignedTells(10, r[f])
        /\ f \in TemperatureFields => SignedTells(100, r[f])
  <2>1. f \in DOMAIN r => f \in (DOMAIN r) \cap InverterFields
    BY <1>2
  <2> QED  BY <1>2, <2>1, Zenon DEF IntegersTell, Reading
<1>4. 10 \in UnitsTold /\ 100 \in UnitsTold
  BY DEF UnitsTold
<1>5. \A unit \in UnitsTold :
        /\ (f \in DOMAIN r => r[f] \in Int /\ UnsignedTells(unit, r[f])) =>
             UnsignedRead(UnsignedWord(r, name, p, unit), unit, r, f)
        /\ (f \in DOMAIN r => r[f] \in Int /\ SignedTells(unit, r[f])) =>
             SignedRead(SignedWord(r, name, p, unit), unit, r, f)
  <2> TAKE unit \in UnitsTold
  <2>1. ASSUME f \in DOMAIN r => r[f] \in Int /\ UnsignedTells(unit, r[f])
        PROVE  UnsignedRead(UnsignedWord(r, name, p, unit), unit, r, f)
    BY <1>1, <2>1, UnsignedWordRead, Zenon
  <2>2. ASSUME f \in DOMAIN r => r[f] \in Int /\ SignedTells(unit, r[f])
        PROVE  SignedRead(SignedWord(r, name, p, unit), unit, r, f)
    BY <1>1, <2>2, SignedWordRead, Zenon
  <2> QED  BY <2>1, <2>2, Zenon
<1>6. /\ name \in {"inverter_current", "inverter_frequency"} =>
           UnsignedRead(UnsignedWord(r, name, p, 10), 10, r, f)
      /\ f \in TemperatureFields => SignedRead(SignedWord(r, name, p, 100), 100, r, f)
  BY <1>3, <1>4, <1>5, Zenon
<1> QED  BY <1>1, <1>6, Zenon

LEMMA IntegerTemperaturesTold ==
  ASSUME NEW r, Reading(r), NEW scale \in 0 .. 6, IntegersTell(r, scale)
  PROVE  LET b == IntegerTemperatures(r)
         IN  /\ DOMAIN b = {31, 32, 33, 35} /\ I16(b[35]) = -1
             /\ SignedRead(b[31], 100, r, <<"temperature_air", 0>>)
             /\ SignedRead(b[33], 100, r, <<"temperature_module", 0>>)
             /\ SignedRead(b[32], 100, r, <<"temperature_radiator", 0>>)
<1> DEFINE word(name) == SignedWord(r, name, 0, 100)
           b == IntegerTemperatures(r)
<1>1. b = Joined({At(31, word("temperature_air")), At(33, word("temperature_module")),
                  At(32, word("temperature_radiator")), At(35, LowWord(-1))})
  BY Zenon DEF IntegerTemperatures, word
<1>2. /\ SignedRead(word("temperature_air"), 100, r, <<"temperature_air", 0>>)
      /\ SignedRead(word("temperature_module"), 100, r, <<"temperature_module", 0>>)
      /\ SignedRead(word("temperature_radiator"), 100, r, <<"temperature_radiator", 0>>)
  <2>1. /\ <<"temperature_air", 0>> \in InverterFields \cap TemperatureFields
        /\ <<"temperature_module", 0>> \in InverterFields \cap TemperatureFields
        /\ <<"temperature_radiator", 0>> \in InverterFields \cap TemperatureFields
    BY InverterKeys DEF TemperatureFields
  <2> QED  BY <2>1, IntegersRead
<1> HIDE DEF word
<1> DEFINE air == At(31, word("temperature_air"))
           module == At(33, word("temperature_module"))
           radiator == At(32, word("temperature_radiator"))
           tenths == At(35, LowWord(-1))
           maps == {air, module, radiator, tenths}
<1>3. /\ b[31] = word("temperature_air") /\ b[33] = word("temperature_module")
      /\ b[32] = word("temperature_radiator") /\ b[35] = LowWord(-1)
  <2>1. /\ DOMAIN air = {31} /\ DOMAIN module = {33} /\ DOMAIN radiator = {32}
        /\ DOMAIN tenths = {35}
        /\ air[31] = word("temperature_air") /\ module[33] = word("temperature_module")
        /\ radiator[32] = word("temperature_radiator") /\ tenths[35] = LowWord(-1)
    BY DEF At
  <2>2. b = Joined(maps)
    BY <1>1
  <2> HIDE DEF air, module, radiator, tenths, b
  <2>3. ASSUME NEW own \in maps, NEW k \in DOMAIN own,
               \A m \in maps : m = own \/ k \notin DOMAIN m
        PROVE  b[k] = own[k]
    <3> HIDE DEF maps
    <3> QED  BY <2>2, <2>3, JoinedOwn
  <2> QED  BY <2>1, <2>3
<1>4. DOMAIN b = {31, 32, 33, 35}
  BY IntegerTemperaturesType
<1> QED  BY <1>2, <1>3, <1>4, ScaleFactors

LEMMA IntegersTold ==
  ASSUME NEW r, Reading(r), NEW phases \in SUBSET (1 .. 3), NEW scale \in 0 .. 6,
         IntegersTell(r, scale), NEW b, b = IntegerRegisters(r, phases, scale)
  PROVE  /\ \A p \in phases : UnsignedRead(b[p], 10, r, <<"inverter_current", p>>)
         /\ UnsignedRead(b[14], 10, r, <<"inverter_frequency", 0>>)
         /\ I16(b[4]) = -2 /\ I16(b[15]) = -2 /\ I16(b[35]) = -1
         /\ SignedRead(b[31], 100, r, <<"temperature_air", 0>>)
         /\ SignedRead(b[33], 100, r, <<"temperature_module", 0>>)
         /\ SignedRead(b[32], 100, r, <<"temperature_radiator", 0>>)
<1> DEFINE amperes(p) == UnsignedWord(r, "inverter_current", p, 10)
           frequency == UnsignedWord(r, "inverter_frequency", 0, 10)
           current == [p \in Phases |-> IF p \in phases THEN amperes(p) ELSE 65535]
           a4 == At(4, LowWord(-2))
           a14 == At(14, frequency)
           a15 == At(15, LowWord(-2))
           temps == IntegerTemperatures(r)
           right == {current, a4, a14, a15, temps}
<1>1. PICK others : b = Joined(right \cup others) /\
                    \A m \in others : DOMAIN m \cap RightIndices = {}
  <2>1. RightWords(r, phases) = right
    BY DEF RightWords
  <2> HIDE DEF right
  <2> QED  BY <2>1, IntegerRegistersType
<1>2. /\ \A p \in 1 .. 3 : UnsignedRead(amperes(p), 10, r, <<"inverter_current", p>>)
      /\ UnsignedRead(frequency, 10, r, <<"inverter_frequency", 0>>)
  <2>1. /\ \A p \in 1 .. 3 : <<"inverter_current", p>> \in InverterFields
        /\ <<"inverter_frequency", 0>> \in InverterFields
    BY InverterKeys
  <2> QED  BY <2>1, IntegersRead
<1> HIDE DEF amperes, frequency
<1>3. /\ DOMAIN current = {1, 2, 3} /\ DOMAIN a4 = {4} /\ DOMAIN a14 = {14}
      /\ DOMAIN a15 = {15} /\ DOMAIN temps = {31, 32, 33, 35}
  BY IntegerTemperaturesType DEF At, Phases
<1>4. /\ \A p \in phases : current[p] = amperes(p)
      /\ a4[4] = LowWord(-2) /\ a14[14] = frequency /\ a15[15] = LowWord(-2)
  BY DEF At, Phases
<1> HIDE DEF current, a4, a14, a15, temps
<1>5. ASSUME NEW own \in right, NEW k \in DOMAIN own, k \in RightIndices,
             \A m \in right : m = own \/ k \notin DOMAIN m
      PROVE  b[k] = own[k]
  <2> HIDE DEF right
  <2> DEFINE maps == right \cup others
  <2>1. own \in maps /\ \A m \in maps : m = own \/ k \notin DOMAIN m
    BY <1>1, <1>5
  <2>2. b = Joined(maps)
    BY <1>1
  <2> HIDE DEF maps
  <2> QED  BY <2>1, <2>2, JoinedOwn
<1>6. /\ \A p \in phases : b[p] = current[p]
      /\ b[4] = a4[4] /\ b[14] = a14[14] /\ b[15] = a15[15]
      /\ b[31] = temps[31] /\ b[33] = temps[33] /\ b[32] = temps[32] /\ b[35] = temps[35]
  BY <1>3, <1>5 DEF RightIndices
<1>7. /\ I16(temps[35]) = -1
      /\ SignedRead(temps[31], 100, r, <<"temperature_air", 0>>)
      /\ SignedRead(temps[33], 100, r, <<"temperature_module", 0>>)
      /\ SignedRead(temps[32], 100, r, <<"temperature_radiator", 0>>)
  BY IntegerTemperaturesTold DEF temps
<1> HIDE DEF right
<1>8. I16(b[4]) = -2 /\ I16(b[15]) = -2
  BY <1>4, <1>6, ScaleFactors
<1> QED  BY <1>2, <1>4, <1>6, <1>7, <1>8

Misses(fields, names) == \A f \in fields : f[1] \notin names

\* Of a model 103 the client finds the currents, the frequency and the temperatures.
LEMMA Model103Agrees ==
  ASSUME NEW r, Reading(r), NEW scale \in 0 .. 6, IntegersTell(r, scale), NEW fields,
         Misses(fields, Powers \cup {"inverter_voltage", "inverter_power_factor"})
  PROVE  Agrees(Model103(IntegerRegisters(r, 1 .. 3, scale)), r, fields)
<1> DEFINE b == IntegerRegisters(r, 1 .. 3, scale)
           active == [p \in 0 .. 3 |-> Watts(ScaledI16(b, 9 + p, 13))]
           apparent == [p \in 0 .. 3 |-> Watts(ScaledU16(b, 16 + p, 20))]
           reactive == [p \in 0 .. 3 |-> Watts(ScaledI16(b, 21 + p, 25))]
           current == [p \in Phases |-> ScaledU16(b, p, 4)]
           voltage == [p \in Phases |-> ScaledU16(b, 4 + p, 8)]
           frequency == ScaledU16(b, 14, 15)
           factor == PowerFactor(active[0], apparent[0], ScaledI16(b, 20, 21))
           temps == <<ScaledI16(b, 31, 35), ScaledI16(b, 33, 35), ScaledI16(b, 32, 35)>>
           m == Block(active, apparent, reactive, current, voltage, frequency, factor, temps)
<1>1. /\ \A p \in 1 .. 3 : UnsignedRead(b[p], 10, r, <<"inverter_current", p>>)
      /\ UnsignedRead(b[14], 10, r, <<"inverter_frequency", 0>>)
      /\ I16(b[4]) = -2 /\ I16(b[15]) = -2 /\ I16(b[35]) = -1
      /\ SignedRead(b[31], 100, r, <<"temperature_air", 0>>)
      /\ SignedRead(b[33], 100, r, <<"temperature_module", 0>>)
      /\ SignedRead(b[32], 100, r, <<"temperature_radiator", 0>>)
  <2>1. 1 .. 3 \in SUBSET (1 .. 3)
    OBVIOUS
  <2> QED  BY <2>1, IntegersTold
<1>2. Model103(b) = m
  BY Zenon DEF Model103, ScaledTemperatures, Block
<1> HIDE DEF b
<1>3. ToldIn(10, b, 4) /\ ToldIn(10, b, 15) /\ ToldIn(100, b, 35)
  BY <1>1 DEF UnitOfScale, ToldIn
<1>4. \A p \in 1 .. 3 : ScaledU16(b, p, 4) = SaidOf(r, <<"inverter_current", p>>)
  BY <1>1, <1>3, UnsignedScaled
<1>5. frequency = SaidOf(r, <<"inverter_frequency", 0>>)
  BY <1>1, <1>3, UnsignedScaled
<1>6. /\ temps[1] = SaidOf(r, <<"temperature_air", 0>>)
      /\ temps[2] = SaidOf(r, <<"temperature_module", 0>>)
      /\ temps[3] = SaidOf(r, <<"temperature_radiator", 0>>)
  <2>1. /\ ScaledI16(b, 31, 35) = SaidOf(r, <<"temperature_air", 0>>)
        /\ ScaledI16(b, 33, 35) = SaidOf(r, <<"temperature_module", 0>>)
        /\ ScaledI16(b, 32, 35) = SaidOf(r, <<"temperature_radiator", 0>>)
    BY <1>1, <1>3, SignedScaled
  <2> QED  BY <2>1
<1>7. PartsAgree("inverter_current", current, r, fields)
  BY <1>4 DEF PartsAgree, Phases
<1> HIDE DEF active, apparent, reactive, current, voltage, frequency, factor, temps
<1>8. /\ PartsAgree("inverter_power", active, r, fields)
      /\ PartsAgree("inverter_apparent_power", apparent, r, fields)
      /\ PartsAgree("inverter_reactive_power", reactive, r, fields)
      /\ PartsAgree("inverter_voltage", voltage, r, fields)
      /\ OneAgrees("inverter_power_factor", factor, r, fields)
  BY DEF Misses, Powers, PartsAgree, OneAgrees
<1>9. /\ OneAgrees("inverter_frequency", frequency, r, fields)
      /\ OneAgrees("temperature_air", temps[1], r, fields)
      /\ OneAgrees("temperature_module", temps[2], r, fields)
      /\ OneAgrees("temperature_radiator", temps[3], r, fields)
  BY <1>5, <1>6, Zenon DEF OneAgrees
<1>10. Agrees(m, r, fields)
  BY <1>7, <1>8, <1>9, BlockAgrees
<1> QED  BY <1>2, <1>10 DEF b

\* Of a model 101 it finds the temperatures.
LEMMA Model101Agrees ==
  ASSUME NEW r, Reading(r), NEW scale \in 0 .. 6, IntegersTell(r, scale), NEW fields,
         Misses(fields, Powers \cup {"inverter_voltage", "inverter_current",
                                     "inverter_frequency", "inverter_power_factor"})
  PROVE  Agrees(Model101(IntegerRegisters(r, {1}, scale)), r, fields)
<1> DEFINE b == IntegerRegisters(r, {1}, scale)
           active == Watts(ScaledI16(b, 4, 5))
           apparent == Watts(ScaledU16(b, 8, 9))
           reactive == Watts(ScaledI16(b, 10, 11))
           current == ScaledU16(b, 0, 1)
           voltage == ScaledU16(b, 2, 3)
           frequency == ScaledU16(b, 6, 7)
           factor == PowerFactor(active, apparent, ScaledI16(b, 20, 21))
           temps == <<ScaledI16(b, 31, 35), ScaledI16(b, 33, 35), ScaledI16(b, 32, 35)>>
           m == Block(Both(active), Both(apparent), Both(reactive), At(1, current),
                      At(1, voltage), frequency, factor, temps)
<1>1. /\ I16(b[35]) = -1
      /\ SignedRead(b[31], 100, r, <<"temperature_air", 0>>)
      /\ SignedRead(b[33], 100, r, <<"temperature_module", 0>>)
      /\ SignedRead(b[32], 100, r, <<"temperature_radiator", 0>>)
  <2>1. {1} \in SUBSET (1 .. 3)
    OBVIOUS
  <2> QED  BY <2>1, IntegersTold
<1>2. Model101(b) = m
  BY Zenon DEF Model101, ScaledTemperatures, Block, Both
<1> HIDE DEF b
<1>3. ToldIn(100, b, 35)
  BY <1>1 DEF UnitOfScale, ToldIn
<1>4. /\ temps[1] = SaidOf(r, <<"temperature_air", 0>>)
      /\ temps[2] = SaidOf(r, <<"temperature_module", 0>>)
      /\ temps[3] = SaidOf(r, <<"temperature_radiator", 0>>)
  <2>1. /\ ScaledI16(b, 31, 35) = SaidOf(r, <<"temperature_air", 0>>)
        /\ ScaledI16(b, 33, 35) = SaidOf(r, <<"temperature_module", 0>>)
        /\ ScaledI16(b, 32, 35) = SaidOf(r, <<"temperature_radiator", 0>>)
    BY <1>1, <1>3, SignedScaled
  <2> QED  BY <2>1
<1> HIDE DEF active, apparent, reactive, current, voltage, frequency, factor, temps
<1>5. /\ PartsAgree("inverter_power", Both(active), r, fields)
      /\ PartsAgree("inverter_apparent_power", Both(apparent), r, fields)
      /\ PartsAgree("inverter_reactive_power", Both(reactive), r, fields)
      /\ PartsAgree("inverter_current", At(1, current), r, fields)
      /\ PartsAgree("inverter_voltage", At(1, voltage), r, fields)
      /\ OneAgrees("inverter_frequency", frequency, r, fields)
      /\ OneAgrees("inverter_power_factor", factor, r, fields)
  BY DEF Misses, Powers, PartsAgree, OneAgrees
<1>6. /\ OneAgrees("temperature_air", temps[1], r, fields)
      /\ OneAgrees("temperature_module", temps[2], r, fields)
      /\ OneAgrees("temperature_radiator", temps[3], r, fields)
  BY <1>4, Zenon DEF OneAgrees
<1>7. Agrees(m, r, fields)
  BY <1>5, <1>6, BlockAgrees
<1> QED  BY <1>2, <1>7 DEF b

------------------------------------------------------------------------------
(* FroniusClient: what the float models measure *)

\* The floats that a quantity is told with, two registers each.
FloatsOf(r, first, name, parts, unit) ==
  [k \in {first + 2 * p : p \in {q \in parts : <<name, q>> \in DOMAIN r}} |->
     unit * r[<<name, (k - first) \div 2>>]]

LEMMA FloatsOfParts ==
  ASSUME NEW r, Reading(r), NEW first \in Int, NEW name, NEW parts \in SUBSET Int, NEW unit \in Int
  PROVE  LET m == FloatsOf(r, first, name, parts, unit)
         IN  /\ \A k \in DOMAIN m : \E p \in parts : k = first + 2 * p
             /\ \A p \in parts : Float(m, first + 2 * p) = unit * SaidOf(r, <<name, p>>)
<1> DEFINE told == {q \in parts : <<name, q>> \in DOMAIN r}
           value(k) == unit * r[<<name, (k - first) \div 2>>]
           m == [k \in {first + 2 * p : p \in told} |-> value(k)]
<1>1. FloatsOf(r, first, name, parts, unit) = m
  BY DEF FloatsOf
<1>2. ASSUME NEW p \in parts
      PROVE  /\ first + 2 * p \in DOMAIN m <=> <<name, p>> \in DOMAIN r
             /\ value(first + 2 * p) = unit * r[<<name, p>>]
  <2>1. p \in Int
    OBVIOUS
  <2>2. ((first + 2 * p) - first) \div 2 = p
    BY <2>1
  <2>3. value(first + 2 * p) = unit * r[<<name, p>>]
    BY <2>2
  <2>4. first + 2 * p \in DOMAIN m <=> p \in told
    <3>1. \A q \in told : first + 2 * q = first + 2 * p => q = p
      <4>1. \A q \in Int : first + 2 * q = first + 2 * p => q = p
        BY <2>1
      <4>2. \A q \in told : q \in Int
        OBVIOUS
      <4> HIDE DEF told
      <4> QED  BY <4>1, <4>2
    <3> HIDE DEF told, value
    <3> QED  BY <3>1
  <2> QED  BY <2>3, <2>4
<1>3. \A k \in DOMAIN m : \E p \in parts : k = first + 2 * p
  <2> HIDE DEF value
  <2> QED  OBVIOUS
<1>4. ASSUME NEW p \in parts PROVE Float(m, first + 2 * p) = unit * SaidOf(r, <<name, p>>)
  <2> DEFINE k == first + 2 * p
  <2>1. k \in DOMAIN m <=> <<name, p>> \in DOMAIN r
    BY <1>2
  <2>2. value(k) = unit * r[<<name, p>>]
    BY <1>2
  <2>3. k \in DOMAIN m => m[k] = value(k)
    <3> HIDE DEF value, told
    <3> QED  OBVIOUS
  <2> HIDE DEF k, m, value
  <2>4. unit * 0 = 0
    OBVIOUS
  <2>5. Float(m, k) = unit * SaidOf(r, <<name, p>>)
    BY <2>1, <2>2, <2>3, <2>4, Zenon DEF Float, SaidOf
  <2> QED  BY <2>5 DEF k
<1> HIDE DEF m
<1> QED  BY <1>1, <1>3, <1>4

\* The float that only one of the joined maps has, and one that none of them has.
LEMMA JoinedFloat ==
  ASSUME NEW maps, NEW own \in maps, NEW k, \A m \in maps : m = own \/ k \notin DOMAIN m
  PROVE  Float(Joined(maps), k) = Float(own, k)
<1>1. k \in DOMAIN Joined(maps) <=> k \in DOMAIN own
  BY JoinedOwn, Zenon
<1>2. k \in DOMAIN own => Joined(maps)[k] = own[k]
  BY JoinedOwn, Zenon
<1> QED  BY <1>1, <1>2, Zenon DEF Float

LEMMA NoFloat ==
  ASSUME NEW maps, NEW k, \A m \in maps : k \notin DOMAIN m
  PROVE  Float(Joined(maps), k) = 0
BY DEF Float, Joined

OneFloat(m, k, v) == (\A x \in DOMAIN m : x = k) /\ Float(m, k) = v

\* Where the temperatures may be.
SensorIndices == {30, 32, 34, 36, 38, 40, 42}

LEMMA FloatsTold ==
  ASSUME NEW r, Reading(r), NEW layout, NEW air \in SensorIndices, NEW module \in SensorIndices,
         NEW radiator \in SensorIndices, air # module, air # radiator, module # radiator,
         layout = <<air, module, radiator>>, NEW f, f = Floats(r, layout)
  PROVE  /\ \A p \in 1 .. 3 : /\ Float(f, 2 * p) = SaidOf(r, <<"inverter_current", p>>)
                              /\ Float(f, 12 + 2 * p) = SaidOf(r, <<"inverter_voltage", p>>)
         /\ Float(f, 20) = 1000 * SaidOf(r, <<"inverter_power", 0>>)
         /\ Float(f, 22) = SaidOf(r, <<"inverter_frequency", 0>>)
         /\ Float(f, 24) = 1000 * SaidOf(r, <<"inverter_apparent_power", 0>>)
         /\ Float(f, 26) = 1000 * SaidOf(r, <<"inverter_reactive_power", 0>>)
         /\ Float(f, air) = SaidOf(r, <<"temperature_air", 0>>)
         /\ Float(f, module) = SaidOf(r, <<"temperature_module", 0>>)
         /\ Float(f, radiator) = SaidOf(r, <<"temperature_radiator", 0>>)
         /\ layout # SunSpecLayout =>
              \A k \in SensorIndices \ {air, module, radiator} : Float(f, k) = 0
<1> DEFINE currents == FloatsOf(r, 0, "inverter_current", 1 .. 3, 1)
           voltages == FloatsOf(r, 12, "inverter_voltage", 1 .. 3, 1)
           active == FloatsOf(r, 20, "inverter_power", {0}, 1000)
           frequency == FloatsOf(r, 22, "inverter_frequency", {0}, 1)
           apparent == FloatsOf(r, 24, "inverter_apparent_power", {0}, 1000)
           reactive == FloatsOf(r, 26, "inverter_reactive_power", {0}, 1000)
           factor == FloatsOf(r, 28, "inverter_power_factor", {0}, 100)
           t1 == FloatsOf(r, air, "temperature_air", {0}, 1)
           t2 == FloatsOf(r, module, "temperature_module", {0}, 1)
           t3 == FloatsOf(r, radiator, "temperature_radiator", {0}, 1)
           others == Joined({FloatsOf(r, 30, "inverter_energy", {0}, 1000),
                             At(32, r[<<"pv_current", 1>>]), At(34, r[<<"pv_voltage", 1>>]),
                             At(36, 1000 * r[<<"pv_power", 0>>])})
           before == IF layout = SunSpecLayout THEN others ELSE <<>>
           maps == {currents, voltages, active, frequency, apparent, reactive, factor, t1, t2, t3,
                    before}
<1>1. f = Joined(maps)
  <2>1. layout[1] = air /\ layout[2] = module /\ layout[3] = radiator
    OBVIOUS
  <2>2. Phases = 1 .. 3
    BY DEF Phases
  <2>3. Floats(r, layout) =
          Joined({FloatsOf(r, 0, "inverter_current", Phases, 1),
                  FloatsOf(r, 12, "inverter_voltage", Phases, 1),
                  FloatsOf(r, 20, "inverter_power", {0}, 1000),
                  FloatsOf(r, 22, "inverter_frequency", {0}, 1),
                  FloatsOf(r, 24, "inverter_apparent_power", {0}, 1000),
                  FloatsOf(r, 26, "inverter_reactive_power", {0}, 1000),
                  FloatsOf(r, 28, "inverter_power_factor", {0}, 100),
                  FloatsOf(r, layout[1], "temperature_air", {0}, 1),
                  FloatsOf(r, layout[2], "temperature_module", {0}, 1),
                  FloatsOf(r, layout[3], "temperature_radiator", {0}, 1), before})
    BY Zenon DEF Floats, FloatsOf
  <2> HIDE DEF before
  <2> QED  BY <2>1, <2>2, <2>3
<1>2. air \in Int /\ module \in Int /\ radiator \in Int
  BY DEF SensorIndices
<1>3. \A f1 : SaidOf(r, f1) \in Int /\ 1 * SaidOf(r, f1) = SaidOf(r, f1)
  BY DEF SaidOf, Reading
<1>4. 1 .. 3 \in SUBSET Int /\ {0} \in SUBSET Int
  OBVIOUS
<1>5. ASSUME NEW first \in Int, NEW name, NEW unit \in Int
      PROVE  OneFloat(FloatsOf(r, first, name, {0}, unit), first, unit * SaidOf(r, <<name, 0>>))
  <2>1. first + 2 * 0 = first
    OBVIOUS
  <2>2. LET m == FloatsOf(r, first, name, {0}, unit)
        IN  /\ \A k \in DOMAIN m : \E p \in {0} : k = first + 2 * p
            /\ \A p \in {0} : Float(m, first + 2 * p) = unit * SaidOf(r, <<name, p>>)
    BY <1>4, FloatsOfParts
  <2> QED  BY <2>1, <2>2 DEF OneFloat
<1>6. ASSUME NEW first \in Int, NEW name
      PROVE  LET m == FloatsOf(r, first, name, 1 .. 3, 1)
             IN  /\ \A k \in DOMAIN m : k = first + 2 \/ k = first + 4 \/ k = first + 6
                 /\ \A p \in 1 .. 3 : Float(m, first + 2 * p) = SaidOf(r, <<name, p>>)
  <2>1. LET m == FloatsOf(r, first, name, 1 .. 3, 1)
        IN  /\ \A k \in DOMAIN m : \E p \in 1 .. 3 : k = first + 2 * p
            /\ \A p \in 1 .. 3 : Float(m, first + 2 * p) = 1 * SaidOf(r, <<name, p>>)
    BY <1>4, FloatsOfParts
  <2>2. \A p \in 1 .. 3 : first + 2 * p = first + 2 \/ first + 2 * p = first + 4
                          \/ first + 2 * p = first + 6
    OBVIOUS
  <2> QED  BY <1>3, <2>1, <2>2
<1>7. /\ \A k \in DOMAIN currents : k \in {2, 4, 6}
      /\ \A k \in DOMAIN voltages : k \in {14, 16, 18}
      /\ \A p \in 1 .. 3 : /\ Float(currents, 2 * p) = SaidOf(r, <<"inverter_current", p>>)
                           /\ Float(voltages, 12 + 2 * p) = SaidOf(r, <<"inverter_voltage", p>>)
  BY <1>6
<1>8. /\ OneFloat(active, 20, 1000 * SaidOf(r, <<"inverter_power", 0>>))
      /\ OneFloat(frequency, 22, SaidOf(r, <<"inverter_frequency", 0>>))
      /\ OneFloat(apparent, 24, 1000 * SaidOf(r, <<"inverter_apparent_power", 0>>))
      /\ OneFloat(reactive, 26, 1000 * SaidOf(r, <<"inverter_reactive_power", 0>>))
      /\ \A k \in DOMAIN factor : k = 28
      /\ OneFloat(t1, air, SaidOf(r, <<"temperature_air", 0>>))
      /\ OneFloat(t2, module, SaidOf(r, <<"temperature_module", 0>>))
      /\ OneFloat(t3, radiator, SaidOf(r, <<"temperature_radiator", 0>>))
  <2>1. ASSUME NEW first \in Int, NEW name, NEW v, v = SaidOf(r, <<name, 0>>)
        PROVE  /\ OneFloat(FloatsOf(r, first, name, {0}, 1), first, v)
               /\ OneFloat(FloatsOf(r, first, name, {0}, 1000), first, 1000 * v)
    <3>1. 1 \in Int /\ 1000 \in Int /\ 1 * v = v
      BY <1>3, <2>1
    <3>2. OneFloat(FloatsOf(r, first, name, {0}, 1), first, 1 * v)
      BY <1>5, <2>1, <3>1
    <3>3. OneFloat(FloatsOf(r, first, name, {0}, 1000), first, 1000 * v)
      BY <1>5, <2>1, <3>1
    <3> QED  BY <3>1, <3>2, <3>3
  <2>2. /\ OneFloat(active, 20, 1000 * SaidOf(r, <<"inverter_power", 0>>))
        /\ OneFloat(apparent, 24, 1000 * SaidOf(r, <<"inverter_apparent_power", 0>>))
        /\ OneFloat(reactive, 26, 1000 * SaidOf(r, <<"inverter_reactive_power", 0>>))
    BY <2>1
  <2>3. OneFloat(frequency, 22, SaidOf(r, <<"inverter_frequency", 0>>))
    BY <2>1
  <2>4. \A k \in DOMAIN factor : k = 28
    <3>1. OneFloat(factor, 28, 100 * SaidOf(r, <<"inverter_power_factor", 0>>))
      BY <1>5
    <3> HIDE DEF factor
    <3> QED  BY <3>1 DEF OneFloat
  <2>5. /\ OneFloat(t1, air, SaidOf(r, <<"temperature_air", 0>>))
        /\ OneFloat(t2, module, SaidOf(r, <<"temperature_module", 0>>))
        /\ OneFloat(t3, radiator, SaidOf(r, <<"temperature_radiator", 0>>))
    BY <1>2, <2>1
  <2> QED  BY <2>2, <2>3, <2>4, <2>5
<1>9. /\ layout # SunSpecLayout => DOMAIN before = {}
      /\ \A k \in DOMAIN before : k \in {30, 32, 34, 36} \ {air, module, radiator}
  <2> DEFINE energy == FloatsOf(r, 30, "inverter_energy", {0}, 1000)
  <2>1. OneFloat(energy, 30, 1000 * SaidOf(r, <<"inverter_energy", 0>>))
    BY <1>5
  <2> HIDE DEF energy
  <2>2. \A k \in DOMAIN others : k \in {30, 32, 34, 36}
    BY <2>1 DEF Joined, At, OneFloat, energy
  <2>3. layout = SunSpecLayout => air = 38 /\ module = 42 /\ radiator = 40
    BY DEF SunSpecLayout
  <2> HIDE DEF others
  <2> QED  BY <2>2, <2>3
<1> HIDE DEF currents, voltages, active, frequency, apparent, reactive, factor, t1, t2, t3, before
<1>10. ASSUME NEW own \in maps, NEW k, \A m \in maps : m = own \/ k \notin DOMAIN m
       PROVE  Float(f, k) = Float(own, k)
  <2> HIDE DEF maps
  <2> QED  BY <1>1, <1>10, JoinedFloat
<1>11. \A k \in SensorIndices : k \in Int /\ k >= 30
  BY DEF SensorIndices
<1>12. /\ \A k \in DOMAIN active : k = 20
       /\ \A k \in DOMAIN frequency : k = 22
       /\ \A k \in DOMAIN apparent : k = 24
       /\ \A k \in DOMAIN reactive : k = 26
       /\ \A k \in DOMAIN factor : k = 28
       /\ \A k \in DOMAIN t1 : k = air
       /\ \A k \in DOMAIN t2 : k = module
       /\ \A k \in DOMAIN t3 : k = radiator
  BY <1>8 DEF OneFloat
<1>13. ASSUME NEW own \in maps, NEW k,
              \/ own = currents /\ k \in {2, 4, 6}
              \/ own = voltages /\ k \in {14, 16, 18}
              \/ own = active /\ k = 20
              \/ own = frequency /\ k = 22
              \/ own = apparent /\ k = 24
              \/ own = reactive /\ k = 26
              \/ own = t1 /\ k = air
              \/ own = t2 /\ k = module
              \/ own = t3 /\ k = radiator
       PROVE  Float(f, k) = Float(own, k)
  <2>1. air >= 30 /\ module >= 30 /\ radiator >= 30
    BY <1>11
  <2>2. \A m \in maps : m = own \/ k \notin DOMAIN m
    <3>1. CASE own = currents /\ k \in {2, 4, 6}
      BY <1>2, <1>7, <1>9, <1>12, <2>1, <3>1, SMTT(60)
    <3>2. CASE own = voltages /\ k \in {14, 16, 18}
      BY <1>2, <1>7, <1>9, <1>12, <2>1, <3>2, SMTT(60)
    <3>3. CASE own = active /\ k = 20
      BY <1>2, <1>7, <1>9, <1>12, <2>1, <3>3, SMTT(60)
    <3>4. CASE own = frequency /\ k = 22
      BY <1>2, <1>7, <1>9, <1>12, <2>1, <3>4, SMTT(60)
    <3>5. CASE own = apparent /\ k = 24
      BY <1>2, <1>7, <1>9, <1>12, <2>1, <3>5, SMTT(60)
    <3>6. CASE own = reactive /\ k = 26
      BY <1>2, <1>7, <1>9, <1>12, <2>1, <3>6, SMTT(60)
    <3>7. CASE own = t1 /\ k = air
      BY <1>2, <1>7, <1>9, <1>12, <2>1, <3>7, SMTT(60)
    <3>8. CASE own = t2 /\ k = module
      BY <1>2, <1>7, <1>9, <1>12, <2>1, <3>8, SMTT(60)
    <3>9. CASE own = t3 /\ k = radiator
      BY <1>2, <1>7, <1>9, <1>12, <2>1, <3>9, SMTT(60)
    <3> HIDE DEF maps
    <3> QED  BY <1>13, <3>1, <3>2, <3>3, <3>4, <3>5, <3>6, <3>7, <3>8, <3>9
  <2> HIDE DEF maps
  <2> QED  BY <1>10, <2>2
<1>14. /\ \A p \in 1 .. 3 : /\ Float(f, 2 * p) = Float(currents, 2 * p)
                            /\ Float(f, 12 + 2 * p) = Float(voltages, 12 + 2 * p)
       /\ Float(f, 20) = Float(active, 20) /\ Float(f, 22) = Float(frequency, 22)
       /\ Float(f, 24) = Float(apparent, 24) /\ Float(f, 26) = Float(reactive, 26)
      
       /\ Float(f, air) = Float(t1, air) /\ Float(f, module) = Float(t2, module)
       /\ Float(f, radiator) = Float(t3, radiator)
  <2>1. /\ currents \in maps /\ voltages \in maps /\ active \in maps /\ frequency \in maps
        /\ apparent \in maps /\ reactive \in maps /\ factor \in maps /\ t1 \in maps
        /\ t2 \in maps /\ t3 \in maps
    OBVIOUS
  <2> HIDE DEF maps
  <2>2. \A p \in 1 .. 3 : 2 * p \in {2, 4, 6} /\ 12 + 2 * p \in {14, 16, 18}
    OBVIOUS
  <2> QED  BY <1>13, <2>1, <2>2
<1>15. ASSUME layout # SunSpecLayout, NEW k \in SensorIndices \ {air, module, radiator}
       PROVE  Float(f, k) = 0
  <2>1. k >= 30 /\ k # air /\ k # module /\ k # radiator
    BY <1>11
  <2>2. \A m \in maps : k \notin DOMAIN m
    BY <1>7, <1>9, <1>12, <1>15, <2>1
  <2> HIDE DEF maps
  <2> QED  BY <1>1, <2>2, NoFloat
<1> QED  BY <1>7, <1>8, <1>14, <1>15 DEF OneFloat

\* A temperature that a sensor may have is taken as it is, and zero for none.
LEMMA NormalizedTold ==
  ASSUME NEW x \in Int, IsPlausible(x), ~IsEffectiveZero(x)
  PROVE  Normalized(x) = x
<1> DEFINE shifts == {k \in 0 .. 3 : /\ IsPlausible(Trunc(x, TenTo(k)))
                                    /\ ~IsEffectiveZero(Trunc(x, TenTo(k)))}
           first == CHOOSE k \in shifts : \A j \in shifts : k <= j
<1>1. TenTo(0) = 1
  BY DEF TenTo
<1>2. Trunc(x, 1) = x
  BY DEF Trunc
<1>3. 0 \in shifts
  BY <1>1, <1>2
<1>4. \A j \in shifts : j \in 0 .. 3
  OBVIOUS
<1>5. Normalized(x) = Trunc(x, TenTo(first))
  <2>1. shifts # {}
    BY <1>3
  <2> QED  BY <2>1 DEF Normalized
<1> HIDE DEF shifts
<1>6. first = 0
  <2>1. 0 \in shifts /\ \A j \in shifts : 0 <= j
    BY <1>3, <1>4
  <2>2. first \in shifts /\ \A j \in shifts : first <= j
    BY <2>1, Zenon
  <2> HIDE DEF first
  <2> QED  BY <1>3, <1>4, <2>2
<1> QED  BY <1>1, <1>2, <1>5, <1>6

LEMMA NormalizedNone == Normalized(0) = 0
<1> DEFINE shifts == {k \in 0 .. 3 : /\ IsPlausible(Trunc(0, TenTo(k)))
                                    /\ ~IsEffectiveZero(Trunc(0, TenTo(k)))}
<1>1. \A k \in 0 .. 3 : Trunc(0, TenTo(k)) = 0
  BY DEF Trunc, TenTo
<1>2. IsEffectiveZero(0)
  BY DEF IsEffectiveZero
<1>3. shifts = {}
  BY <1>1, <1>2
<1> QED  BY <1>3 DEF Normalized

Sensed(x) == IF IsEffectiveZero(x) THEN 0 ELSE 1

LEMMA SensorsCounted ==
  ASSUME NEW temps, DOMAIN temps = 1 .. 3
  PROVE  SensorCount(temps) = Sensed(temps[1]) + Sensed(temps[2]) + Sensed(temps[3])
BY DEF SensorCount, Sensors, Sensed

\* What is read of one of the triplets, and how many sensors that shows.
TripletTemps(f, k) == [i \in 1 .. 3 |-> Normalized(Float(f, Triplets[k][i]))]
SensorAt(f, i) == Sensed(Normalized(Float(f, i)))

LEMMA TripletCounts ==
  ASSUME NEW f
  PROVE  /\ SensorCount(TripletTemps(f, 1)) = SensorAt(f, 38) + SensorAt(f, 42) + SensorAt(f, 40)
         /\ SensorCount(TripletTemps(f, 2)) = SensorAt(f, 30) + SensorAt(f, 34) + SensorAt(f, 32)
         /\ SensorCount(TripletTemps(f, 3)) = SensorAt(f, 32) + SensorAt(f, 36) + SensorAt(f, 34)
         /\ SensorCount(TripletTemps(f, 4)) = SensorAt(f, 34) + SensorAt(f, 38) + SensorAt(f, 36)
         /\ \A i : SensorAt(f, i) \in 0 .. 1
<1>1. ASSUME NEW k, NEW a, NEW b, NEW c, Triplets[k] = <<a, b, c>>
      PROVE  SensorCount(TripletTemps(f, k)) = SensorAt(f, a) + SensorAt(f, b) + SensorAt(f, c)
  <2> DEFINE temps == TripletTemps(f, k)
  <2>1. /\ DOMAIN temps = 1 .. 3 /\ temps[1] = Normalized(Float(f, a))
        /\ temps[2] = Normalized(Float(f, b)) /\ temps[3] = Normalized(Float(f, c))
    BY <1>1 DEF TripletTemps
  <2> HIDE DEF temps
  <2>2. SensorCount(temps) = Sensed(temps[1]) + Sensed(temps[2]) + Sensed(temps[3])
    BY <2>1, SensorsCounted
  <2> QED  BY <2>1, <2>2 DEF temps, SensorAt
<1>2. /\ Triplets[1] = <<38, 42, 40>> /\ Triplets[2] = <<30, 34, 32>>
      /\ Triplets[3] = <<32, 36, 34>> /\ Triplets[4] = <<34, 38, 36>>
  BY DEF Triplets
<1>3. \A i : SensorAt(f, i) \in 0 .. 1
  BY DEF SensorAt, Sensed
<1> QED  BY <1>1, <1>2, <1>3

\* The triplet that shows more sensors than those before and not fewer than those after it.
LEMMA BestTripletIs ==
  ASSUME NEW f, NEW n \in 1 .. 4, \A k \in 1 .. 4 : SensorCount(TripletTemps(f, k)) \in Int,
         \A k \in 1 .. 4 \ {n} :
           \/ SensorCount(TripletTemps(f, n)) > SensorCount(TripletTemps(f, k))
           \/ SensorCount(TripletTemps(f, n)) = SensorCount(TripletTemps(f, k)) /\ n < k
  PROVE  BestTriplet(f) = TripletTemps(f, n)
<1> DEFINE count(k) == SensorCount(TripletTemps(f, k))
           Best(k) == \A j \in 1 .. 4 : \/ count(k) > count(j)
                                        \/ count(k) = count(j) /\ k <= j
           best == CHOOSE k \in 1 .. 4 : Best(k)
<1>1. BestTriplet(f) = TripletTemps(f, best)
  BY Zenon DEF BestTriplet, TripletTemps
<1>2. \A k \in 1 .. 4 : count(k) \in Int
  OBVIOUS
<1>3. \A k \in 1 .. 4 \ {n} : count(n) > count(k) \/ (count(n) = count(k) /\ n < k)
  OBVIOUS
<1> HIDE DEF count
<1>4. Best(n)
  BY <1>2, <1>3
<1>5. \A k \in 1 .. 4 : Best(k) => k = n
  BY <1>2, <1>3
<1>6. best \in 1 .. 4 /\ Best(best)
  <2> HIDE DEF Best
  <2> QED  BY <1>4, Zenon
<1> HIDE DEF best
<1>7. best = n
  BY <1>5, <1>6
<1> QED  BY <1>1, <1>7

\* A float model whose layout is one that the client can tell from the others shows the
\* temperatures of the sensors it has.
LEMMA TemperaturesTold ==
  ASSUME NEW r, Reading(r), NEW layout, FloatsTell(r, layout), NEW f, f = Floats(r, layout),
         NEW words, NEW temps, temps = ModelTemperatures(f, words)
  PROVE  /\ <<"temperature_air", 0>> \in DOMAIN r => temps[1] = r[<<"temperature_air", 0>>]
         /\ <<"temperature_module", 0>> \in DOMAIN r => temps[2] = r[<<"temperature_module", 0>>]
         /\ <<"temperature_radiator", 0>> \in DOMAIN r =>
              temps[3] = r[<<"temperature_radiator", 0>>]
<1> DEFINE a == <<"temperature_air", 0>>
           m == <<"temperature_module", 0>>
           t == <<"temperature_radiator", 0>>
           sensors == {a, m, t} \cap DOMAIN r
<1>1. /\ \A x \in sensors : IsPlausible(r[x]) /\ ~IsEffectiveZero(r[x])
      /\ \E x, y \in sensors : x # y
      /\ \/ layout = SunSpecLayout /\ {a, m, t} \subseteq sensors
         \/ layout = Triplets[2]
         \/ layout \in {Triplets[3], Triplets[4]} /\ m \in sensors
  <2>1. TemperatureFields = {a, m, t}
    BY DEF TemperatureFields
  <2> QED  BY <2>1 DEF FloatsTell
<1>2. \A x \in {a, m, t} :
        /\ x \in DOMAIN r => Normalized(SaidOf(r, x)) = r[x] /\ Sensed(r[x]) = 1
        /\ x \notin DOMAIN r => Normalized(SaidOf(r, x)) = 0
  <2> TAKE x \in {a, m, t}
  <2>1. CASE x \in DOMAIN r
    <3>1. r[x] \in Int /\ IsPlausible(r[x]) /\ ~IsEffectiveZero(r[x]) /\ SaidOf(r, x) = r[x]
      BY <1>1, <2>1 DEF Reading, SaidOf
    <3>2. Normalized(r[x]) = r[x]
      BY <3>1, NormalizedTold
    <3> QED  BY <2>1, <3>1, <3>2 DEF Sensed
  <2>2. CASE x \notin DOMAIN r
    BY <2>2, NormalizedNone DEF SaidOf
  <2> QED  BY <2>1, <2>2
<1>3. Sensed(0) = 0
  BY DEF Sensed, IsEffectiveZero
<1> DEFINE Counts(x) == IF x \in DOMAIN r THEN 1 ELSE 0
<1>4. \A x \in {a, m, t} : Sensed(Normalized(SaidOf(r, x))) = Counts(x)
  BY <1>2, <1>3
<1>5. /\ Counts(a) + Counts(m) + Counts(t) >= 2
      /\ layout = SunSpecLayout => Counts(a) = 1 /\ Counts(m) = 1 /\ Counts(t) = 1
      /\ layout \in {Triplets[3], Triplets[4]} => Counts(m) = 1
  <2>1. \/ a \in DOMAIN r /\ m \in DOMAIN r
        \/ a \in DOMAIN r /\ t \in DOMAIN r
        \/ m \in DOMAIN r /\ t \in DOMAIN r
    <3> HIDE DEF a, m, t
    <3> QED  BY <1>1
  <2>2. /\ SunSpecLayout \notin {Triplets[2], Triplets[3], Triplets[4]}
        /\ Triplets[2] \notin {Triplets[3], Triplets[4]}
    BY DEF SunSpecLayout, Triplets
  <2> QED  BY <1>1, <2>1, <2>2
<1>6. Counts(a) \in 0 .. 1 /\ Counts(m) \in 0 .. 1 /\ Counts(t) \in 0 .. 1
  OBVIOUS
<1> HIDE DEF a, m, t, Counts, sensors
<1>7. ASSUME NEW air \in SensorIndices, NEW module \in SensorIndices,
             NEW radiator \in SensorIndices, air # module, air # radiator, module # radiator,
             layout = <<air, module, radiator>>
      PROVE  /\ Float(f, air) = SaidOf(r, a) /\ Float(f, module) = SaidOf(r, m)
             /\ Float(f, radiator) = SaidOf(r, t)
             /\ SensorAt(f, air) = Counts(a) /\ SensorAt(f, module) = Counts(m)
             /\ SensorAt(f, radiator) = Counts(t)
             /\ layout # SunSpecLayout =>
                  \A k \in SensorIndices \ {air, module, radiator} : SensorAt(f, k) = 0
  <2>1. /\ Float(f, air) = SaidOf(r, a) /\ Float(f, module) = SaidOf(r, m)
        /\ Float(f, radiator) = SaidOf(r, t)
        /\ layout # SunSpecLayout =>
             \A k \in SensorIndices \ {air, module, radiator} : Float(f, k) = 0
    BY <1>7, FloatsTold DEF a, m, t
  <2>2. /\ Sensed(Normalized(SaidOf(r, a))) = Counts(a) /\ Sensed(Normalized(SaidOf(r, m))) = Counts(m)
        /\ Sensed(Normalized(SaidOf(r, t))) = Counts(t)
    BY <1>4
  <2> QED  BY <1>3, <2>1, <2>2, NormalizedNone DEF SensorAt
<1>8. PICK n \in 1 .. 4 :
        /\ layout = Triplets[n] /\ (n \in {3, 4} => Counts(m) = 1)
        /\ n = 1 => Counts(a) = 1 /\ Counts(m) = 1 /\ Counts(t) = 1
        /\ n # 1 => layout # SunSpecLayout
  <2>1. layout = SunSpecLayout \/ layout = Triplets[2] \/ layout = Triplets[3]
        \/ layout = Triplets[4]
    BY <1>1
  <2>2. /\ SunSpecLayout = Triplets[1]
        /\ SunSpecLayout \notin {Triplets[2], Triplets[3], Triplets[4]}
    BY DEF Triplets, SunSpecLayout
  <2>3. 1 \in 1 .. 4 /\ 2 \in 1 .. 4 /\ 3 \in 1 .. 4 /\ 4 \in 1 .. 4
    OBVIOUS
  <2> QED  BY <1>5, <2>1, <2>2, <2>3
<1>9. BestTriplet(f) = TripletTemps(f, n)
  <2>1. /\ SensorCount(TripletTemps(f, 1)) = SensorAt(f, 38) + SensorAt(f, 42) + SensorAt(f, 40)
        /\ SensorCount(TripletTemps(f, 2)) = SensorAt(f, 30) + SensorAt(f, 34) + SensorAt(f, 32)
        /\ SensorCount(TripletTemps(f, 3)) = SensorAt(f, 32) + SensorAt(f, 36) + SensorAt(f, 34)
        /\ SensorCount(TripletTemps(f, 4)) = SensorAt(f, 34) + SensorAt(f, 38) + SensorAt(f, 36)
        /\ \A i : SensorAt(f, i) \in 0 .. 1
    BY TripletCounts
  <2>2. \A k \in 1 .. 4 : SensorCount(TripletTemps(f, k)) \in Int
    BY <2>1
  <2>3. CASE n = 1
    <3>1. layout = <<38, 42, 40>>
      BY <1>8, <2>3 DEF Triplets
    <3>2. /\ SensorAt(f, 38) = Counts(a) /\ SensorAt(f, 42) = Counts(m) /\ SensorAt(f, 40) = Counts(t)
      BY <1>7, <3>1 DEF SensorIndices
    <3>3. SensorCount(TripletTemps(f, 1)) = 3
      BY <1>8, <2>1, <2>3, <3>2
    <3>4. /\ SensorAt(f, 30) \in 0 .. 1 /\ SensorAt(f, 32) \in 0 .. 1 /\ SensorAt(f, 34) \in 0 .. 1
          /\ SensorAt(f, 36) \in 0 .. 1 /\ SensorAt(f, 38) \in 0 .. 1
      BY <2>1
    <3>5. \A k \in 1 .. 4 \ {1} : SensorCount(TripletTemps(f, k)) <= 3
      BY <2>1, <3>4
    <3>6. \A k \in 1 .. 4 \ {1} :
            \/ SensorCount(TripletTemps(f, 1)) > SensorCount(TripletTemps(f, k))
            \/ SensorCount(TripletTemps(f, 1)) = SensorCount(TripletTemps(f, k)) /\ 1 < k
      BY <2>2, <3>3, <3>5
    <3> QED  BY <2>2, <2>3, <3>6, BestTripletIs
  <2>4. CASE n = 2
    <3>1. layout = <<30, 34, 32>> /\ layout # SunSpecLayout
      BY <1>8, <2>4 DEF Triplets
    <3>2. /\ SensorAt(f, 30) = Counts(a) /\ SensorAt(f, 34) = Counts(m) /\ SensorAt(f, 32) = Counts(t)
          /\ \A k \in {36, 38, 40, 42} : SensorAt(f, k) = 0
      BY <1>7, <3>1 DEF SensorIndices
    <3>3. \A k \in 1 .. 4 \ {2} :
            \/ SensorCount(TripletTemps(f, 2)) > SensorCount(TripletTemps(f, k))
            \/ SensorCount(TripletTemps(f, 2)) = SensorCount(TripletTemps(f, k)) /\ 2 < k
      BY <1>5, <1>6, <2>1, <3>2
    <3> QED  BY <2>2, <2>4, <3>3, BestTripletIs
  <2>5. CASE n = 3
    <3>1. layout = <<32, 36, 34>> /\ layout # SunSpecLayout
      BY <1>8, <2>5 DEF Triplets
    <3>2. /\ SensorAt(f, 32) = Counts(a) /\ SensorAt(f, 36) = Counts(m) /\ SensorAt(f, 34) = Counts(t)
          /\ \A k \in {30, 38, 40, 42} : SensorAt(f, k) = 0
      BY <1>7, <3>1 DEF SensorIndices
    <3>3. Counts(m) = 1
      BY <1>8, <2>5
    <3>4. \A k \in 1 .. 4 \ {3} :
            \/ SensorCount(TripletTemps(f, 3)) > SensorCount(TripletTemps(f, k))
            \/ SensorCount(TripletTemps(f, 3)) = SensorCount(TripletTemps(f, k)) /\ 3 < k
      BY <1>5, <1>6, <2>1, <3>2, <3>3
    <3> QED  BY <2>2, <2>5, <3>4, BestTripletIs
  <2>6. CASE n = 4
    <3>1. layout = <<34, 38, 36>> /\ layout # SunSpecLayout
      BY <1>8, <2>6 DEF Triplets
    <3>2. /\ SensorAt(f, 34) = Counts(a) /\ SensorAt(f, 38) = Counts(m) /\ SensorAt(f, 36) = Counts(t)
          /\ \A k \in {30, 32, 40, 42} : SensorAt(f, k) = 0
      BY <1>7, <3>1 DEF SensorIndices
    <3>3. Counts(m) = 1
      BY <1>8, <2>6
    <3>4. \A k \in 1 .. 4 \ {4} :
            SensorCount(TripletTemps(f, 4)) > SensorCount(TripletTemps(f, k))
      BY <1>5, <1>6, <2>1, <3>2, <3>3
    <3> QED  BY <2>2, <2>6, <3>4, BestTripletIs
  <2> QED  BY <2>3, <2>4, <2>5, <2>6
<1>10. /\ DOMAIN BestTriplet(f) = 1 .. 3
       /\ BestTriplet(f)[1] = Normalized(SaidOf(r, a))
       /\ BestTriplet(f)[2] = Normalized(SaidOf(r, m))
       /\ BestTriplet(f)[3] = Normalized(SaidOf(r, t))
  <2>1. PICK air \in SensorIndices, module \in SensorIndices, radiator \in SensorIndices :
          /\ Triplets[n] = <<air, module, radiator>>
          /\ air # module /\ air # radiator /\ module # radiator
    <3>1. /\ Triplets[1] = <<38, 42, 40>> /\ Triplets[2] = <<30, 34, 32>>
          /\ Triplets[3] = <<32, 36, 34>> /\ Triplets[4] = <<34, 38, 36>>
      BY DEF Triplets
    <3> QED  BY <3>1 DEF SensorIndices
  <2>2. /\ Float(f, air) = SaidOf(r, a) /\ Float(f, module) = SaidOf(r, m)
        /\ Float(f, radiator) = SaidOf(r, t)
    BY <1>7, <1>8, <2>1
  <2> QED  BY <1>9, <2>1, <2>2 DEF TripletTemps
<1>11. SensorCount(BestTriplet(f)) >= 2
  BY <1>4, <1>5, <1>10, SensorsCounted
<1> DEFINE best == BestTriplet(f)
<1>12. temps = ImputeMissing(best)
  <2>1. ~(SensorCount(BestTriplet(f)) < 2)
    BY <1>11, <1>10, <1>4, <1>6, SensorsCounted
  <2> QED  BY <2>1, Zenon DEF ModelTemperatures
<1> HIDE DEF best
<1>13. ASSUME NEW i \in 1 .. 3, ~IsEffectiveZero(best[i]) PROVE temps[i] = best[i]
  <2>1. i \in Sensors(best)
    BY <1>10, <1>13 DEF Sensors, best
  <2> QED  BY <1>12, <2>1 DEF ImputeMissing
<1>14. /\ a \in DOMAIN r => best[1] = r[a] /\ ~IsEffectiveZero(r[a])
       /\ m \in DOMAIN r => best[2] = r[m] /\ ~IsEffectiveZero(r[m])
       /\ t \in DOMAIN r => best[3] = r[t] /\ ~IsEffectiveZero(r[t])
  BY <1>1, <1>2, <1>10 DEF best, sensors
<1>15. /\ a \in DOMAIN r => temps[1] = r[a]
       /\ m \in DOMAIN r => temps[2] = r[m]
       /\ t \in DOMAIN r => temps[3] = r[t]
  BY <1>13, <1>14
<1> QED  BY <1>15 DEF a, m, t

LEMMA FloatsRead ==
  ASSUME NEW r, Reading(r), NEW layout, FloatsTell(r, layout), NEW f, f = Floats(r, layout)
  PROVE  /\ \A p \in 1 .. 3 : /\ Float(f, 2 * p) = SaidOf(r, <<"inverter_current", p>>)
                              /\ Float(f, 12 + 2 * p) = SaidOf(r, <<"inverter_voltage", p>>)
         /\ Float(f, 22) = SaidOf(r, <<"inverter_frequency", 0>>)
         /\ \A name \in Powers : FloatTotal(f, name) = SaidOf(r, <<name, 0>>)
<1>1. PICK air \in SensorIndices, module \in SensorIndices, radiator \in SensorIndices :
        /\ layout = <<air, module, radiator>>
        /\ air # module /\ air # radiator /\ module # radiator
  <2>1. layout \in {SunSpecLayout, Triplets[2], Triplets[3], Triplets[4]}
    BY DEF FloatsTell
  <2>2. /\ SunSpecLayout = <<38, 42, 40>> /\ Triplets[2] = <<30, 34, 32>>
        /\ Triplets[3] = <<32, 36, 34>> /\ Triplets[4] = <<34, 38, 36>>
    BY DEF Triplets, SunSpecLayout
  <2> QED  BY <2>1, <2>2 DEF SensorIndices
<1>2. /\ \A p \in 1 .. 3 : /\ Float(f, 2 * p) = SaidOf(r, <<"inverter_current", p>>)
                           /\ Float(f, 12 + 2 * p) = SaidOf(r, <<"inverter_voltage", p>>)
      /\ Float(f, 20) = 1000 * SaidOf(r, <<"inverter_power", 0>>)
      /\ Float(f, 22) = SaidOf(r, <<"inverter_frequency", 0>>)
      /\ Float(f, 24) = 1000 * SaidOf(r, <<"inverter_apparent_power", 0>>)
      /\ Float(f, 26) = 1000 * SaidOf(r, <<"inverter_reactive_power", 0>>)
  BY <1>1, FloatsTold
<1>3. \A x : SaidOf(r, x) \in Int
  BY DEF SaidOf, Reading
<1>4. /\ FloatTotal(f, "inverter_power") = Watts(Float(f, 20))
      /\ FloatTotal(f, "inverter_apparent_power") = Watts(Float(f, 24))
      /\ FloatTotal(f, "inverter_reactive_power") = Watts(Float(f, 26))
  BY DEF FloatTotal
<1>5. /\ FloatTotal(f, "inverter_power") = SaidOf(r, <<"inverter_power", 0>>)
      /\ FloatTotal(f, "inverter_apparent_power") = SaidOf(r, <<"inverter_apparent_power", 0>>)
      /\ FloatTotal(f, "inverter_reactive_power") = SaidOf(r, <<"inverter_reactive_power", 0>>)
  BY <1>2, <1>3, <1>4, WholeWatts
<1>6. \A name \in Powers : FloatTotal(f, name) = SaidOf(r, <<name, 0>>)
  BY <1>5 DEF Powers
<1> QED  BY <1>2, <1>6

\* Model 113 tells the totals and the phases' currents and voltages.
LEMMA Model113Agrees ==
  ASSUME NEW r, Reading(r), NEW layout, FloatsTell(r, layout), NEW words, NEW short,
         NEW fields \in SUBSET DOMAIN r, Misses(fields, {"inverter_power_factor"}),
         \A name \in Powers : \A p \in 1 .. 3 : <<name, p>> \notin fields
  PROVE  Agrees(Model113(Floats(r, layout), words, short), r, fields)
<1> DEFINE f == Floats(r, layout)
           total(name) == FloatTotal(f, name)
           shares(name) == SplitByWeights(total(name), PhaseWeights(f), short)
           parts(name) == WithTotal(total(name), shares(name))
           current == [p \in Phases |-> Float(f, 2 * p)]
           voltage == [p \in Phases |-> Float(f, 12 + 2 * p)]
           factor == PowerFactor(total("inverter_power"), total("inverter_apparent_power"),
                                 Float(f, 28))
           temps == ModelTemperatures(f, words)
           m == Block(parts("inverter_power"), parts("inverter_apparent_power"),
                      parts("inverter_reactive_power"), current, voltage, Float(f, 22), factor,
                      temps)
<1>1. Model113(f, words, short) = m
  BY Zenon DEF Model113, Block
<1>2. /\ \A p \in 1 .. 3 : /\ Float(f, 2 * p) = SaidOf(r, <<"inverter_current", p>>)
                           /\ Float(f, 12 + 2 * p) = SaidOf(r, <<"inverter_voltage", p>>)
      /\ Float(f, 22) = SaidOf(r, <<"inverter_frequency", 0>>)
      /\ \A name \in Powers : total(name) = SaidOf(r, <<name, 0>>)
  BY FloatsRead
<1>3. /\ <<"temperature_air", 0>> \in DOMAIN r => temps[1] = r[<<"temperature_air", 0>>]
      /\ <<"temperature_module", 0>> \in DOMAIN r => temps[2] = r[<<"temperature_module", 0>>]
      /\ <<"temperature_radiator", 0>> \in DOMAIN r =>
           temps[3] = r[<<"temperature_radiator", 0>>]
  BY TemperaturesTold
<1>4. \A name : DOMAIN shares(name) \subseteq 1 .. 3
  BY DEF SplitByWeights, SplitEvenly
<1> HIDE DEF f, total, shares, factor, temps
<1>5. ASSUME NEW name \in Powers PROVE PartsAgree(name, parts(name), r, fields)
  <2>1. \A p \in DOMAIN parts(name) : p = 0 \/ p \in 1 .. 3
    BY <1>4 DEF WithTotal, At, ++
  <2>2. parts(name)[0] = total(name)
    BY DEF WithTotal, At, ++
  <2> HIDE DEF parts
  <2> QED  BY <1>2, <2>1, <2>2 DEF PartsAgree
<1>6. /\ PartsAgree("inverter_power", parts("inverter_power"), r, fields)
      /\ PartsAgree("inverter_apparent_power", parts("inverter_apparent_power"), r, fields)
      /\ PartsAgree("inverter_reactive_power", parts("inverter_reactive_power"), r, fields)
  BY <1>5 DEF Powers
<1>7. /\ PartsAgree("inverter_current", current, r, fields)
      /\ PartsAgree("inverter_voltage", voltage, r, fields)
  BY <1>2 DEF PartsAgree, Phases
<1>8. /\ OneAgrees("inverter_frequency", Float(f, 22), r, fields)
      /\ OneAgrees("inverter_power_factor", factor, r, fields)
      /\ OneAgrees("temperature_air", temps[1], r, fields)
      /\ OneAgrees("temperature_module", temps[2], r, fields)
      /\ OneAgrees("temperature_radiator", temps[3], r, fields)
  BY <1>2, <1>3 DEF OneAgrees, SaidOf, Misses
<1> HIDE DEF parts, current, voltage
<1>9. Agrees(m, r, fields)
  BY <1>6, <1>7, <1>8, BlockAgrees
<1> QED  BY <1>1, <1>9 DEF f

\* Model 111 tells the totals and the one phase.
LEMMA Model111Agrees ==
  ASSUME NEW r, Reading(r), NEW layout, FloatsTell(r, layout), NEW words,
         NEW fields \in SUBSET DOMAIN r, Misses(fields, {"inverter_power_factor"}),
         \A name \in Powers : <<name, 1>> \notin fields
  PROVE  Agrees(Model111(Floats(r, layout), words), r, fields)
<1> DEFINE f == Floats(r, layout)
           active == FloatTotal(f, "inverter_power")
           apparent == FloatTotal(f, "inverter_apparent_power")
           reactive == FloatTotal(f, "inverter_reactive_power")
           current == At(1, Float(f, 2))
           voltage == At(1, Float(f, 14))
           factor == PowerFactor(active, apparent, Float(f, 28))
           temps == ModelTemperatures(f, words)
           m == Block(Both(active), Both(apparent), Both(reactive), current, voltage,
                      Float(f, 22), factor, temps)
<1>1. Model111(f, words) = m
  BY Zenon DEF Model111, Block, Both
<1>2. /\ \A p \in 1 .. 3 : /\ Float(f, 2 * p) = SaidOf(r, <<"inverter_current", p>>)
                           /\ Float(f, 12 + 2 * p) = SaidOf(r, <<"inverter_voltage", p>>)
      /\ Float(f, 22) = SaidOf(r, <<"inverter_frequency", 0>>)
      /\ \A name \in Powers : FloatTotal(f, name) = SaidOf(r, <<name, 0>>)
  BY FloatsRead
<1>3. /\ <<"temperature_air", 0>> \in DOMAIN r => temps[1] = r[<<"temperature_air", 0>>]
      /\ <<"temperature_module", 0>> \in DOMAIN r => temps[2] = r[<<"temperature_module", 0>>]
      /\ <<"temperature_radiator", 0>> \in DOMAIN r =>
           temps[3] = r[<<"temperature_radiator", 0>>]
  BY TemperaturesTold
<1> HIDE DEF f, factor, temps
<1>4. /\ active = SaidOf(r, <<"inverter_power", 0>>)
      /\ apparent = SaidOf(r, <<"inverter_apparent_power", 0>>)
      /\ reactive = SaidOf(r, <<"inverter_reactive_power", 0>>)
  BY <1>2 DEF Powers
<1>5. /\ Float(f, 2) = SaidOf(r, <<"inverter_current", 1>>)
      /\ Float(f, 14) = SaidOf(r, <<"inverter_voltage", 1>>)
  <2>1. 2 * 1 = 2 /\ 12 + 2 * 1 = 14 /\ 1 \in 1 .. 3
    OBVIOUS
  <2> QED  BY <1>2, <2>1
<1> HIDE DEF active, apparent, reactive
<1>6. /\ PartsAgree("inverter_power", Both(active), r, fields)
      /\ PartsAgree("inverter_apparent_power", Both(apparent), r, fields)
      /\ PartsAgree("inverter_reactive_power", Both(reactive), r, fields)
  BY <1>4 DEF PartsAgree, Both, Powers
<1>7. /\ PartsAgree("inverter_current", current, r, fields)
      /\ PartsAgree("inverter_voltage", voltage, r, fields)
  BY <1>5 DEF PartsAgree, At
<1>8. /\ OneAgrees("inverter_frequency", Float(f, 22), r, fields)
      /\ OneAgrees("inverter_power_factor", factor, r, fields)
      /\ OneAgrees("temperature_air", temps[1], r, fields)
      /\ OneAgrees("temperature_module", temps[2], r, fields)
      /\ OneAgrees("temperature_radiator", temps[3], r, fields)
  BY <1>2, <1>3 DEF OneAgrees, SaidOf, Misses
<1> HIDE DEF current, voltage
<1>9. Agrees(m, r, fields)
  BY <1>6, <1>7, <1>8, BlockAgrees
<1> QED  BY <1>1, <1>9 DEF f

------------------------------------------------------------------------------
(* FroniusClient: what the inverter measures *)

\* The fields that the client looks for elsewhere than the model has them; all others are
\* shown as the inverter measures them, whatever its model.
MisreadNames(model) ==
  CASE model = "103" -> Powers \cup {"inverter_voltage", "inverter_power_factor"}
    [] model = "101" -> Powers \cup {"inverter_voltage", "inverter_current",
                                     "inverter_frequency", "inverter_power_factor"}
    [] OTHER -> {"inverter_power_factor"}

LEMMA AcAgrees ==
  ASSUME NEW inverter, inverter.model \in {"none", "101", "103", "111", "113"},
         inverter.scale \in 0 .. 6, NEW r, Reading(r), InverterTells(inverter, r), NEW short,
         NEW fields, Misses(fields, MisreadNames(inverter.model)),
         inverter.model \in {"111", "113"} =>
           \A name \in Powers : \A p \in 1 .. 3 : <<name, p>> \notin fields,
         inverter.model \in {"111", "113"} => fields \subseteq DOMAIN r
  PROVE  Agrees(AcValues(inverter, r, short), r, fields)
<1> DEFINE floats == Floats(r, inverter.layout)
           words == IntegerTemperatures(r)
<1>1. CASE inverter.model = "none"
  <2>1. AcValues(inverter, r, short) = <<>>
    BY <1>1 DEF AcValues
  <2> QED  BY <2>1, EmptyAgrees
<1>2. CASE inverter.model = "113"
  <2>1. AcValues(inverter, r, short) = Model113(floats, words, short)
    BY <1>2 DEF AcValues
  <2>2. FloatsTell(r, inverter.layout) /\ fields \in SUBSET DOMAIN r
    BY <1>2 DEF InverterTells
  <2>3. \A name \in Powers : \A p \in 1 .. 3 : <<name, p>> \notin fields
    BY <1>2
  <2>4. Misses(fields, {"inverter_power_factor"})
    BY <1>2 DEF MisreadNames
  <2> QED  BY <2>1, <2>2, <2>3, <2>4, Model113Agrees
<1>3. CASE inverter.model = "103"
  <2>1. AcValues(inverter, r, short) = Model103(IntegerRegisters(r, 1 .. 3, inverter.scale))
    BY <1>3 DEF AcValues, Phases
  <2>2. IntegersTell(r, inverter.scale)
    BY <1>3 DEF InverterTells
  <2>3. Misses(fields, Powers \cup {"inverter_voltage", "inverter_power_factor"})
    BY <1>3 DEF MisreadNames
  <2> QED  BY <2>1, <2>2, <2>3, Model103Agrees
<1>4. CASE inverter.model = "111"
  <2>1. AcValues(inverter, r, short) = Model111(floats, words)
    BY <1>4 DEF AcValues
  <2>2. FloatsTell(r, inverter.layout) /\ fields \in SUBSET DOMAIN r
    BY <1>4 DEF InverterTells
  <2>3. \A name \in Powers : \A p \in 1 .. 3 : <<name, p>> \notin fields
    BY <1>4
  <2>4. \A name \in Powers : <<name, 1>> \notin fields
    <3>1. 1 \in 1 .. 3
      OBVIOUS
    <3> QED  BY <2>3, <3>1, Zenon
  <2>5. Misses(fields, {"inverter_power_factor"})
    BY <1>4 DEF MisreadNames
  <2> QED  BY <2>1, <2>2, <2>4, <2>5, Model111Agrees
<1>5. CASE inverter.model = "101"
  <2>1. AcValues(inverter, r, short) = Model101(IntegerRegisters(r, {1}, inverter.scale))
    BY <1>5 DEF AcValues
  <2>2. IntegersTell(r, inverter.scale)
    BY <1>5 DEF InverterTells
  <2>3. Misses(fields, Powers \cup {"inverter_voltage", "inverter_current",
                                    "inverter_frequency", "inverter_power_factor"})
    BY <1>5 DEF MisreadNames
  <2> QED  BY <2>1, <2>2, <2>3, Model101Agrees
<1> QED  BY <1>1, <1>2, <1>3, <1>4, <1>5

------------------------------------------------------------------------------
(* FroniusClient: what the strings measure *)

LEMMA PvPartsAgree ==
  ASSUME NEW r, NEW fields, NEW current, NEW voltage, NEW power,
         PartsAgree("pv_current", current, r, fields),
         PartsAgree("pv_voltage", voltage, r, fields),
         PartsAgree("pv_power", power, r, fields)
  PROVE  Agrees(PvFieldsOf(current, voltage, power), r, fields)
<1>1. /\ Agrees(Each("pv_current", current), r, fields)
      /\ Agrees(Each("pv_voltage", voltage), r, fields)
      /\ Agrees(Each("pv_power", power), r, fields)
  BY EachAgrees DEF PartsAgree
<1> QED  BY <1>1, JoinedAgrees DEF PvFieldsOf

\* The registers of model 160 tell the modules in units of their own.
LEMMA Registers160Told ==
  ASSUME NEW r, NEW modules \in Nat
  PROVE  LET b == Registers160(r, modules)
         IN  /\ b[0] = LowWord(-2) /\ b[1] = LowWord(-1) /\ b[2] = 0 /\ b[6] = modules
             /\ \A i \in 1 .. modules :
                  /\ b[8 + 20 * (i - 1) + 9] = UnsignedWord(r, "pv_current", i, 10)
                  /\ b[8 + 20 * (i - 1) + 10] = UnsignedWord(r, "pv_voltage", i, 100)
                  /\ b[8 + 20 * (i - 1) + 11] = UnsignedWord(r, "pv_power", i, 1)
<1> DEFINE quantity == <<"pv_current", "pv_voltage", "pv_power">>
           unit == <<10, 100, 1>>
           held == ModuleIndices(modules)
           value(k) == UnsignedWord(r, quantity[((k - 8) % 20) - 8], (k - 8) \div 20 + 1,
                                    unit[((k - 8) % 20) - 8])
           strings == [k \in held |-> value(k)]
           m0 == At(0, LowWord(-2))
           m1 == At(1, LowWord(-1))
           m2 == At(2, 0)
           m6 == At(6, modules)
           maps == {m0, m1, m2, m6, strings}
           b == Registers160(r, modules)
<1>1. b = Joined(maps)
  BY Zenon DEF Registers160
<1>2. \A k \in held : k \in Int /\ k >= 17
  BY DEF ModuleIndices
<1>3. /\ DOMAIN m0 = {0} /\ m0[0] = LowWord(-2) /\ DOMAIN m1 = {1} /\ m1[1] = LowWord(-1)
      /\ DOMAIN m2 = {2} /\ m2[2] = 0 /\ DOMAIN m6 = {6} /\ m6[6] = modules
  BY DEF At
<1>4. DOMAIN strings = held /\ \A k \in held : strings[k] = value(k)
  OBVIOUS
<1>5. /\ m0 \in maps /\ m1 \in maps /\ m2 \in maps /\ m6 \in maps /\ strings \in maps
      /\ \A m \in maps : m = m0 \/ m = m1 \/ m = m2 \/ m = m6 \/ m = strings
  OBVIOUS
<1> HIDE DEF m0, m1, m2, m6, strings, maps, held, b
<1>6. ASSUME NEW own \in maps, NEW k \in DOMAIN own,
             \A m \in maps : m = own \/ k \notin DOMAIN m
      PROVE  b[k] = own[k]
  BY <1>1, <1>6, JoinedOwn
<1>7. b[0] = LowWord(-2) /\ b[1] = LowWord(-1) /\ b[2] = 0 /\ b[6] = modules
  <2>1. \A m \in maps : m = m0 \/ 0 \notin DOMAIN m
    BY <1>2, <1>3, <1>4, <1>5
  <2>2. \A m \in maps : m = m1 \/ 1 \notin DOMAIN m
    BY <1>2, <1>3, <1>4, <1>5
  <2>3. \A m \in maps : m = m2 \/ 2 \notin DOMAIN m
    BY <1>2, <1>3, <1>4, <1>5
  <2>4. \A m \in maps : m = m6 \/ 6 \notin DOMAIN m
    BY <1>2, <1>3, <1>4, <1>5
  <2>5. 0 \in DOMAIN m0 /\ 1 \in DOMAIN m1 /\ 2 \in DOMAIN m2 /\ 6 \in DOMAIN m6
    BY <1>3
  <2>6. b[0] = m0[0] /\ b[1] = m1[1] /\ b[2] = m2[2] /\ b[6] = m6[6]
    BY <1>5, <1>6, <2>1, <2>2, <2>3, <2>4, <2>5, Zenon
  <2> QED  BY <1>3, <2>6
<1>8. ASSUME NEW k \in held PROVE b[k] = value(k)
  <2>1. \A m \in maps : m = strings \/ k \notin DOMAIN m
    BY <1>2, <1>3, <1>5
  <2>2. k \in DOMAIN strings /\ strings[k] = value(k)
    BY <1>4
  <2> HIDE DEF value
  <2>3. b[k] = strings[k]
    BY <1>5, <1>6, <2>1, <2>2, Zenon
  <2> QED  BY <2>2, <2>3
<1>9. ASSUME NEW i \in 1 .. modules, NEW j \in 9 .. 11
      PROVE  b[8 + 20 * (i - 1) + j] = UnsignedWord(r, quantity[j - 8], i, unit[j - 8])
  <2> DEFINE k == 8 + 20 * (i - 1) + j
  <2>1. k \in held
    BY DEF held, ModuleIndices
  <2>2. (k - 8) % 20 = j /\ (k - 8) \div 20 + 1 = i
    OBVIOUS
  <2> HIDE DEF k, quantity, unit
  <2>3. value(k) = UnsignedWord(r, quantity[j - 8], i, unit[j - 8])
    BY <2>2
  <2> QED  BY <1>8, <2>1, <2>3 DEF k
<1>10. /\ quantity[9 - 8] = "pv_current" /\ unit[9 - 8] = 10
       /\ quantity[10 - 8] = "pv_voltage" /\ unit[10 - 8] = 100
       /\ quantity[11 - 8] = "pv_power" /\ unit[11 - 8] = 1
  OBVIOUS
<1>11. 9 \in 9 .. 11 /\ 10 \in 9 .. 11 /\ 11 \in 9 .. 11
  OBVIOUS
<1> HIDE DEF quantity, unit
<1>12. ASSUME NEW i \in 1 .. modules
       PROVE  /\ b[8 + 20 * (i - 1) + 9] = UnsignedWord(r, "pv_current", i, 10)
              /\ b[8 + 20 * (i - 1) + 10] = UnsignedWord(r, "pv_voltage", i, 100)
              /\ b[8 + 20 * (i - 1) + 11] = UnsignedWord(r, "pv_power", i, 1)
  <2>1. /\ b[8 + 20 * (i - 1) + 9] = UnsignedWord(r, quantity[9 - 8], i, unit[9 - 8])
        /\ b[8 + 20 * (i - 1) + 10] = UnsignedWord(r, quantity[10 - 8], i, unit[10 - 8])
        /\ b[8 + 20 * (i - 1) + 11] = UnsignedWord(r, quantity[11 - 8], i, unit[11 - 8])
    BY <1>9, <1>11, Zenon
  <2> QED  BY <1>10, <2>1, Zenon
<1> QED  BY <1>7, <1>12 DEF b

LEMMA PositiveTold ==
  ASSUME NEW v \in Int, NEW unit \in {1, 100}, Tells("i16", unit, v), v >= 0
  PROVE  UnsignedTells(unit, v)
<1>1. unit \in UnitsTold
  BY DEF UnitsTold
<1>2. PICK q : q = v \div unit
  OBVIOUS
<1>3. q \in Int /\ Holds("i16", q)
  BY <1>1, <1>2, ToldWhole, Zenon DEF Makes
<1>4. q >= 0
  <2>1. CASE unit = 1
    <3>1. v \div 1 = v
      OBVIOUS
    <3> QED  BY <1>2, <2>1, <3>1
  <2>2. CASE unit = 100
    BY <1>2, <2>2
  <2> QED  BY <2>1, <2>2
<1>5. Holds("u16", q) /\ q # 65535
  BY <1>3, <1>4 DEF Holds, FitsInto
<1>6. v % unit = 0
  BY Zenon DEF Tells
<1>7. Holds("u16", v \div unit) /\ v \div unit # 65535
  BY <1>2, <1>5
<1> QED  BY <1>6, <1>7 DEF UnsignedTells, Tells

LEMMA StringsRead ==
  ASSUME NEW r, Reading(r), StringsTell(r), NEW i \in Strings
  PROVE  /\ UnsignedRead(UnsignedWord(r, "pv_current", i, 10), 10, r, <<"pv_current", i>>)
         /\ UnsignedRead(UnsignedWord(r, "pv_voltage", i, 100), 100, r, <<"pv_voltage", i>>)
         /\ UnsignedRead(UnsignedWord(r, "pv_power", i, 1), 1, r, <<"pv_power", i>>)
<1>1. /\ r[<<"pv_current", i>>] \in Int /\ r[<<"pv_voltage", i>>] \in Int
      /\ r[<<"pv_power", i>>] \in Int
  BY PvKeys DEF Reading, Strings
<1>2. /\ UnsignedTells(10, r[<<"pv_current", i>>])
      /\ Tells("i16", 100, r[<<"pv_voltage", i>>]) /\ r[<<"pv_voltage", i>>] >= 0
      /\ Tells("i16", 1, r[<<"pv_power", i>>]) /\ r[<<"pv_power", i>>] >= 0
  BY Zenon DEF StringsTell
<1>3. UnsignedTells(100, r[<<"pv_voltage", i>>]) /\ UnsignedTells(1, r[<<"pv_power", i>>])
  BY <1>1, <1>2, PositiveTold
<1>4. 1 \in UnitsTold /\ 10 \in UnitsTold /\ 100 \in UnitsTold
  BY DEF UnitsTold
<1> QED  BY <1>1, <1>2, <1>3, <1>4, UnsignedWordRead, Zenon

\* What the block holds of a module, and what is made of it.
ModuleRead(b, i, k, unit, r, f) == UnsignedRead(b[8 + 20 * (i - 1) + k], unit, r, f)

LEMMA ModuleNumber ==
  ASSUME NEW b, NEW modules \in Int, NEW i \in Int, i <= modules, NEW k, NEW sf, NEW unit,
         NEW r, NEW f \in DOMAIN r, ModuleRead(b, i, k, unit, r, f)
  PROVE  \E raw \in Int : /\ unit * raw = r[f]
                          /\ ModuleValue(b, modules, i, k, sf) = TimesTenTo(raw, I16(b[sf]))
<1> DEFINE raw == b[8 + 20 * (i - 1) + k]
<1>1. raw # NotUnsigned /\ raw \in Int /\ unit * raw = r[f]
  BY Zenon DEF UnsignedRead, ModuleRead
<1>2. ModuleValue(b, modules, i, k, sf) = TimesTenTo(raw, I16(b[sf]))
  BY <1>1 DEF ModuleValue, NotUnsigned
<1> HIDE DEF raw
<1> QED  BY <1>1, <1>2, Zenon

LEMMA ModuleShown ==
  ASSUME NEW b, NEW modules \in Int, NEW i \in Int, i <= modules, NEW k, NEW sf, NEW unit,
         NEW r, NEW f \in DOMAIN r, ModuleRead(b, i, k, unit, r, f), ToldIn(unit, b, sf)
  PROVE  ModuleValue(b, modules, i, k, sf) = r[f]
<1>1. PICK raw \in Int : /\ unit * raw = r[f]
                         /\ ModuleValue(b, modules, i, k, sf) = TimesTenTo(raw, I16(b[sf]))
  BY ModuleNumber
<1>2. TimesTenTo(raw, I16(b[sf])) = unit * raw
  BY UnitScales, Zenon DEF ToldIn
<1> QED  BY <1>1, <1>2, Zenon

LEMMA ModulePower ==
  ASSUME NEW b, NEW modules \in Int, NEW i \in Int, i <= modules, NEW k, NEW sf,
         NEW r, NEW f \in DOMAIN r, ModuleRead(b, i, k, 1, r, f), I16(b[sf]) = 0
  PROVE  Watts(ModuleValue(b, modules, i, k, sf)) = r[f]
<1>1. PICK raw \in Int : /\ 1 * raw = r[f]
                         /\ ModuleValue(b, modules, i, k, sf) = TimesTenTo(raw, I16(b[sf]))
  BY ModuleNumber
<1>2. TimesTenTo(raw, 0) = 1000 * raw
  BY DEF TimesTenTo, TenTo
<1>3. Watts(1000 * raw) = raw
  BY WholeWatts
<1>4. raw = r[f]
  BY <1>1
<1>5. ModuleValue(b, modules, i, k, sf) = 1000 * raw
  BY <1>1, <1>2
<1> QED  BY <1>3, <1>4, <1>5

\* _read_sunspec_model_160 shows the strings that the block has modules of.
LEMMA Model160Agrees ==
  ASSUME NEW r, Reading(r), StringsTell(r), NEW modules \in Nat, NEW c,
         c.pv_string_count \in Int, NEW fields,
         \A f \in fields : f[2] \in 1 .. StringCount(c) /\ f[2] <= modules
  PROVE  LET m == Model160(Registers160(r, modules), 8 + 20 * modules, c)
         IN  Agrees(m, r, fields) /\ m # <<>>
<1> DEFINE b == Registers160(r, modules)
           length == 8 + 20 * modules
           read == ModulesRead(b, length, c)
           value(i, k, sf) == ModuleValue(b, read, i, k, sf)
           power(i) == Watts(value(i, 11, 2))
           current == [i \in Strings |-> value(i, 9, 0)]
           voltage == [i \in Strings |-> value(i, 10, 1)]
           powers == [i \in 0 .. 4 |-> IF i > 0 THEN power(i)
                                       ELSE power(1) + power(2) + power(3) + power(4)]
           unusable == length < 8 \/ ~(\A k \in 0 .. 2 : IsScaleFactor(b[k]))
           m == Model160(b, length, c)
<1>1. /\ b[0] = LowWord(-2) /\ b[1] = LowWord(-1) /\ b[2] = 0 /\ b[6] = modules
      /\ \A i \in 1 .. modules :
           /\ b[8 + 20 * (i - 1) + 9] = UnsignedWord(r, "pv_current", i, 10)
           /\ b[8 + 20 * (i - 1) + 10] = UnsignedWord(r, "pv_voltage", i, 100)
           /\ b[8 + 20 * (i - 1) + 11] = UnsignedWord(r, "pv_power", i, 1)
  BY Registers160Told
<1>2. StringCount(c) \in 1 .. 4
  BY StringCountType
<1>3. read \in Int /\ \A i \in 1 .. StringCount(c) : i <= modules => i <= read
  <2>1. (length - 8) \div 20 = modules
    OBVIOUS
  <2> HIDE DEF b, length
  <2> QED  BY <1>1, <1>2, <2>1 DEF ModulesRead, MinOf, Positive
<1> HIDE DEF b, read
<1>4. m = IF unusable THEN <<>> ELSE PvFieldsOf(current, voltage, powers)
  BY Zenon DEF Model160, read
<1>5. ToldIn(10, b, 0) /\ ToldIn(100, b, 1) /\ I16(b[2]) = 0
  BY <1>1, ScaleFactors DEF ToldIn, UnitOfScale
<1>6. ASSUME NEW p \in 1 .. StringCount(c), p <= modules
      PROVE  /\ value(p, 9, 0) = r[<<"pv_current", p>>]
             /\ value(p, 10, 1) = r[<<"pv_voltage", p>>]
             /\ power(p) = r[<<"pv_power", p>>]
             /\ p \in Strings
  <2>1. p \in Strings /\ p \in 1 .. modules /\ p \in Int /\ p <= read
    BY <1>2, <1>3, <1>6 DEF Strings
  <2>2. /\ ModuleRead(b, p, 9, 10, r, <<"pv_current", p>>)
        /\ ModuleRead(b, p, 10, 100, r, <<"pv_voltage", p>>)
        /\ ModuleRead(b, p, 11, 1, r, <<"pv_power", p>>)
    BY <1>1, <2>1, StringsRead DEF ModuleRead
  <2>3. /\ <<"pv_current", p>> \in DOMAIN r /\ <<"pv_voltage", p>> \in DOMAIN r
        /\ <<"pv_power", p>> \in DOMAIN r
    BY <2>1, PvKeys DEF Reading, Strings
  <2>4. value(p, 9, 0) = r[<<"pv_current", p>>]
    BY <1>3, <1>5, <2>1, <2>2, <2>3, ModuleShown
  <2>5. value(p, 10, 1) = r[<<"pv_voltage", p>>]
    BY <1>3, <1>5, <2>1, <2>2, <2>3, ModuleShown
  <2>6. power(p) = r[<<"pv_power", p>>]
    BY <1>3, <1>5, <2>1, <2>2, <2>3, ModulePower
  <2> QED  BY <2>1, <2>4, <2>5, <2>6
<1> HIDE DEF value, power
<1>7. ASSUME NEW p, NEW name \in {"pv_current", "pv_voltage", "pv_power"}, <<name, p>> \in fields
      PROVE  p \in 1 .. StringCount(c) /\ p <= modules /\ SaidOf(r, <<name, p>>) = r[<<name, p>>]
  <2>1. p \in 1 .. StringCount(c) /\ p <= modules
    BY <1>7
  <2>2. <<name, p>> \in DOMAIN r
    BY <1>2, <2>1, PvKeys DEF Reading
  <2> QED  BY <2>1, <2>2 DEF SaidOf
<1>8. PartsAgree("pv_current", current, r, fields)
  BY <1>6, <1>7 DEF PartsAgree
<1>9. PartsAgree("pv_voltage", voltage, r, fields)
  BY <1>6, <1>7 DEF PartsAgree
<1>10. PartsAgree("pv_power", powers, r, fields)
  <2>1. ASSUME NEW p \in DOMAIN powers, <<"pv_power", p>> \in fields
        PROVE  powers[p] = SaidOf(r, <<"pv_power", p>>)
    <3>1. p \in 1 .. StringCount(c) /\ p <= modules
      BY <1>7, <2>1
    <3>2. p > 0 /\ powers[p] = power(p)
      BY <3>1
    <3> QED  BY <1>6, <1>7, <2>1, <3>1, <3>2
  <2> QED  BY <2>1 DEF PartsAgree
<1>11. ~unusable
  <2>1. IsScaleFactor(b[0]) /\ IsScaleFactor(b[1]) /\ IsScaleFactor(b[2])
    BY <1>1, ScaleFactors DEF IsScaleFactor
  <2>2. ~(length < 8)
    OBVIOUS
  <2> HIDE DEF length
  <2> QED  BY <2>1, <2>2
<1>12. 0 \in DOMAIN powers
  OBVIOUS
<1> HIDE DEF current, voltage, powers, unusable, m
<1>13. m = PvFieldsOf(current, voltage, powers)
  BY <1>4, <1>11
<1>14. Agrees(m, r, fields)
  BY <1>8, <1>9, <1>10, <1>13, PvPartsAgree
<1>15. <<"pv_power", 0>> \in DOMAIN m
  <2>1. HasParts(m, "pv_power", powers)
    BY <1>13, PvParts
  <2> QED  BY <1>12, <2>1 DEF HasParts
<1>16. Agrees(m, r, fields) /\ m # <<>>
  BY <1>14, <1>15
<1> QED  BY <1>16 DEF m, b, length

\* The strings whose request is answered.  They are believed if one of them has power.
ToldStrings(c, answered) == {i \in 1 .. StringCount(c) : ChannelRequests[i] \in answered}
Believed(c, r, answered) == \E i \in ToldStrings(c, answered) : r[<<"pv_power", i>>] > 0

LEMMA ChannelsAgree ==
  ASSUME NEW r, Reading(r), StringsTell(r), NEW b, NEW c, c.pv_string_count \in Int,
         NEW answered, Believed(c, r, answered), NEW fields,
         \A f \in fields : f[2] \in ToldStrings(c, answered)
  PROVE  Agrees(LegacyPv(b, ChannelAnswers(r, answered), c), r, fields)
<1> DEFINE n == StringCount(c)
           told == ToldStrings(c, answered)
           channels == ChannelAnswers(r, answered)
           dc == LegacyDc(b)
           own(i, k) == I16(Channel(channels, n, i, k))
           share == [i \in Strings |-> IF i <= n THEN SplitEvenly(dc.power, n)[i] ELSE 0]
           current == [i \in Strings |-> Shown(channels, n, i, 100 * own(i, 2),
                                              Positive(Trunc(dc.current, n)))]
           voltage == [i \in Strings |-> Shown(channels, n, i, 100 * own(i, 1), dc.voltage)]
           power == [i \in 0 .. 4 |->
                       IF i = 0 THEN dc.total
                       ELSE Shown(channels, n, i, own(i, 3), Positive(share[i]))]
<1>1. n \in 1 .. 4
  BY StringCountType
<1>2. ASSUME NEW p \in told
      PROVE  /\ 100 * own(p, 1) = r[<<"pv_voltage", p>>]
             /\ 100 * own(p, 2) = r[<<"pv_current", p>>]
             /\ own(p, 3) = r[<<"pv_power", p>>]
             /\ p \in Strings
  <2>1. p \in Strings /\ p <= n /\ ChannelRequests[p] \in answered
    BY <1>1 DEF Strings, ToldStrings
  <2>2. /\ r[<<"pv_current", p>>] \in Int /\ r[<<"pv_voltage", p>>] \in Int
        /\ r[<<"pv_power", p>>] \in Int
    BY <2>1, PvKeys DEF Reading, Strings
  <2>3. /\ Tells("i16", 100, r[<<"pv_current", p>>])
        /\ Tells("i16", 100, r[<<"pv_voltage", p>>])
        /\ Tells("i16", 1, r[<<"pv_power", p>>])
    BY <2>1, Zenon DEF StringsTell
  <2>4. 1 \in UnitsTold /\ 100 \in UnitsTold
    BY DEF UnitsTold
  <2>5. /\ 100 * I16(LowWord(r[<<"pv_voltage", p>>] \div 100)) = r[<<"pv_voltage", p>>]
        /\ 100 * I16(LowWord(r[<<"pv_current", p>>] \div 100)) = r[<<"pv_current", p>>]
        /\ 1 * I16(LowWord(r[<<"pv_power", p>>] \div 1)) = r[<<"pv_power", p>>]
    <3>1. \A unit \in UnitsTold, v \in Int :
            Tells("i16", unit, v) => unit * I16(LowWord(v \div unit)) = v
      BY Told16, Zenon
    <3> QED  BY <2>2, <2>3, <2>4, <3>1
  <2>6. I16(LowWord(r[<<"pv_power", p>>])) = r[<<"pv_power", p>>]
    <3>1. PICK v \in Int : v = r[<<"pv_power", p>>]
      BY <2>2
    <3>2. v \div 1 = v /\ I16(LowWord(v)) \in Int
      BY I16Int, WordInt
    <3>3. 1 * I16(LowWord(v \div 1)) = v
      BY <2>5, <3>1, Zenon
    <3>4. I16(LowWord(v)) = v
      BY <3>2, <3>3
    <3> QED  BY <3>1, <3>4, Zenon
  <2>7. /\ Channel(channels, n, p, 1) = LowWord(r[<<"pv_voltage", p>>] \div 100)
        /\ Channel(channels, n, p, 2) = LowWord(r[<<"pv_current", p>>] \div 100)
        /\ Channel(channels, n, p, 3) = LowWord(r[<<"pv_power", p>>])
    <3>1. p \in DOMAIN channels /\ channels[p] = LegacyChannels(r)[p]
      BY <2>1, Zenon DEF ChannelAnswers
    <3>2. /\ LegacyChannels(r)[p][1] = LowWord(r[<<"pv_voltage", p>>] \div 100)
          /\ LegacyChannels(r)[p][2] = LowWord(r[<<"pv_current", p>>] \div 100)
          /\ LegacyChannels(r)[p][3] = LowWord(r[<<"pv_power", p>>])
      BY <2>1 DEF LegacyChannels
    <3> HIDE DEF channels, n
    <3> QED  BY <2>1, <3>1, <3>2 DEF Channel
  <2> HIDE DEF channels, n
  <2>8. /\ 100 * own(p, 1) = r[<<"pv_voltage", p>>]
        /\ 100 * own(p, 2) = r[<<"pv_current", p>>]
        /\ own(p, 3) = r[<<"pv_power", p>>]
    BY <2>5, <2>6, <2>7, Zenon
  <2> QED  BY <2>1, <2>8
<1>3. \A i, x, y : Shown(channels, n, i, x, y) = x
  <2>1. \E j \in 1 .. n : own(j, 3) > 0
    <3>1. PICK j \in told : r[<<"pv_power", j>>] > 0
      BY DEF Believed
    <3>2. j \in 1 .. n /\ own(j, 3) = r[<<"pv_power", j>>]
      BY <1>2, <3>1 DEF ToldStrings
    <3> QED  BY <3>1, <3>2
  <2> QED  BY <2>1, Zenon DEF Shown
<1>4. LegacyPv(b, channels, c) = PvFieldsOf(current, voltage, power)
  BY Zenon DEF LegacyPv
<1> HIDE DEF own, dc, share
<1>5. ASSUME NEW p, NEW name \in {"pv_current", "pv_voltage", "pv_power"}, <<name, p>> \in fields
      PROVE  p \in told /\ SaidOf(r, <<name, p>>) = r[<<name, p>>]
  <2>1. p \in told /\ p \in 1 .. n
    BY <1>5 DEF ToldStrings
  <2>2. <<name, p>> \in DOMAIN r
    BY <1>1, <2>1, PvKeys DEF Reading
  <2> QED  BY <2>1, <2>2 DEF SaidOf
<1>6. ASSUME NEW p \in told
      PROVE  /\ current[p] = r[<<"pv_current", p>>] /\ voltage[p] = r[<<"pv_voltage", p>>]
             /\ power[p] = r[<<"pv_power", p>>]
  <2>1. p \in Strings /\ p \in 0 .. 4 /\ p # 0
    BY <1>1 DEF Strings, ToldStrings
  <2>2. current[p] = 100 * own(p, 2) /\ voltage[p] = 100 * own(p, 1) /\ power[p] = own(p, 3)
    BY <1>3, <2>1
  <2> QED  BY <1>2, <2>2
<1> HIDE DEF n, told, channels, current, voltage, power
<1>8. /\ PartsAgree("pv_current", current, r, fields)
      /\ PartsAgree("pv_voltage", voltage, r, fields)
      /\ PartsAgree("pv_power", power, r, fields)
  BY <1>5, <1>6 DEF PartsAgree
<1>9. Agrees(LegacyPv(b, channels, c), r, fields)
  BY <1>4, <1>8, PvPartsAgree
<1> QED  BY <1>9 DEF channels

\* The strings that are read, of either source.
LEMMA PvAgrees ==
  ASSUME NEW c, c.pv_string_count \in Int, NEW modules \in Nat, NEW r, Reading(r),
         StringsTell(r), NEW answered, NEW fields,
         IF modules > 0 /\ "160" \in answered /\ c.sunspec_model_160_enabled
           THEN \A f \in fields : f[2] \in 1 .. StringCount(c) /\ f[2] <= modules
           ELSE \A f \in fields : /\ f[2] \in ToldStrings(c, answered)
                                 /\ Believed(c, r, answered)
  PROVE  Agrees(PvValues(c, modules, r, answered), r, fields)
<1> DEFINE b == DcAnswers(r, answered)
           channels == ChannelAnswers(r, answered)
           unread == modules = 0 \/ "160" \notin answered \/ ~c.sunspec_model_160_enabled
           block == Model160(Registers160(r, modules), 8 + 20 * modules, c)
           legacy == LegacyPv(b, channels, c)
           strings == IF unread THEN <<>> ELSE block
<1>1. PvValues(c, modules, r, answered) = IF strings = <<>> THEN legacy ELSE strings
  BY Zenon DEF PvValues
<1> HIDE DEF b
<1>2. CASE ~unread
  <2>1. \A f \in fields : f[2] \in 1 .. StringCount(c) /\ f[2] <= modules
    BY <1>2
  <2> HIDE DEF unread
  <2>2. Agrees(block, r, fields) /\ block # <<>>
    BY <2>1, Model160Agrees, Zenon
  <2> HIDE DEF block
  <2> QED  BY <1>1, <1>2, <2>2
<1>3. CASE unread
  <2>1. PvValues(c, modules, r, answered) = legacy
    BY <1>1, <1>3
  <2>2. CASE fields = {}
    BY <2>2 DEF Agrees
  <2>3. CASE fields # {}
    <3>1. Believed(c, r, answered) /\ \A f \in fields : f[2] \in ToldStrings(c, answered)
      BY <1>3, <2>3
    <3> QED  BY <2>1, <3>1, ChannelsAgree
  <2> QED  BY <2>2, <2>3
<1> QED  BY <1>2, <1>3

LEMMA PvNamesOnly ==
  ASSUME NEW current, NEW voltage, NEW power, NEW f \in DOMAIN PvFieldsOf(current, voltage, power)
  PROVE  f[1] \in {"pv_current", "pv_voltage", "pv_power"}
<1> DEFINE maps == {Each("pv_current", current), Each("pv_voltage", voltage),
                    Each("pv_power", power)}
<1>1. \A m \in maps : \A k \in DOMAIN m : k[1] \in {"pv_current", "pv_voltage", "pv_power"}
  BY DEF Each
<1>2. PvFieldsOf(current, voltage, power) = Joined(maps)
  BY DEF PvFieldsOf
<1> HIDE DEF maps
<1> QED  BY <1>1, <1>2 DEF Joined

\* An inverter that can be described; fields that it measures by itself; and fields of strings
\* that are read.
Describes(inverter) ==
  /\ inverter.model \in {"none", "101", "103", "111", "113"}
  /\ inverter.scale \in 0 .. 6
  /\ inverter.modules \in Nat
  /\ inverter.model \in {"111", "113"} => inverter.layout \in Int \X Int \X Int
MeasuresOwn(inverter, r, own) ==
  /\ own \subseteq InverterFields
  /\ Misses(own, MisreadNames(inverter.model))
  /\ inverter.model \in {"111", "113"} =>
       \A name \in Powers : \A p \in 1 .. 3 : <<name, p>> \notin own
  /\ inverter.model \in {"111", "113"} => own \subseteq DOMAIN r
ReadsStrings(c, inverter, r, answered, strings) ==
  /\ strings \subseteq PvFields
  /\ IF inverter.modules > 0 /\ "160" \in answered /\ c.sunspec_model_160_enabled
       THEN \A f \in strings : f[2] \in 1 .. StringCount(c) /\ f[2] <= inverter.modules
       ELSE \A f \in strings : /\ f[2] \in ToldStrings(c, answered)
                               /\ Believed(c, r, answered)

\* What the client delivers of the inverter and of the strings.  Invented strings hide the
\* measured ones, and nothing else.
LEMMA FroniusAgrees ==
  ASSUME NEW c, c.pv_string_count \in Int, NEW inverter, Describes(inverter),
         NEW r, Reading(r), InverterTells(inverter, r), NEW answered, NEW short \in BOOLEAN,
         NEW own, MeasuresOwn(inverter, r, own),
         NEW strings, ReadsStrings(c, inverter, r, answered, strings)
  PROVE  LET m == WithSyntheticPv(c, FroniusValues(c, inverter, r, answered, short))
         IN  /\ Agrees(m, r, own)
             /\ ~c.synthetic_pv_enabled => Agrees(m, r, strings)
             /\ inverter.model = "none" => InverterFields \cap DOMAIN m = {}
<1> DEFINE ac == IF "ac" \in answered THEN AcValues(inverter, r, short) ELSE <<>>
           pv == PvValues(c, inverter.modules, r, answered)
           data == FroniusValues(c, inverter, r, answered, short)
           m == WithSyntheticPv(c, data)
<1>1. data = ac ++ pv
  BY DEF FroniusValues
<1>2. StringsTell(r)
  BY DEF InverterTells
<1>3. Agrees(ac, r, own)
  <2>1. Agrees(AcValues(inverter, r, short), r, own)
    BY AcAgrees DEF Describes, MeasuresOwn
  <2> QED  BY <2>1, EmptyAgrees
<1>4. Agrees(pv, r, strings)
  BY <1>2, PvAgrees DEF Describes, ReadsStrings
<1>5. DOMAIN ac \subseteq InverterFields /\ DOMAIN pv \subseteq PvFields
  <2>1. Payload(AcValues(inverter, r, short), InverterFields)
    BY AcPayload DEF Describes
  <2>2. Payload(pv, PvFields)
    BY StringsPayload DEF Describes
  <2> HIDE DEF pv
  <2> QED  BY <2>1, <2>2, EmptyPayload DEF Payload
<1>6. \A d, fields : fields \cap DOMAIN d = {} => Agrees(d, r, fields)
  BY DEF Agrees
<1>7. \A f \in InverterFields : f[1] \notin {"pv_current", "pv_voltage", "pv_power"}
  BY DEF InverterFields
<1>8. \A f \in PvFields : f[1] \in {"pv_current", "pv_voltage", "pv_power"}
  BY DEF PvFields
<1>9. inverter.model = "none" => DOMAIN ac = {}
  BY DEF AcValues
<1> HIDE DEF ac, pv, data, m
<1>10. inverter.model = "none" => InverterFields \cap DOMAIN data = {}
  <2>1. DOMAIN data = (DOMAIN ac) \cup (DOMAIN pv)
    BY <1>1 DEF ++
  <2> QED  BY <1>5, <1>7, <1>8, <1>9, <2>1
<1>11. Agrees(ac, r, strings) /\ Agrees(pv, r, own)
  <2>1. strings \cap DOMAIN ac = {} /\ own \cap DOMAIN pv = {}
    BY <1>5, <1>7, <1>8 DEF MeasuresOwn, ReadsStrings
  <2> QED  BY <1>6, <2>1
<1>12. Agrees(data, r, own) /\ Agrees(data, r, strings)
  BY <1>1, <1>3, <1>4, <1>11, OverlayAgrees
<1>13. CASE ~c.synthetic_pv_enabled
  <2>1. m = data
    BY <1>13 DEF WithSyntheticPv, m
  <2> QED  BY <1>12, <1>10, <2>1 DEF m, data
<1>14. CASE c.synthetic_pv_enabled
  <2>1. \E x, y, z : m = PvFieldsOf(x, y, z) ++ data
    BY <1>14, ZenonT(60) DEF WithSyntheticPv, m
  <2>2. PICK x, y, z : m = PvFieldsOf(x, y, z) ++ data
    BY <2>1
  <2>3. own \cap DOMAIN PvFieldsOf(x, y, z) = {}
    BY <1>7, PvNamesOnly DEF MeasuresOwn
  <2>4. Agrees(m, r, own)
    BY <1>6, <1>12, <2>2, <2>3, OverlayAgrees
  <2>5. inverter.model = "none" => InverterFields \cap DOMAIN m = {}
    <3>1. DOMAIN m = (DOMAIN PvFieldsOf(x, y, z)) \cup (DOMAIN data)
      BY <2>2 DEF ++
    <3>2. InverterFields \cap DOMAIN PvFieldsOf(x, y, z) = {}
      BY <1>7, PvNamesOnly
    <3> QED  BY <1>10, <3>1, <3>2
  <2> QED  BY <1>14, <2>4, <2>5 DEF m, data
<1> QED  BY <1>13, <1>14

================================================================================
