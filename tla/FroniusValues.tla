------------------------------ MODULE FroniusValues ------------------------------
(****************************************************************************)
(* fronius_client.py: what FroniusClient makes of the registers it reads.   *)
(* Which registers it reads, and when, is FroniusClient.tla.                *)
(*                                                                          *)
(* A block of registers is a function from the index used in the code to a  *)
(* word.  The float models are a function from an index to the float that   *)
(* begins there, in thousandths, without the indices of those that are not  *)
(* finite, and the few words that the code also takes for integers.         *)
(****************************************************************************)
EXTENDS RegisterMap

MinOf(a, b) == IF a < b THEN a ELSE b

\* 10^k for the exponents that occur.
TenTo(k) ==
  <<1, 10, 100, 1000, 10000, 100000, 1000000, 10000000, 100000000, 1000000000>>[k + 1]

------------------------------------------------------------------------------
(* The inverter.  A reading maps inverter and PV fields to what was measured, *)
(* powers as they are and the others in thousandths; it lacks the fields      *)
(* that the inverter does not implement, for which registers hold a sentinel. *)

SignedWord(r, name, part, unit) ==
  IF <<name, part>> \in DOMAIN r THEN LowWord(r[<<name, part>>] \div unit) ELSE 32768
UnsignedWord(r, name, part, unit) ==
  IF <<name, part>> \in DOMAIN r THEN LowWord(r[<<name, part>>] \div unit) ELSE 65535

\* 31, 33, 32, 35
IntegerTemperatures(r) ==
  LET word(name) == SignedWord(r, name, 0, 100)
  IN  Joined({At(31, word("temperature_air")), At(33, word("temperature_module")),
              At(32, word("temperature_radiator")), At(35, LowWord(-1))})

\* The lifetime energy in watt-hours, a reading's only field that no client reads.
Energy == <<"inverter_energy", 0>>

\* Models 101 and 103 of SunSpec, from the word after their length: A, V, W, Hz, VA, VAr,
\* PF, WH, DCA, DCV, DCW and the temperatures, each with its scale factor behind it; PF is
\* a percentage.  Powers have no phases and are told in units of 10^scale.  A model 101 has
\* the words of the other phases, and neither tells the voltages between phases (5-7).
IntegerRegisters(r, phases, scale) ==
  LET measured(name, parts) == ({name} \X parts) \subseteq DOMAIN r
      current == [p \in Phases |-> IF p \in phases THEN UnsignedWord(r, "inverter_current", p, 10)
                                  ELSE 65535]
      voltage(p) == IF p \in phases THEN UnsignedWord(r, "inverter_voltage", p, 100) ELSE 65535
      share(p) == IF p \in phases THEN r[<<"inverter_current", p>>] ELSE 0
      sum == IF ~measured("inverter_current", phases) THEN 65535
             ELSE LowWord((share(1) + share(2) + share(3)) \div 10)
      factor == IF ~measured("inverter_power_factor", {0}) THEN 32768
                ELSE LowWord(10 * r[<<"inverter_power_factor", 0>>])
      energy == IF Energy \in DOMAIN r THEN r[Energy] ELSE 0
  IN  Joined({At(0, sum), current, At(4, LowWord(-2)),
              [k \in 5 .. 7 |-> 65535], [k \in 8 .. 10 |-> voltage(k - 7)], At(11, LowWord(-1)),
              At(12, SignedWord(r, "inverter_power", 0, TenTo(scale))),
              At(14, UnsignedWord(r, "inverter_frequency", 0, 10)), At(15, LowWord(-2)),
              At(16, SignedWord(r, "inverter_apparent_power", 0, TenTo(scale))),
              At(18, SignedWord(r, "inverter_reactive_power", 0, TenTo(scale))),
              [k \in {13, 17, 19} |-> scale],
              At(20, factor), At(21, LowWord(-2)),
              At(22, HighWord(energy)), At(23, LowWord(energy)), At(24, 0),
              At(25, LowWord(r[<<"pv_current", 1>>] \div 10)), At(26, LowWord(-2)),
              At(27, LowWord(r[<<"pv_voltage", 1>>] \div 100)), At(28, LowWord(-1)),
              At(29, LowWord(r[<<"pv_power", 0>>])), At(30, 0),
              At(34, 32768), IntegerTemperatures(r)})

\* The float models, with the temperatures (air, module, radiator) at the indices of layout.
\* In SunSpec's, WH, DCA, DCV and DCW come before them; what other firmware has there is not
\* known, and nothing is taken to be there.
SunSpecLayout == <<38, 42, 40>>
Floats(r, layout) ==
  LET Told(first, name, parts, unit) ==
        [k \in {first + 2 * p : p \in {q \in parts : <<name, q>> \in DOMAIN r}} |->
           unit * r[<<name, (k - first) \div 2>>]]
      others == Joined({Told(30, "inverter_energy", {0}, 1000),
                        At(32, r[<<"pv_current", 1>>]), At(34, r[<<"pv_voltage", 1>>]),
                        At(36, 1000 * r[<<"pv_power", 0>>])})
  IN  Joined({Told(0, "inverter_current", Phases, 1),
              Told(12, "inverter_voltage", Phases, 1),
              Told(20, "inverter_power", {0}, 1000),
              Told(22, "inverter_frequency", {0}, 1),
              Told(24, "inverter_apparent_power", {0}, 1000),
              Told(26, "inverter_reactive_power", {0}, 1000),
              Told(28, "inverter_power_factor", {0}, 100),
              Told(layout[1], "temperature_air", {0}, 1),
              Told(layout[2], "temperature_module", {0}, 1),
              Told(layout[3], "temperature_radiator", {0}, 1),
              IF layout = SunSpecLayout THEN others ELSE <<>>})

\* Current, voltage and power of a string are told in 0.01 A, 0.1 V and 1 W.
ModuleIndices(modules) == {8 + 20 * (i - 1) + j : i \in 1 .. modules, j \in 9 .. 11}
Registers160(r, modules) ==
  LET quantity == <<"pv_current", "pv_voltage", "pv_power">>
      unit == <<10, 100, 1>>
  IN  Joined({At(0, LowWord(-2)), At(1, LowWord(-1)), At(2, 0), At(6, modules),
              [k \in ModuleIndices(modules) |->
                 LET j == ((k - 8) % 20) - 8
                 IN  UnsignedWord(r, quantity[j], (k - 8) \div 20 + 1, unit[j])]})

\* The DC registers hold the first string's current and voltage and the power of all.
LegacyRegisters(r) ==
  Joined({At(40083, SignedWord(r, "pv_power", 0, 1)), At(40084, 0),
          At(40096, LowWord(r[<<"pv_current", 1>>] \div 10)), At(40099, LowWord(-2)),
          At(40097, LowWord(r[<<"pv_voltage", 1>>] \div 100)), At(40100, LowWord(-1)),
          At(40098, SignedWord(r, "pv_power", 0, 1)), At(40101, 0)})

LegacyChannels(r) ==
  [i \in Strings |->
     <<LowWord(r[<<"pv_voltage", i>>] \div 100), LowWord(r[<<"pv_current", i>>] \div 100),
       LowWord(r[<<"pv_power", i>>])>>]

\* What requests for the legacy registers return: the DC registers in one block or, without
\* it, a value with its scale factor at a time, and each string by itself.
DcRequests ==
  [pv_power |-> {40083, 40084}, dc_current |-> {40096, 40099},
   dc_voltage |-> {40097, 40100}, dc_power |-> {40098, 40101}]
ChannelRequests == <<"channel1", "channel2", "channel3", "channel4">>

DcAnswers(r, answered) ==
  LET read == UNION {DcRequests[q] : q \in {p \in DOMAIN DcRequests :
                                              {p, "block"} \cap answered # {}}}
  IN  [a \in read |-> LegacyRegisters(r)[a]]
ChannelAnswers(r, answered) ==
  [i \in {j \in Strings : ChannelRequests[j] \in answered} |-> LegacyChannels(r)[i]]

------------------------------------------------------------------------------
(* Scaling *)

\* raw * 10^sf in thousandths.
TimesTenTo(raw, sf) ==
  IF sf >= -3 THEN raw * TenTo(sf + 3) ELSE Trunc(raw, TenTo(-3 - sf))

\* SUNSPEC_MIN_SCALE_FACTOR, SUNSPEC_MAX_SCALE_FACTOR; -32768 is out of range too.
IsScaleFactor(word) == I16(word) \in -6 .. 6

\* _read_scaled_from_model_i16, _read_scaled_from_model_u16: zero for what is not
\* implemented or has no scale.
ScaledI16(b, v, sf) ==
  IF b[v] = 32768 \/ ~IsScaleFactor(b[sf]) THEN 0 ELSE TimesTenTo(I16(b[v]), I16(b[sf]))
ScaledU16NoSentinel(b, v, sf) ==
  IF ~IsScaleFactor(b[sf]) THEN 0 ELSE TimesTenTo(b[v], I16(b[sf]))
ScaledU16(b, v, sf) ==
  IF b[v] = 65535 \/ ~IsScaleFactor(b[sf]) THEN 0 ELSE TimesTenTo(b[v], I16(b[sf]))

\* _read_scaled_i16, _read_scaled_i16_from_block: the legacy registers know no
\* sentinel; zero where a request failed.
LegacyI16(b, v, sf) ==
  IF {v, sf} \subseteq DOMAIN b /\ IsScaleFactor(b[sf])
    THEN TimesTenTo(I16(b[v]), I16(b[sf])) ELSE 0

Watts(thousandths) == Trunc(thousandths, 1000)

------------------------------------------------------------------------------
(* Totals and their parts *)

\* Equal parts, the remainder with the last.
SplitEvenly(total, n) ==
  [i \in 1 .. n |-> Trunc(total, n) + IF i = n THEN total - n * Trunc(total, n) ELSE 0]

\* _split_total_by_weights: the third part takes what the others leave.
SplitRounded(total, w, short) ==
  LET sum == w[1] + w[2] + w[3]
      part(i) == Cut(total * w[i], sum, short)
  IN  IF sum = 0 THEN SplitEvenly(total, 3) ELSE <<part(1), part(2), part(3)>>
SplitByWeights(total, w, short) ==
  LET sum == w[1] + w[2] + w[3]
      part(i) == Cut(total * w[i], sum, short)
  IN  IF sum = 0 THEN SplitEvenly(total, 3)
      ELSE <<part(1), part(2), total - part(1) - part(2)>>

\* _derive_power_factor, _clamp_power_factor
PowerFactor(active, apparent, candidate) ==
  LET ClampPowerFactor(x) == Within(-1000, 1000, x)
  IN  IF candidate # 0 THEN ClampPowerFactor(candidate)
      ELSE IF apparent = 0 THEN 1000
      ELSE IF apparent > 0 THEN ClampPowerFactor(Trunc(1000 * active, apparent))
      ELSE ClampPowerFactor(Trunc(-1000 * active, -apparent))

------------------------------------------------------------------------------
(* Temperatures of the float models *)

\* _read_f32_from_model
Float(f, index) == IF index \in DOMAIN f THEN f[index] ELSE 0

IsPlausible(x) == -40000 <= x /\ x <= 180000
IsEffectiveZero(x) == -50 < x /\ x < 50

\* _normalize_temperature_c: the first decimal shift that gives a temperature; None,
\* which counts and is filled in like zero, is zero here.
Normalized(x) ==
  LET shifts == {k \in 0 .. 3 : /\ IsPlausible(Trunc(x, TenTo(k)))
                                /\ ~IsEffectiveZero(Trunc(x, TenTo(k)))}
  IN  IF shifts = {} THEN 0
      ELSE Trunc(x, TenTo(CHOOSE k \in shifts : \A j \in shifts : k <= j))

Sensors(temps) == {i \in DOMAIN temps : ~IsEffectiveZero(temps[i])}
SensorCount(temps) ==
  LET has(i) == IF i \in Sensors(temps) THEN 1 ELSE 0 IN has(1) + has(2) + has(3)

\* _impute_missing_temperatures
ImputeMissing(temps) ==
  LET found(i) == IF i \in Sensors(temps) THEN temps[i] ELSE 0
      mean == Trunc(found(1) + found(2) + found(3), SensorCount(temps))
  IN  IF Sensors(temps) = {} THEN temps
      ELSE [i \in 1 .. 3 |-> IF i \in Sensors(temps) THEN temps[i] ELSE mean]

\* Where air, module and radiator may be found, in the order they are tried.
Triplets == <<<<38, 42, 40>>, <<30, 34, 32>>, <<32, 36, 34>>, <<34, 38, 36>>>>

\* The triplet with most sensors, the earlier of two.
BestTriplet(f) ==
  LET temps(k) == [i \in 1 .. 3 |-> Normalized(Float(f, Triplets[k][i]))]
      best == CHOOSE k \in 1 .. 4 :
                \A j \in 1 .. 4 :
                  \/ SensorCount(temps(k)) > SensorCount(temps(j))
                  \/ SensorCount(temps(k)) = SensorCount(temps(j)) /\ k <= j
  IN  temps(best)

\* _read_model_temperatures: with fewer than two sensors the words are tried as the
\* integers of model 103.
ModelTemperatures(f, words) ==
  LET scaled == [i \in 1 .. 3 |-> Normalized(ScaledI16(words, <<31, 33, 32>>[i], 35))]
  IN  ImputeMissing(IF SensorCount(BestTriplet(f)) < 2 /\ SensorCount(scaled) > 0
                      THEN scaled ELSE BestTriplet(f))

Temperatures(temps) ==
  Joined({Field("temperature_air", temps[1]), Field("temperature_module", temps[2]),
          Field("temperature_radiator", temps[3])})

------------------------------------------------------------------------------
(* The inverter models *)

\* The totals of the float models, and the weights by which the phases share them: current
\* times voltage.
FloatTotal(f, name) ==
  Watts(Float(f, CASE name = "inverter_power" -> 20
                   [] name = "inverter_apparent_power" -> 24
                   [] name = "inverter_reactive_power" -> 26))
PhaseWeights(f) == [p \in Phases |-> Positive(Float(f, 2 * p) * Float(f, 12 + 2 * p))]

\* Three phases, floats.
Model113(f, words, short) ==
  LET total(name) == FloatTotal(f, name)
      Shared(name) ==
        Each(name,
             WithTotal(total(name), SplitByWeights(total(name), PhaseWeights(f), short)))
  IN  Joined({Shared("inverter_power"), Shared("inverter_apparent_power"),
              Shared("inverter_reactive_power"),
              Each("inverter_current", [p \in Phases |-> Float(f, 2 * p)]),
              Each("inverter_voltage", [p \in Phases |-> Float(f, 12 + 2 * p)]),
              Field("inverter_frequency", Float(f, 22)),
              Field("inverter_power_factor",
                    PowerFactor(total("inverter_power"), total("inverter_apparent_power"),
                                Float(f, 28))),
              Temperatures(ModelTemperatures(f, words))})

\* One phase, floats.
Model111(f, words) ==
  LET both(x) == [p \in 0 .. 1 |-> x]
      active == FloatTotal(f, "inverter_power")
      apparent == FloatTotal(f, "inverter_apparent_power")
      reactive == FloatTotal(f, "inverter_reactive_power")
  IN  Joined({Each("inverter_power", both(active)),
              Each("inverter_apparent_power", both(apparent)),
              Each("inverter_reactive_power", both(reactive)),
              Each("inverter_current", At(1, Float(f, 2))),
              Each("inverter_voltage", At(1, Float(f, 14))),
              Field("inverter_frequency", Float(f, 22)),
              Field("inverter_power_factor", PowerFactor(active, apparent, Float(f, 28))),
              Temperatures(ModelTemperatures(f, words))})

ScaledTemperatures(b) ==
  Temperatures(<<ScaledI16(b, 31, 35), ScaledI16(b, 33, 35), ScaledI16(b, 32, 35)>>)

\* Three phases, scaled integers.  The voltages are looked for where SunSpec has those
\* between phases, and the powers where it has voltages, scale factors and energies.
Model103(b) ==
  LET active == [p \in 0 .. 3 |-> Watts(ScaledI16(b, 9 + p, 13))]
      apparent == [p \in 0 .. 3 |-> Watts(ScaledU16(b, 16 + p, 20))]
  IN  Joined({Each("inverter_power", active), Each("inverter_apparent_power", apparent),
              Each("inverter_reactive_power",
                   [p \in 0 .. 3 |-> Watts(ScaledI16(b, 21 + p, 25))]),
              Each("inverter_current", [p \in Phases |-> ScaledU16(b, p, 4)]),
              Each("inverter_voltage", [p \in Phases |-> ScaledU16(b, 4 + p, 8)]),
              Field("inverter_frequency", ScaledU16(b, 14, 15)),
              Field("inverter_power_factor",
                    PowerFactor(active[0], apparent[0], ScaledI16(b, 20, 21))),
              ScaledTemperatures(b)})

\* One phase, scaled integers; the model is taken to be packed, without words for what a
\* single-phase inverter lacks.
Model101(b) ==
  LET both(x) == [p \in 0 .. 1 |-> x]
      active == Watts(ScaledI16(b, 4, 5))
      apparent == Watts(ScaledU16(b, 8, 9))
  IN  Joined({Each("inverter_power", both(active)),
              Each("inverter_apparent_power", both(apparent)),
              Each("inverter_reactive_power", both(Watts(ScaledI16(b, 10, 11)))),
              Each("inverter_current", At(1, ScaledU16(b, 0, 1))),
              Each("inverter_voltage", At(1, ScaledU16(b, 2, 3))),
              Field("inverter_frequency", ScaledU16(b, 6, 7)),
              Field("inverter_power_factor",
                    PowerFactor(active, apparent, ScaledI16(b, 20, 21))),
              ScaledTemperatures(b)})

------------------------------------------------------------------------------
(* The PV strings *)

\* _effective_string_count
StringCount(c) == Within(1, 4, c.pv_string_count)

PvFieldsOf(current, voltage, power) ==
  Joined({Each("pv_current", current), Each("pv_voltage", voltage),
          Each("pv_power", power)})

\* The modules that are read of a block of model 160 of the given length, and a value of
\* a string: zero without its module or its sensor.
ModulesRead(b, length, c) ==
  MinOf(MinOf(b[6], Positive((length - 8) \div 20)), StringCount(c))
ModuleValue(b, modules, i, k, sf) ==
  LET raw == b[8 + 20 * (i - 1) + k]
  IN  IF i > modules \/ raw = 65535 THEN 0 ELSE TimesTenTo(raw, I16(b[sf]))

\* _read_sunspec_model_160
Model160(b, length, c) ==
  LET value(i, k, sf) == ModuleValue(b, ModulesRead(b, length, c), i, k, sf)
      power(i) == Watts(value(i, 11, 2))
  IN  IF length < 8 \/ ~(\A k \in 0 .. 2 : IsScaleFactor(b[k])) THEN <<>>
      ELSE PvFieldsOf([i \in Strings |-> value(i, 9, 0)],
                      [i \in Strings |-> value(i, 10, 1)],
                      [i \in 0 .. 4 |-> IF i > 0 THEN power(i)
                                        ELSE power(1) + power(2) + power(3) + power(4)])

\* What the DC registers say of all strings.
LegacyDc(b) ==
  [total |-> Watts(LegacyI16(b, 40083, 40084)), power |-> Watts(LegacyI16(b, 40098, 40101)),
   current |-> LegacyI16(b, 40096, 40099), voltage |-> LegacyI16(b, 40097, 40100)]

\* A register of one of the n strings, and what is shown of a string: without power at any
\* of them they share what the DC registers say.
Channel(channels, n, i, k) ==
  IF i <= n /\ i \in DOMAIN channels THEN channels[i][k] ELSE 0
ShownByItself(channels, n, i, own, shared) ==
  IF I16(Channel(channels, n, i, 3)) > 0 THEN own ELSE IF i <= n THEN shared ELSE 0
Shown(channels, n, i, own, shared) ==
  IF \E j \in 1 .. n : I16(Channel(channels, n, j, 3)) > 0 THEN own
  ELSE IF i <= n THEN shared ELSE 0

\* The legacy registers and those of the strings.
LegacyPv(b, channels, c) ==
  LET n == StringCount(c)
      dc == LegacyDc(b)
      own(i, k) == I16(Channel(channels, n, i, k))
      share == [i \in Strings |-> IF i <= n THEN SplitEvenly(dc.power, n)[i] ELSE 0]
  IN  PvFieldsOf([i \in Strings |-> Shown(channels, n, i, 100 * own(i, 2),
                                         Positive(Trunc(dc.current, n)))],
                 [i \in Strings |-> Shown(channels, n, i, 100 * own(i, 1), dc.voltage)],
                 [i \in 0 .. 4 |->
                    IF i = 0 THEN dc.total
                    ELSE Shown(channels, n, i, own(i, 3), Positive(share[i]))])

\* _read_sunspec_inverter_ac_power, when it is answered.  The words of a float model matter
\* only where its floats tell less than two temperatures.
AcValues(inverter, r, short) ==
  LET floats == Floats(r, inverter.layout)
      words == IntegerTemperatures(r)
  IN  CASE inverter.model = "none" -> <<>>
        [] inverter.model = "113" -> Model113(floats, words, short)
        [] inverter.model = "103" -> Model103(IntegerRegisters(r, Phases, inverter.scale))
        [] inverter.model = "111" -> Model111(floats, words)
        [] inverter.model = "101" -> Model101(IntegerRegisters(r, {1}, inverter.scale))

\* The strings: of model 160 if it gives any, or else of the legacy registers, where
\* zeros stand for what is not answered.
PvValues(c, modules, r, answered) ==
  LET strings == IF modules = 0 \/ "160" \notin answered \/ ~c.sunspec_model_160_enabled
                   THEN <<>> ELSE Model160(Registers160(r, modules), 8 + 20 * modules, c)
  IN  IF strings = <<>>
        THEN LegacyPv(DcAnswers(r, answered), ChannelAnswers(r, answered), c)
        ELSE strings

\* _read_once
FroniusValues(c, inverter, r, answered, short) ==
  (IF "ac" \in answered THEN AcValues(inverter, r, short) ELSE <<>>)
  ++ PvValues(c, inverter.modules, r, answered)

------------------------------------------------------------------------------
(* What the registers of an inverter can say *)

Powers == {"inverter_power", "inverter_reactive_power", "inverter_apparent_power"}
TemperatureFields ==
  {"temperature_air", "temperature_module", "temperature_radiator"} \X {0}

\* Integers of 16 bits in a unit, none of which is the sentinel of what is not implemented.
SignedTells(unit, v) == Tells("i16", unit, v) /\ v \div unit # -32768
UnsignedTells(unit, v) == Tells("u16", unit, v) /\ v \div unit # 65535

IntegersTell(r, scale) ==
  \A f \in DOMAIN r \cap InverterFields :
    /\ f[1] \in {"inverter_current", "inverter_frequency"} => UnsignedTells(10, r[f])
    /\ f[1] = "inverter_voltage" => UnsignedTells(100, r[f])
    /\ f[1] \in Powers => SignedTells(TenTo(scale), r[f])
    /\ f \in TemperatureFields => SignedTells(100, r[f])

\* A float can be any number.  The client takes what is no temperature for what is not
\* implemented, and looks for the sensors where most of three words tell something.  In
\* SunSpec's layout, where the words before them do, it takes all three sensors to find
\* them; in the others two, but the third and the fourth are taken for the one before if
\* the one in the middle is missing.
FloatsTell(r, layout) ==
  LET sensors == TemperatureFields \cap DOMAIN r
  IN  /\ \A f \in DOMAIN r \cap InverterFields :
           /\ f[1] \in {"inverter_current", "inverter_voltage", "inverter_frequency"} => r[f] >= 0
           /\ f = <<"inverter_apparent_power", 0>> => r[f] >= 0
      /\ \A f \in sensors : IsPlausible(r[f]) /\ ~IsEffectiveZero(r[f])
      /\ \E f, g \in sensors : f # g
      /\ \/ layout = SunSpecLayout /\ sensors = TemperatureFields
         \/ layout = Triplets[2]
         \/ layout \in {Triplets[3], Triplets[4]} /\ <<"temperature_module", 0>> \in sensors

\* Whole units of the channels, which have the coarser registers of the two, and no current
\* beyond those of model 160.
StringsTell(r) ==
  \A i \in Strings :
    /\ Tells("i16", 100, r[<<"pv_voltage", i>>]) /\ r[<<"pv_voltage", i>>] >= 0
    /\ Tells("i16", 100, r[<<"pv_current", i>>]) /\ UnsignedTells(10, r[<<"pv_current", i>>])
    /\ Tells("i16", 1, r[<<"pv_power", i>>]) /\ r[<<"pv_power", i>>] >= 0

InverterTells(inverter, r) ==
  /\ StringsTell(r)
  /\ inverter.model \in {"101", "103"} => IntegersTell(r, inverter.scale)
  /\ inverter.model \in {"111", "113"} => FloatsTell(r, inverter.layout)

------------------------------------------------------------------------------
(* The runtime *)

\* _apply_fronius_synthetic_pv: two strings of the configured power, whether the
\* inverter answered or not.
WithSyntheticPv(c, data) ==
  LET total == Positive(c.synthetic_pv_total_power_w)
      set == <<c.synthetic_pv1_voltage_v, c.synthetic_pv2_voltage_v>>
      power == <<total \div 2, total - total \div 2, 0, 0>>
      voltage == [i \in Strings |->
                    IF i > 2 THEN 0
                    ELSE IF set[i] < 1000 THEN 1000
                    ELSE set[i]]
      current == [i \in Strings |->
                    IF i > 2 THEN 0 ELSE (power[i] * 10000) \div (voltage[i] \div 100)]
  IN  IF c.synthetic_pv_enabled
        THEN PvFieldsOf(current, voltage, WithTotal(total, power)) ++ data
        ELSE data

\* _is_valid_fronius
IsValidFronius(data) == <<"pv_power", 0>> \in DOMAIN data

================================================================================
