----------------------------- MODULE PublishedValues -----------------------------
(****************************************************************************)
(* The way of a number from the registers of a device to the registers that *)
(* a master reads: the three clients decode it, main.py transforms, checks  *)
(* and merges it, and register_map.py encodes it.  When the devices answer, *)
(* and in which order, is the subject of the other modules; a refresh is a  *)
(* single step here, and one that fails changes nothing.                    *)
(****************************************************************************)
EXTENDS Em540Values, VictronValues, FroniusValues, ConfigRules, FiniteSets

CONSTANTS
  Configurations,  \* configuration files
  Plants           \* what may be installed: a record of the bridge's base, the inverter
                   \* (model, scale, layout, modules), the readings of the meter, the
                   \* inverter and the battery, and the requests that may fail

\* The types that the data classes of config.py give the settings.
ASSUME ConfigurationsAssumption ==
  \A c \in Configurations :
    /\ c.em540_bridge.enabled \in BOOLEAN
    /\ c.em540_bridge.synthetic_grid_export_enabled \in BOOLEAN
    /\ c.em540_bridge.synthetic_grid_total_power_w \in Int
    /\ c.em540_bridge.synthetic_grid_frequency_hz \in Int
    /\ c.fronius.enabled \in BOOLEAN
    /\ c.fronius.pv_string_count \in Int
    /\ c.fronius.sunspec_model_160_enabled \in BOOLEAN
    /\ c.fronius.synthetic_pv_enabled \in BOOLEAN
    /\ c.fronius.synthetic_pv_total_power_w \in Int
    /\ c.fronius.synthetic_pv1_voltage_v \in Int
    /\ c.fronius.synthetic_pv2_voltage_v \in Int
    /\ c.victron.enabled \in BOOLEAN
    /\ c.victron.slave_id \in Int
    /\ c.victron.battery_scale \in Int \X (Nat \ {0})
    /\ c.victron.battery_voltage_min_v \in Int
    /\ c.victron.battery_voltage_max_v \in Int
    /\ c.goodwe_emulator.rated_power \in Int
    /\ c.goodwe_emulator.comm_addr \in Int
    /\ c.goodwe_emulator.serial_number \in Seq(Nat)
    /\ c.goodwe_emulator.model_name \in Seq(Nat)
    /\ c.goodwe_emulator.external_model_name \in Seq(Nat)

\* The meter tells no total of these; the client adds up the phases.
AddedUp == {"meter_reactive_power", "meter_apparent_power"} \X {0}

\* A meter and a battery measure all of their fields, an inverter its strings and any of
\* the others.
ASSUME PlantsAssumption ==
  \A p \in Plants :
    /\ p.base \in {"zero", "one"}
    /\ p.inverter.model \in {"none", "101", "103", "111", "113"}
    /\ p.inverter.scale \in 0 .. 6
    /\ p.inverter.modules \in Nat
    /\ p.inverter.model \in {"111", "113"} => p.inverter.layout \in Int \X Int \X Int
    /\ \A r \in p.meters : r \in [MeterFields \ AddedUp -> Int]
    /\ \A r \in p.batteries : r \in [BatteryFields -> Int]
    /\ \A r \in p.inverters :
         /\ PvFields \subseteq DOMAIN r
         /\ DOMAIN r \subseteq InverterFields \cup PvFields \cup {Energy}
         /\ r \in [DOMAIN r -> Int]

VARIABLES
  cfg,        \* the configuration
  plant,      \* the devices
  snapshot,   \* EmulatorRuntime._snapshot
  registers,  \* what was last published, as pairs of address and word
  measured    \* auxiliary: what the devices measured of the fields they last delivered

vars == <<cfg, plant, snapshot, registers, measured>>

Floating == 36015 .. 36018
Word == 0 .. WordSize - 1

\* Every word fits into 16 bits, and no block of the map writes into another.
TypeOK ==
  /\ cfg \in Configurations /\ plant \in Plants
  /\ snapshot \in [Fields -> Int]
  /\ \A r \in registers : r[1] \in Floating \/ r[2] \in Word
  /\ Cardinality({r[1] : r \in registers}) = Cardinality(registers)
  /\ DOMAIN measured \subseteq Fields

Init ==
  /\ cfg \in {c \in Configurations : Accepted(c)}
  /\ plant \in Plants
  /\ snapshot = Defaults
  /\ registers = {}
  /\ measured = <<>>

------------------------------------------------------------------------------
(* What is measured *)

Single == {"101", "111"}
FloatModels == {"111", "113"}

\* The fields of the AC block that the inverter measures: no model has powers of its phases,
\* and the single-phase models have one phase.
InverterMeasures(inverter) ==
  {f \in InverterFields :
     /\ f[1] \in Powers => f[2] = 0
     /\ inverter.model \in Single => f[2] \in {0, 1}}

\* What the device says of the fields that it has.  Integer models that do not
\* implement a field are expected to show nothing; of the float models only what is
\* implemented is looked at.
Said(reading, fields, zero) ==
  [f \in fields \cap (DOMAIN reading \cup zero) |->
     IF f \in DOMAIN reading THEN reading[f] ELSE 0]

\* Strings beyond those the configuration asks for, or beyond the modules of model 160,
\* are not read; the channels that answer are believed only if one of them has power.
PvMeasures(c, inverter, r, answered) ==
  LET read == 1 .. StringCount(c)
      Of(strings) == {f \in PvFields : f[2] \in strings}
      told == {i \in read : ChannelRequests[i] \in answered}
      believed == \E i \in told : r[<<"pv_power", i>>] > 0
  IN  IF inverter.modules > 0 /\ "160" \in answered /\ c.sunspec_model_160_enabled
        THEN Of(read \cap 1 .. inverter.modules)
        ELSE IF believed THEN Of(told) ELSE {}

\* No device measures what its registers cannot say.
PlantsMeasurable ==
  \A p \in Plants :
    /\ \A r \in p.meters : MeterTells(r)
    /\ \A r \in p.inverters : InverterTells(p.inverter, r)
    /\ \A r \in p.batteries : \A c \in Configurations : BatteryTells(c.victron, r)

------------------------------------------------------------------------------
(* The refresh *)

\* The requests of a cycle that may fail without the source.
Requests ==
  {"ac", "160", "block", "pv_power", "dc_current", "dc_voltage", "dc_power",
   "channel1", "channel2", "channel3", "channel4", "power", "extended"}

\* A disabled source delivers nothing; below, nothing is required of it.
Enabled(c, data) == IF c.enabled THEN data ELSE <<>>

\* What the three polls deliver, transformed, if _refresh_once may merge it.
Delivered(words, inverter, battery, answered, short) ==
  LET m == WithSyntheticExport(cfg.em540_bridge, Em540Values(words))
      i == WithSyntheticPv(cfg.fronius, FroniusValues(cfg.fronius, plant.inverter,
                                                      inverter, answered, short))
      b == Scaled(cfg.victron, VictronValues(cfg.victron, battery, answered))
  IN  {update \in {Enabled(cfg.em540_bridge, m) ++ Enabled(cfg.fronius, i)
                   ++ Enabled(cfg.victron, b)} :
         /\ cfg.em540_bridge.enabled => IsValidEm540(m)
         /\ cfg.fronius.enabled => IsValidFronius(i)
         /\ cfg.victron.enabled => IsValidVictron(b)}

\* What the devices measured of it.
Known(meter, inverter, battery, answered) ==
  LET integers == IF plant.inverter.model \in FloatModels THEN {} ELSE Fields
  IN  Joined({Said(meter, MeterFields, {}),
              Said(inverter, InverterMeasures(plant.inverter), integers),
              Said(inverter, PvMeasures(cfg.fronius, plant.inverter, inverter, answered), {}),
              Said(battery, BatteryFields, {})})

\* _refresh_once, when all sources delivered valid data.
Refresh(meter, inverter, battery, answered, short) ==
  \E words \in Em540Replies(plant.base, Em540Registers(meter)) :
    \E update \in Delivered(words, inverter, battery, answered, short) :
      \E known \in {Known(meter, inverter, battery, answered)} :
        /\ snapshot' = Merge(snapshot, update)
        /\ registers' = BuildRegisterMap(snapshot', cfg.goodwe_emulator, short)
        /\ measured' = [f \in (DOMAIN measured \ DOMAIN update)
                              \cup (DOMAIN known \cap DOMAIN update) |->
                          IF f \in DOMAIN update THEN known[f] ELSE measured[f]]
        /\ UNCHANGED <<cfg, plant>>

Next ==
  \E m \in plant.meters, i \in plant.inverters, b \in plant.batteries :
    \E lost \in SUBSET plant.unreliable, short \in BOOLEAN :
      Refresh(m, i, b, Requests \ lost, short)

Spec == Init /\ [][Next]_vars

------------------------------------------------------------------------------
(* What a master reads: the register tables of README.md, of                  *)
(* references/extracted/goodwe-745-map.txt and of the repository's tests      *)

\* A value of the given kind at an address, in units of a reading's unit.
Row(name, part, kind, address, unit) ==
  [field |-> <<name, part>>, kind |-> kind, at |-> address, unit |-> unit]

RegisterTable ==
  (UNION {{Row("pv_voltage", i, "u16", 35099 + 4 * i, 100),
           Row("pv_current", i, "u16", 35100 + 4 * i, 100),
           Row("pv_power", i, "u32", 35101 + 4 * i, 1)} : i \in Strings})
  \cup
  (UNION {{Row("inverter_voltage", p, "u16", 35116 + 5 * p, 100),
           Row("inverter_current", p, "u16", 35117 + 5 * p, 100),
           Row("inverter_frequency", 0, "u16", 35118 + 5 * p, 10),
           Row("inverter_power", p, "i32", 35119 + 5 * p, 1),
           Row("inverter_reactive_power", p, "i32", 35351 + 2 * p, 1),
           Row("inverter_apparent_power", p, "i32", 35357 + 2 * p, 1),
           Row("meter_power", p, "i16", 36004 + p, 10),
           Row("meter_power_factor", p, "i16", 36009 + p, 1),
           Row("meter_power", p, "i32", 36017 + 2 * p, 10),
           Row("meter_reactive_power", p, "i32", 36025 + 2 * p, 10),
           Row("meter_apparent_power", p, "i32", 36033 + 2 * p, 10),
           Row("meter_voltage", p, "u16", 36051 + p, 100),
           Row("meter_current", p, "u16", 36054 + p, 100),
           Row("meter_energy_import", p, "u64", 36104 + 4 * p, 1)} : p \in Phases})
  \cup
  {Row("inverter_power", 0, "i16", 35140, 1),
   Row("inverter_reactive_power", 0, "i16", 35142, 1),
   Row("inverter_apparent_power", 0, "u16", 35144, 1),
   Row("temperature_air", 0, "i16", 35174, 100),
   Row("temperature_module", 0, "i16", 35175, 100),
   Row("temperature_radiator", 0, "i16", 35176, 100),
   Row("battery_voltage", 0, "u16", 35180, 100),
   Row("battery_current", 0, "i16", 35181, 100),
   Row("battery_power", 0, "i32", 35182, 1),
   Row("meter_power", 0, "i16", 36008, 10),
   Row("meter_reactive_power", 0, "i16", 36009, 10),
   Row("meter_power_factor", 0, "i16", 36013, 1),
   Row("meter_frequency", 0, "u16", 36014, 10),
   Row("meter_power", 0, "i32", 36025, 10),
   Row("meter_reactive_power", 0, "i32", 36033, 10),
   Row("meter_apparent_power", 0, "i32", 36041, 10),
   Row("meter_energy_export", 0, "u64", 36104, 1),
   Row("meter_energy_import", 0, "u64", 36120, 1),
   Row("battery_temperature", 0, "u16", 37003, 100),
   Row("battery_soc", 0, "u16", 37007, 1),
   Row("battery_health", 0, "u16", 37008, 1000),
   Row("inverter_power_factor", 0, "i16", 45482, 10),
   Row("battery_voltage", 0, "u16", 47906, 100)}

\* The total power of README.md's table.
TotalRow == Row("inverter_power", 0, "i32", 35137, 1)

Held(address) == (CHOOSE r \in registers : r[1] = address)[2]

\* The upper half of a 64-bit register is zero for what the bounds allow.
Decoded(kind, a) ==
  CASE kind = "u16" -> Held(a)
    [] kind = "i16" -> I16(Held(a))
    [] kind = "u32" -> U32(Held(a), Held(a + 1))
    [] kind = "i32" -> I32(Held(a), Held(a + 1))
    [] kind = "u64" -> U32(Held(a + 2), Held(a + 3))

------------------------------------------------------------------------------
(* Properties *)

Synthetic ==
  (IF cfg.em540_bridge.synthetic_grid_export_enabled
     THEN {f \in MeterFields : f[1] \notin {"meter_voltage", "meter_energy_import",
                                            "meter_energy_export"}} ELSE {})
  \cup (IF cfg.fronius.synthetic_pv_enabled THEN PvFields ELSE {})

\* What a master should see of a measured value.
Expected(f) ==
  LET v == measured[f]
      scale == cfg.victron.battery_scale
      pack == Trunc(v * scale[1], scale[2])
      low == cfg.victron.battery_voltage_min_v
      high == cfg.victron.battery_voltage_max_v
  IN  CASE f[1] = "battery_voltage" ->
             IF pack < low THEN low ELSE IF pack > high THEN high ELSE pack
        [] f[1] = "battery_current" -> Trunc(v * scale[2], scale[1])
        [] f[1] = "battery_temperature" -> Positive(v)
        [] OTHER -> v

\* What a master reads in a row of the table is the value to within one unit of the
\* register, and has its sign.
Reads(row, unit, value) ==
  LET shown == unit * Decoded(row.kind, row.at)
  IN  /\ value - unit <= shown /\ shown <= value + unit
      /\ ~(shown > 0 /\ value < 0) /\ ~(shown < 0 /\ value > 0)

\* A master that decodes the registers by the tables finds what the device last said of the
\* given fields; the total at 35137 is the AC power if there is any.
Shows(fields) ==
  \A row \in RegisterTable \cup {TotalRow} :
    LET f == row.field
        value == Expected(f)
    IN  /\ f \in fields \cap (DOMAIN measured \ Synthetic)
        /\ FitsInto(row.kind, value \div row.unit)
        /\ row = TotalRow => value # 0
        => Reads(row, row.unit, value)

\* What the client looks for where the integer models have something else (the voltages and
\* powers of 103; all but the temperatures of 101), so that it is not shown, and the power
\* factor, which SunSpec has as a percentage and the client as a fraction.
Misread ==
  LET names == CASE plant.inverter.model = "103" -> Powers \cup {"inverter_voltage"}
                 [] plant.inverter.model = "101" ->
                      Powers \cup {"inverter_voltage", "inverter_current", "inverter_frequency"}
                 [] OTHER -> {}
  IN  {f \in InverterFields : f[1] \in names \cup {"inverter_power_factor"}}

\* Everything else is shown: through word orders, scale factors, sentinels, the fields a
\* payload lacks, requests that fail one by one, the transformations and the map.
ShownAsMeasured == Shows(Fields \ Misread)

\* The meter measures tenths of a watt, of which the snapshot keeps the watts.
MeterPowers == {"meter_power", "meter_reactive_power", "meter_apparent_power"}
SnapshotUnit(row) == IF row.field[1] \in MeterPowers THEN 1 ELSE row.unit

\* "Signed 32-bit total inverter/PV watts": the AC power; without any, what a master reads
\* as the powers of the strings; without those, the PV power.
StringPower(i) == Decoded("u32", 35101 + 4 * i)
AllStrings == StringPower(1) + StringPower(2) + StringPower(3) + StringPower(4)
Total ==
  IF snapshot[<<"inverter_power", 0>>] # 0 THEN snapshot[<<"inverter_power", 0>>]
  ELSE IF AllStrings # 0 THEN AllStrings ELSE snapshot[<<"pv_power", 0>>]
TotalShown ==
  (\A i \in Strings : Holds("u32", snapshot[<<"pv_power", i>>])) /\ Holds("i32", Total)
    => Decoded("i32", 35137) = Total

\* Measured, invented or still at its default: a master that decodes the registers by the
\* tables finds the snapshot's value in every row, if the register can hold it, and a total
\* that agrees with them.  The clock and the floats of 36015-36018 are not looked at.
SnapshotShown ==
  registers # {} =>
    /\ \A row \in RegisterTable :
         LET value == snapshot[row.field]
             unit == SnapshotUnit(row)
         IN  Holds(row.kind, value \div unit) => Reads(row, unit, value)
    /\ TotalShown

\* Parts add up to their total where the program divides it or sums them up, and none that
\* it divides feeds in while the total draws.
Divided ==
  (IF plant.inverter.model # "103" THEN Powers ELSE {})
  \cup (IF cfg.em540_bridge.synthetic_grid_export_enabled THEN {"meter_power"} ELSE {})
  \cup (IF cfg.fronius.synthetic_pv_enabled THEN {"pv_power"} ELSE {})

PartsAddUp ==
  LET part(name, p) == IF <<name, p>> \in Fields THEN snapshot[<<name, p>>] ELSE 0
      whole(name) == part(name, 0)
  IN  /\ \A name \in Divided \cup {"meter_reactive_power", "meter_apparent_power"} :
           part(name, 1) + part(name, 2) + part(name, 3) + part(name, 4) = whole(name)
      /\ \A name \in Divided, p \in 1 .. 4 :
           /\ ~(part(name, p) > 0 /\ whole(name) < 0)
           /\ ~(part(name, p) < 0 /\ whole(name) > 0)

\* Where a power is invented, the current and the voltage that are shown with it still
\* multiply to it, to within their last digits.
SyntheticMatches(power, voltage, current) ==
  LET size == 100 * (IF power < 0 THEN -power ELSE power)
      error == 2 * (voltage + current) + 4
  IN  size - error <= voltage * current /\ voltage * current <= size + error

\* The configuration bounds neither the power nor its current.
InRange(kind, power, voltage, current) ==
  /\ FitsInto(kind, snapshot[power])
  /\ FitsInto("u16", snapshot[voltage] \div 100) /\ FitsInto("u16", snapshot[current] \div 100)

SyntheticIsPhysical ==
  registers # {} =>
    /\ cfg.em540_bridge.synthetic_grid_export_enabled =>
         \A p \in Phases :
           InRange("i32", <<"meter_power", p>>, <<"meter_voltage", p>>, <<"meter_current", p>>) =>
           SyntheticMatches(Decoded("i32", 36017 + 2 * p), Held(36051 + p), Held(36054 + p))
    /\ cfg.fronius.synthetic_pv_enabled =>
         \A i \in 1 .. 2 :
           InRange("u32", <<"pv_power", i>>, <<"pv_voltage", i>>, <<"pv_current", i>>) =>
           SyntheticMatches(Decoded("u32", 35101 + 4 * i), Held(35099 + 4 * i),
                            Held(35100 + 4 * i))

================================================================================
