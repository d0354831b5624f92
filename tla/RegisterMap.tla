------------------------------ MODULE RegisterMap ------------------------------
(****************************************************************************)
(* models.py and register_map.py: the snapshot and the registers that are   *)
(* built of it.                                                             *)
(*                                                                          *)
(* A snapshot maps fields <<quantity, part>> to numbers.  A part is a phase *)
(* or a PV string; part 0 is the total or the only one.  Powers and the     *)
(* state of charge are integers, all other fields thousandths of their      *)
(* unit.  Fields that no register shows are left out.                       *)
(****************************************************************************)
EXTENDS RegisterCodec

Phases == 1 .. 3
Strings == 1 .. 4

MeterFields ==
  ({"meter_power", "meter_reactive_power", "meter_apparent_power", "meter_power_factor",
    "meter_energy_import"} \X (0 .. 3))
  \cup ({"meter_voltage", "meter_current"} \X Phases)
  \cup ({"meter_frequency", "meter_energy_export"} \X {0})

InverterFields ==
  ({"inverter_power", "inverter_reactive_power", "inverter_apparent_power"} \X (0 .. 3))
  \cup ({"inverter_voltage", "inverter_current"} \X Phases)
  \cup ({"inverter_frequency", "inverter_power_factor", "temperature_air",
         "temperature_module", "temperature_radiator"} \X {0})

PvFields == ({"pv_power"} \X (0 .. 4)) \cup ({"pv_voltage", "pv_current"} \X Strings)

BatteryFields ==
  {"battery_soc", "battery_voltage", "battery_power", "battery_current",
   "battery_temperature", "battery_health"} \X {0}

Fields == MeterFields \cup InverterFields \cup PvFields \cup BatteryFields

\* A map of one key, a map made of others, and f with what it lacks of g.
At(key, value) == [k \in {key} |-> value]
Joined(maps) ==
  [x \in UNION {DOMAIN m : m \in maps} |-> (CHOOSE m \in maps : x \in DOMAIN m)[x]]
f ++ g == [x \in (DOMAIN f) \cup (DOMAIN g) |-> IF x \in DOMAIN f THEN f[x] ELSE g[x]]

\* Snapshot(): values that are shown until a source delivers others.
Defaults ==
  [f \in Fields |->
     CASE f[1] \in {"meter_power_factor", "inverter_power_factor"} -> 1000
       [] f[1] \in {"meter_frequency", "inverter_frequency"} -> 50000
       [] f[1] = "meter_voltage" -> 230000
       [] f[1] = "battery_soc" -> 50
       [] f[1] = "battery_voltage" -> 52000
       [] f[1] = "battery_temperature" -> 25000
       [] f[1] = "battery_health" -> 100000
       [] OTHER -> 0]

\* The fields of one quantity, from its values by part; a field without parts; the values
\* of a quantity with a total.
Each(name, values) == [f \in {name} \X DOMAIN values |-> values[f[2]]]
Field(name, value) == At(<<name, 0>>, value)
WithTotal(total, parts) == At(0, total) ++ parts

\* _merge: fields that an update lacks keep their value.
Merge(snapshot, update) ==
  [f \in Fields |-> IF f \in DOMAIN update THEN update[f] ELSE snapshot[f]]

------------------------------------------------------------------------------
(* The blocks; short says that the floats fall short of whole results *)

\* _device_info
DeviceInfo(c) ==
  UNION {PutU16(35000, 1), PutU16(35001, c.rated_power), PutU16(35002, 1),
         PutAscii(35003, c.serial_number, 8), PutAscii(35011, c.model_name, 5),
         IF \A i \in DOMAIN c.external_model_name : c.external_model_name[i] = 32
           THEN {} ELSE PutAscii(35060, c.external_model_name, 16),
         PutU16(35016, 100), PutU16(35017, 100), PutU16(35018, 1), PutU16(35019, 22),
         PutU16(35020, 1), PutAscii(35021, <<69, 77, 85, 70, 87, 49>>, 6)}

\* 35137: the AC power if there is any, the PV power if there is none.
PvTotal(s) ==
  LET power(i) == s[<<"pv_power", i>>]
      strings == power(1) + power(2) + power(3) + power(4)
  IN  IF strings > 0 THEN strings ELSE power(0)
TotalWhileFeedingIn(s) ==
  IF s[<<"inverter_power", 0>>] > 0 THEN s[<<"inverter_power", 0>>] ELSE PvTotal(s)
TotalPower(s) ==
  IF s[<<"inverter_power", 0>>] # 0 THEN s[<<"inverter_power", 0>>] ELSE PvTotal(s)

\* One PV string and one phase of _runtime_data.
PvString(s, i, short) ==
  LET a == 35103 + 4 * (i - 1)
  IN  UNION {PutU16(a, Cut(Positive(s[<<"pv_voltage", i>>]), 100, short)),
             PutU16(a + 1, Cut(Positive(s[<<"pv_current", i>>]), 100, short)),
             PutU32(a + 2, Positive(s[<<"pv_power", i>>]))}
InverterPhase(s, p, short) ==
  LET a == 35121 + 5 * (p - 1)
      b == 35353 + 2 * (p - 1)
  IN  UNION {PutU16(a, Cut(Positive(s[<<"inverter_voltage", p>>]), 100, short)),
             PutU16(a + 1, Cut(Positive(s[<<"inverter_current", p>>]), 100, short)),
             PutU16(a + 2, Cut(Positive(s[<<"inverter_frequency", 0>>]), 10, short)),
             PutI32(a + 3, s[<<"inverter_power", p>>]),
             PutI32(b, s[<<"inverter_reactive_power", p>>]),
             PutI32(b + 6, s[<<"inverter_apparent_power", p>>])}

\* _runtime_data; the clock in 35100-35102 is not modelled.
RuntimeData(s, short) ==
  LET Tenths(m) == Cut(m, 100, short)
  IN  UNION {UNION {PvString(s, i, short) : i \in Strings},
             UNION {InverterPhase(s, p, short) : p \in Phases},
             PutU16(35136, 1),
             PutI32(35137, TotalPower(s)),
             PutI16(35140, s[<<"inverter_power", 0>>]),
             PutI16(35142, s[<<"inverter_reactive_power", 0>>]),
             PutU16(35144, Positive(s[<<"inverter_apparent_power", 0>>])),
             PutI16(35174, Tenths(s[<<"temperature_air", 0>>])),
             PutI16(35175, Tenths(s[<<"temperature_module", 0>>])),
             PutI16(35176, Tenths(s[<<"temperature_radiator", 0>>])),
             PutI32(35182, s[<<"battery_power", 0>>]),
             PutU16(35180, Tenths(s[<<"battery_voltage", 0>>])),
             PutI16(35181, Tenths(s[<<"battery_current", 0>>])),
             PutU16(35184, 3), PutU16(35187, 1), PutU16(35188, 0)}

\* Watt-hours of a counter in kilowatt-hours, and a slip: the kilowatt-hours themselves.
WattHoursAsKwh(m, short) == Positive(Cut(m, 1000, short))
WattHours(m, short) == Positive(Cut(m, 1, short))

\* One phase of _meter_data.
MeterPhase(s, p, short) ==
  UNION {PutI16(36004 + p, s[<<"meter_power", p>>]),
         PutI16(36009 + p, Cut(s[<<"meter_power_factor", p>>], 1, short)),
         PutI32(36017 + 2 * p, s[<<"meter_power", p>>]),
         PutI32(36025 + 2 * p, s[<<"meter_reactive_power", p>>]),
         PutI32(36033 + 2 * p, s[<<"meter_apparent_power", p>>]),
         PutU16(36051 + p, Cut(s[<<"meter_voltage", p>>], 100, short)),
         PutU16(36054 + p, Cut(s[<<"meter_current", p>>], 100, short)),
         PutU64(36104 + 4 * p, WattHours(s[<<"meter_energy_import", p>>], short))}

\* _meter_data
MeterData(s, short) ==
  UNION {UNION {PutU16(a, IF a = 36001 THEN 100 ELSE 1) : a \in 36000 .. 36004},
         UNION {MeterPhase(s, p, short) : p \in Phases},
         PutI16(36008, s[<<"meter_power", 0>>]),
         PutI16(36009, s[<<"meter_reactive_power", 0>>]),
         PutI16(36013, Cut(s[<<"meter_power_factor", 0>>], 1, short)),
         PutU16(36014, Cut(s[<<"meter_frequency", 0>>], 10, short)),
         PutF32(36015, s[<<"meter_energy_export", 0>>]),
         PutF32(36017, s[<<"meter_energy_import", 0>>]),
         PutI32(36025, s[<<"meter_power", 0>>]),
         PutI32(36033, s[<<"meter_reactive_power", 0>>]),
         PutI32(36041, s[<<"meter_apparent_power", 0>>]),
         PutU16(36043, 2), PutU16(36044, 1),
         PutU64(36092, 0), PutU64(36096, 0), PutU64(36100, 0),
         PutU64(36104, WattHours(s[<<"meter_energy_export", 0>>], short)),
         PutU64(36120, WattHours(s[<<"meter_energy_import", 0>>], short))}

\* _battery_data
BatteryData(s, short) ==
  UNION {PutU16(37003, Positive(Cut(s[<<"battery_temperature", 0>>], 100, short))),
         PutU16(37007, s[<<"battery_soc", 0>>]),
         PutU16(37008, Cut(s[<<"battery_health", 0>>], 1000, short))}

\* _settings; nothing sets the export limit of the snapshot.
Settings(s, c, short) ==
  UNION {PutU16(45127, c.comm_addr),
         PutU16(45356, 100 - s[<<"battery_soc", 0>>]),
         PutI16(45482, Cut(s[<<"inverter_power_factor", 0>>], 10, short)),
         PutU16(47906, Positive(Cut(s[<<"battery_voltage", 0>>], 100, short))),
         UNION {PutU16(a, IF a = 47509 THEN 1 ELSE 0) : a \in {47000} \cup 47509 .. 47512}}

\* build_register_map
BuildRegisterMap(s, c, short) ==
  UNION {DeviceInfo(c), RuntimeData(s, short), MeterData(s, short), BatteryData(s, short),
         Settings(s, c, short)}

================================================================================
