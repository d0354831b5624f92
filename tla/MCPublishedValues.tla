---------------------------- MODULE MCPublishedValues ----------------------------
(* PublishedValues with readings at the edges of what the devices tell, one      *)
(* device varying at a time.                                                     *)
EXTENDS PublishedValues

------------------------------------------------------------------------------
(* Readings *)

\* Exporting, importing more than 16 bits of watts, and next to nothing.
MeterReading(power, current, factor, energy) ==
  Each("meter_power", WithTotal(power[1] + power[2] + power[3], power))
  ++ Each("meter_reactive_power", <<-1234, 45, 678>>)
  ++ Each("meter_apparent_power", <<5100, 700009, 3>>)
  ++ Each("meter_power_factor", WithTotal(factor, <<factor, -factor, 1000>>))
  ++ Each("meter_energy_import", WithTotal(energy, <<(energy \div 20) * 10, 10, 0>>))
  ++ Field("meter_energy_export", 10 * energy)
  ++ Each("meter_voltage", <<229400, 230100, 231000>>)
  ++ Each("meter_current", current)
  ++ Field("meter_frequency", 49900)
Exporting == MeterReading(<<-5005, -4999, -4913>>, <<2183, 2171, 2127>>, -998, 123456780)
Importing == MeterReading(<<133333, 150000, 133009>>, <<59999, 66000, 57577>>, 1000, 0)
Balanced == MeterReading(<<-7, 7, 0>>, <<3, 3, 2>>, 12, 655360)
AllMeterReadings == {Exporting, Importing, Balanced}

BatteryReading(voltage, current, power, temperature, soc) ==
  Field("battery_voltage", voltage) ++ Field("battery_current", current)
  ++ Field("battery_power", power) ++ Field("battery_temperature", temperature)
  ++ Field("battery_soc", soc) ++ Field("battery_health", 98700)
Discharging == BatteryReading(51300, -5400, -277, 25300, 64)
Charging == BatteryReading(57600, 310000, 17856, -4800, 100)
Flat == BatteryReading(0, 0, 0, 100, 0)
AllBatteryReadings == {Discharging, Charging, Flat}

InverterReading(power, reactive, current, temperature, pv) ==
  Each("inverter_power", power) ++ Each("inverter_reactive_power", reactive)
  ++ Each("inverter_apparent_power", [p \in 0 .. 3 |-> Within(0, 65000, power[p])])
  ++ Each("inverter_current", current)
  ++ Each("inverter_voltage", <<229000, 230500, 231900>>)
  ++ Field("inverter_frequency", 50020)
  ++ Field("inverter_power_factor", -950)
  ++ Temperatures(temperature) ++ At(Energy, 1234567)
  ++ Each("pv_power", pv) ++ Each("pv_voltage", <<512300, 480100, 12000, 0>>)
  ++ Each("pv_current", [i \in Strings |-> 100 * (pv[i] \div 50)])
Day == InverterReading(WithTotal(10070, <<5030, 2530, 2510>>),
                       WithTotal(-1210, <<-400, -400, -410>>),
                       <<21960, 10970, 10820>>, <<31500, 44100, 45600>>,
                       WithTotal(10300, <<5200, 5100, 20, 30>>))
\* Consuming, with no current that the inverter could measure.
Night == InverterReading(WithTotal(-20, <<-10, -10, 0>>), WithTotal(340, <<110, 120, 110>>),
                         <<0, 0, 0>>, <<-5300, -1200, 3900>>, WithTotal(0, <<0, 0, 0, 0>>))
Strong == InverterReading(WithTotal(39990, <<39990, 0, 0>>), WithTotal(0, <<0, 0, 0>>),
                          <<174630, 0, 40>>, <<91200, 99900, 104500>>,
                          WithTotal(30000, <<20000, 9000, 1000, 0>>))
\* Currents so small that their products with the voltages and the total stay small.
Dawn == InverterReading(WithTotal(31, <<14, 9, 8>>), WithTotal(-17, <<-7, -6, -4>>),
                        <<60, 41, 33>>, <<8300, 11100, 12600>>,
                        WithTotal(60, <<45, 15, 0, 0>>))
\* An inverter that does not implement all of its model.
Without(reading, fields) == [f \in DOMAIN reading \ fields |-> reading[f]]
Partial == {<<"inverter_current", 2>>, <<"inverter_reactive_power", 0>>,
            <<"inverter_power_factor", 0>>}
Sparse(reading) == Without(reading, Partial)

------------------------------------------------------------------------------
(* Plants *)

Inverter(model, scale, layout, modules) ==
  [model |-> model, scale |-> scale, layout |-> layout, modules |-> modules]
Plant(base, inverter, meters, inverters, batteries, unreliable) ==
  [base |-> base, inverter |-> inverter, meters |-> meters, inverters |-> inverters,
   batteries |-> batteries, unreliable |-> unreliable]

Symo == Inverter("113", 0, SunSpecLayout, 2)
FloatInverters ==
  {Symo, Inverter("113", 0, Triplets[2], 4), Inverter("111", 0, SunSpecLayout, 1),
   Inverter("111", 0, Triplets[4], 3)}
IntegerInverters == {Inverter("101", 1, <<>>, 3), Inverter("103", 0, <<>>, 3)}

\* The air sensor is missing where the client can do without it; an integer model without a
\* scale cannot tell the strongest power.
Readings(inverter) ==
  LET bright == IF inverter.model = "113" THEN Dawn ELSE Day
      sparse == IF inverter.layout \in {<<>>, SunSpecLayout} THEN Sparse(bright)
                ELSE Without(Sparse(bright), {<<"temperature_air", 0>>})
      strong == IF inverter.model = "111" \/ inverter.scale > 0 THEN {Strong} ELSE {}
  IN  {bright, Night, sparse} \cup strong

AllPlants ==
  {Plant(base, Symo, AllMeterReadings, {Dawn}, {Charging}, {}) : base \in {"zero", "one"}}
  \cup {Plant("zero", Symo, {Exporting}, {Dawn}, AllBatteryReadings, {"power", "extended"})}
  \cup {Plant("zero", inverter, {Exporting}, Readings(inverter), {Charging}, {"ac", "160"}) :
          inverter \in FloatInverters \cup IntegerInverters}
  \cup {Plant("zero", Inverter("none", 0, <<>>, 0), {Exporting}, {Strong, Night}, {Charging},
              {"block", "pv_power", "channel1"}),
        Plant("zero", Inverter("103", 0, <<>>, 0), {Exporting}, {Day, Night}, {Charging},
              {"block", "dc_power", "channel2"})}

\* A meter with next to no load, so that its registers stay small when they are taken
\* for one another.
BusyPlants == {Plant("zero", Symo, {Balanced}, {Dawn}, {Charging}, {})}

\* What the proof of ShownAsMeasured assumes of the readings.
ASSUME ReadingsAssumption == PlantsMeasurable

------------------------------------------------------------------------------
(* Configurations *)

Source(port, id) == [enabled |-> TRUE, port |-> port, slave_id |-> id, retry_count |-> 1]

\* config-default.yaml
Default ==
  [em540_bridge |-> Source(5001, 1) ++
     [synthetic_grid_export_enabled |-> FALSE, synthetic_grid_total_power_w |-> -4500,
      synthetic_grid_frequency_hz |-> 50000],
   fronius |-> Source(502, 1) ++
     [pv_string_count |-> 2, sunspec_model_160_enabled |-> TRUE,
      synthetic_pv_enabled |-> FALSE, synthetic_pv_total_power_w |-> 8200,
      synthetic_pv1_voltage_v |-> 500000, synthetic_pv2_voltage_v |-> 500000],
   victron |-> Source(502, 100) ++
     [battery_scale |-> <<1, 1>>, battery_voltage_min_v |-> 0,
      battery_voltage_max_v |-> 1000000],
   goodwe_emulator |->
     [rtu_port |-> 8899, socket_port |-> 8898, comm_addr |-> 254, update_interval |-> 1000,
      data_timeout |-> 5000, serial_number |-> <<69, 84, 49>>, model_name |-> <<71, 87>>,
      external_model_name |-> <<32, 32>>, rated_power |-> 10000]]

WithSynthetics ==
  [Default EXCEPT !.em540_bridge.synthetic_grid_export_enabled = TRUE,
                  !.fronius.synthetic_pv_enabled = TRUE,
                  !.fronius.synthetic_pv_total_power_w = 8201,
                  !.fronius.synthetic_pv2_voltage_v = 333300]
\* A pack of ten 48 V batteries, read from a battery service.
WithScaledPack ==
  [Default EXCEPT !.victron.slave_id = 225, !.victron.battery_scale = <<10, 1>>,
                  !.victron.battery_voltage_min_v = 400000,
                  !.victron.battery_voltage_max_v = 560000,
                  !.fronius.pv_string_count = 9, !.goodwe_emulator.rated_power = 70000,
                  !.goodwe_emulator.external_model_name = <<71, 87, 49>>]
WithoutModel160 ==
  [Default EXCEPT !.fronius.sunspec_model_160_enabled = FALSE,
                  !.fronius.pv_string_count = 3, !.em540_bridge.enabled = FALSE]
\* Refused.
WithCrossedBounds ==
  [Default EXCEPT !.victron.battery_voltage_min_v = 50000,
                  !.victron.battery_voltage_max_v = 40000]

AllConfigurations ==
  {Default, WithSynthetics, WithScaledPack, WithoutModel160, WithCrossedBounds}
DefaultOnly == {Default}

================================================================================
