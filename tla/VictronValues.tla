------------------------------ MODULE VictronValues ------------------------------
(****************************************************************************)
(* victron_client.py and what main.py does with its payload: the battery as *)
(* the Victron system unit (slave 100) or a battery service tells it.       *)
(* A reading maps battery fields to what was measured, powers and the state *)
(* of charge as they are and the others in thousandths.  Fields that no     *)
(* register shows are left out, and the requests that read only such fields.*)
(****************************************************************************)
EXTENDS RegisterMap

------------------------------------------------------------------------------
(* The device *)

SystemRegisters(r) ==
  <<r[<<"battery_voltage", 0>>] \div 100, LowWord(r[<<"battery_current", 0>>] \div 100),
    LowWord(r[<<"battery_power", 0>>]), r[<<"battery_soc", 0>>]>>

\* Registers 259-266, of which these hold 259, 261, 262 and 266.
ServiceRegisters(r) ==
  [voltage |-> r[<<"battery_voltage", 0>>] \div 100,
   current |-> LowWord(r[<<"battery_current", 0>>] \div 100),
   temperature |-> LowWord(r[<<"battery_temperature", 0>>] \div 100),
   soc |-> r[<<"battery_soc", 0>>]]

\* What the registers can say: the system has 16 bits for the power, a battery service 32.
BatteryTells(c, r) ==
  /\ Tells("u16", 100, r[<<"battery_voltage", 0>>])
  /\ Tells("i16", 100, r[<<"battery_current", 0>>])
  /\ Tells(IF c.slave_id = 100 THEN "i16" ELSE "i32", 1, r[<<"battery_power", 0>>])
  /\ r[<<"battery_soc", 0>>] \in 0 .. 100
  /\ Tells("i16", 100, r[<<"battery_temperature", 0>>])
  /\ Tells("u16", 100, r[<<"battery_health", 0>>])

------------------------------------------------------------------------------
(* The client *)

StateOfCharge(soc) == Within(0, 100, soc)

\* _read_system_battery
SystemBattery(regs) ==
  Joined({Field("battery_voltage", 100 * regs[1]),
          Field("battery_current", 100 * I16(regs[2])),
          Field("battery_power", I16(regs[3])),
          Field("battery_soc", StateOfCharge(regs[4]))})

\* _read_battery_service: each of the requests after the first may fail, and its
\* fields are missing then.
BatteryService(regs, powerWords, healthWord, answered) ==
  Joined({Field("battery_voltage", 100 * regs.voltage),
          Field("battery_current", 100 * I16(regs.current)),
          Field("battery_temperature", 100 * I16(regs.temperature)),
          Field("battery_soc", StateOfCharge(regs.soc)),
          IF "power" \in answered
            THEN Field("battery_power", I32(powerWords[1], powerWords[2])) ELSE <<>>,
          IF "extended" \in answered
            THEN Field("battery_health", 100 * healthWord) ELSE <<>>})

\* _read_once: unit 100 is the system, any other one a battery service.
VictronValues(c, r, answered) ==
  IF c.slave_id = 100 THEN SystemBattery(SystemRegisters(r))
  ELSE LET power == r[<<"battery_power", 0>>]
       IN  BatteryService(ServiceRegisters(r), <<HighWord(power), LowWord(power)>>,
                          r[<<"battery_health", 0>>] \div 100, answered)

------------------------------------------------------------------------------
(* The runtime *)

\* battery_scale is a fraction, numerator first.
ScaledVoltage(c, data) ==
  Within(c.battery_voltage_min_v, c.battery_voltage_max_v,
         Trunc(data[<<"battery_voltage", 0>>] * c.battery_scale[1], c.battery_scale[2]))

\* A scaling of the voltage alone.
ScaledVoltageOnly(c, data) == Field("battery_voltage", ScaledVoltage(c, data)) ++ data

\* _transform_victron_battery_data
Scaled(c, data) ==
  Field("battery_voltage", ScaledVoltage(c, data))
  ++ Field("battery_current",
           Trunc(data[<<"battery_current", 0>>] * c.battery_scale[2], c.battery_scale[1]))
  ++ data

\* _is_valid_victron
IsValidVictron(data) ==
  /\ {<<"battery_voltage", 0>>, <<"battery_soc", 0>>} \subseteq DOMAIN data
  /\ data[<<"battery_voltage", 0>>] > 0

================================================================================
