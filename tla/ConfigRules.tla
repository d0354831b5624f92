------------------------------ MODULE ConfigRules ------------------------------
(****************************************************************************)
(* config.py: which configurations the program starts with.  Log levels,    *)
(* hosts and the types that YAML gives a value are left out, and so is      *)
(* everything that no rule looks at.  Times and voltages are thousandths.   *)
(****************************************************************************)
EXTENDS Integers

IsPort(port) == 0 < port /\ port < 65535
IsSlaveId(id) == 0 < id /\ id < 256

\* The order of the bounds between which the battery voltage is held.
BoundsInAnyOrder(v) == v.battery_voltage_min_v >= 0 /\ v.battery_voltage_max_v > 0
Bounds(v) ==
  v.battery_voltage_min_v >= 0 /\ v.battery_voltage_max_v > v.battery_voltage_min_v

\* _validate
Accepted(c) ==
  LET sources == {c.em540_bridge, c.fronius, c.victron}
      server == c.goodwe_emulator
  IN  /\ \A s \in sources : IsPort(s.port) /\ IsSlaveId(s.slave_id) /\ s.retry_count >= 0
      /\ IsPort(server.rtu_port)
      /\ IsPort(server.socket_port)
      /\ server.rtu_port # server.socket_port
      /\ server.update_interval > 0
      /\ server.data_timeout > 0
      /\ IsSlaveId(server.comm_addr)
      /\ c.victron.battery_scale[1] > 0
      /\ Bounds(c.victron)

================================================================================
