------------------------------ MODULE Em540Values ------------------------------
(****************************************************************************)
(* em540_client.py: what Em540BridgeClient makes of a bridge's registers.   *)
(* A reading maps meter fields to what the meter measures, powers in tenths *)
(* of their unit and the others in thousandths; the bridge holds it in      *)
(* registers 0x0102-0x0160, numbers of 32 bits with their low word first.   *)
(****************************************************************************)
EXTENDS RegisterMap

CONSTANT BusyBridge  \* may a zero-based bridge answer a request with an error?

ASSUME BusyBridgeAssumption == BusyBridge \in BOOLEAN

First == 258         \* 0x0102
Count == 95          \* 0x5F
VoltageOf(p) == 288 + 14 * (p - 1)   \* 0x0120, 0x012E, 0x013C

------------------------------------------------------------------------------
(* The bridge *)

Error == <<>>  \* a reply without words

PutLow32(a, v) == {<<a, LowWord(v)>>, <<a + 1, HighWord(v)>>}

Em540Registers(r) ==
  LET Phase(p) ==
        LET a == VoltageOf(p)
        IN  UNION {PutLow32(a, r[<<"meter_voltage", p>>] \div 100),
                   PutLow32(a + 2, r[<<"meter_current", p>>]),
                   PutLow32(a + 4, r[<<"meter_power", p>>]),
                   PutLow32(a + 6, r[<<"meter_apparent_power", p>>]),
                   PutLow32(a + 8, r[<<"meter_reactive_power", p>>]),
                   PutI16(a + 11, r[<<"meter_power_factor", p>>]),
                   PutLow32(330 + 2 * p, r[<<"meter_energy_import", p>>] \div 10)}
      held == UNION {UNION {Phase(p) : p \in Phases},
                     PutLow32(262, r[<<"meter_power", 0>>]),
                     PutI16(269, r[<<"meter_power_factor", 0>>]),
                     PutI16(272, r[<<"meter_frequency", 0>>] \div 100),
                     PutLow32(274, r[<<"meter_energy_import", 0>>] \div 10),
                     PutLow32(278, r[<<"meter_energy_export", 0>>] \div 10)}
  IN  [a \in First .. First + Count |->
         LET at == {w \in held : w[1] = a}
         IN  IF at = {} THEN 0 ELSE (CHOOSE w \in at : TRUE)[2]]

\* What the registers can say: nothing beyond their resolution and their bits.  Voltages,
\* currents and the frequency are not negative.
MeterTells(r) ==
  /\ \A p \in Phases :
       /\ Tells("i32", 100, r[<<"meter_voltage", p>>]) /\ r[<<"meter_voltage", p>>] >= 0
       /\ Tells("i32", 1, r[<<"meter_current", p>>]) /\ r[<<"meter_current", p>>] >= 0
       /\ Tells("i32", 1, r[<<"meter_reactive_power", p>>])
       /\ Tells("i32", 1, r[<<"meter_apparent_power", p>>])
  /\ \A p \in 0 .. 3 :
       /\ Tells("i32", 1, r[<<"meter_power", p>>])
       /\ Tells("i16", 1, r[<<"meter_power_factor", p>>])
       /\ Tells("u32", 10, r[<<"meter_energy_import", p>>])
  /\ Tells("i16", 100, r[<<"meter_frequency", 0>>]) /\ r[<<"meter_frequency", 0>>] >= 0
  /\ Tells("u32", 10, r[<<"meter_energy_export", 0>>])

\* What the bridge may answer to a request at an address: an error, or the words from
\* there on.  A one-based bridge has each register one address further on, and
\* refuses the request that begins before its first one.
Answers(base, registers, address) ==
  LET shift == IF base = "one" THEN 1 ELSE 0
      from == address - shift
  IN  IF from < First THEN {Error}
      ELSE {[k \in 0 .. Count - 1 |-> registers[from + k]]}
           \cup (IF BusyBridge THEN {Error} ELSE {})

------------------------------------------------------------------------------
(* The client *)

\* The request at 0x0102 and, after any error, the one at 0x0103.
Em540Replies(base, registers) ==
  LET first == Answers(base, registers, First)
  IN  (first \ {Error})
      \cup (IF Error \in first
              THEN Answers(base, registers, First + 1) \ {Error} ELSE {})

\* _i32lw, _u32lw
I32lw(w0, w1) == I32(w1, w0)
U32lw(w0, w1) == U32(w1, w0)

\* _read_once, from the words of a reply, which are taken to begin at 0x0102; a word that
\* is missing is zero (_reg).
Em540Values(words) ==
  LET reg(a) == IF a - First \in DOMAIN words THEN words[a - First] ELSE 0
      i32(a) == I32lw(reg(a), reg(a + 1))
      watts(a) == Trunc(i32(a), 10)
      kwh(a) == U32lw(reg(a), reg(a + 1)) * 10
      reactive == [p \in Phases |-> watts(VoltageOf(p) + 8)]
      apparent == [p \in Phases |-> watts(VoltageOf(p) + 6)]
      sum(x) == x[1] + x[2] + x[3]
  IN  Joined({Each("meter_power",
                   [p \in 0 .. 3 |-> watts(IF p = 0 THEN 262 ELSE VoltageOf(p) + 4)]),
              Each("meter_reactive_power", WithTotal(sum(reactive), reactive)),
              Each("meter_apparent_power", WithTotal(sum(apparent), apparent)),
              Each("meter_power_factor",
                   [p \in 0 .. 3 |-> I16(reg(IF p = 0 THEN 269 ELSE VoltageOf(p) + 11))]),
              Each("meter_voltage", [p \in Phases |-> 100 * i32(VoltageOf(p))]),
              Each("meter_current", [p \in Phases |-> i32(VoltageOf(p) + 2)]),
              Field("meter_frequency", 100 * I16(reg(272))),
              Field("meter_energy_export", kwh(278)),
              Each("meter_energy_import",
                   [p \in 0 .. 3 |-> kwh(IF p = 0 THEN 274 ELSE 330 + 2 * p)])})

------------------------------------------------------------------------------
(* The runtime *)

Size(v) == IF v < 0 THEN -v ELSE v

\* A current with the sign of its power.
SignedCurrent(power, voltage) ==
  IF voltage > 0 THEN Trunc(power * 10000, voltage \div 100) ELSE 0

\* The magnitude of the current that gives the power, in thousandths.
CurrentFor(power, voltage) ==
  IF voltage > 0 THEN (Size(power) * 10000) \div (voltage \div 100) ELSE 0

\* _apply_em540_synthetic_grid_export: the phases share the configured power, and
\* each current is what the phase's measured voltage makes of its share.
WithSyntheticExport(c, data) ==
  LET total == c.synthetic_grid_total_power_w
      third == Trunc(total, 3)
      share == <<third, third, total - 2 * third>>
      voltage(p) ==
        IF <<"meter_voltage", p>> \in DOMAIN data THEN data[<<"meter_voltage", p>>] ELSE 0
      none == [p \in 0 .. 3 |-> 0]
      invented ==
        Joined({Each("meter_power", WithTotal(total, share)),
                Each("meter_reactive_power", none),
                Each("meter_apparent_power",
                     [p \in 0 .. 3 |->
                        IF p = 0 THEN Size(share[1]) + Size(share[2]) + Size(share[3])
                        ELSE Size(share[p])]),
                Each("meter_power_factor", [p \in 0 .. 3 |-> -1000]),
                Field("meter_frequency",
                      IF c.synthetic_grid_frequency_hz < 100 THEN 100
                      ELSE c.synthetic_grid_frequency_hz),
                Each("meter_current",
                     [p \in Phases |-> CurrentFor(share[p], voltage(p))])})
  IN  IF c.synthetic_grid_export_enabled
        THEN invented ++ data ++ Field("meter_energy_export", 0)
                      ++ Each("meter_energy_import", none)
        ELSE data

\* _is_valid_em540
IsValidEm540(data) ==
  /\ ({"meter_voltage"} \X Phases) \cup {<<"meter_frequency", 0>>} \subseteq DOMAIN data
  /\ \A p \in Phases : data[<<"meter_voltage", p>>] > 0

================================================================================
