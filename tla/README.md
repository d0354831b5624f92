# GoodWe inverter emulator: verification project

The emulator polls three upstream devices over Modbus/TCP (an EM540 grid meter,
a Fronius inverter and a Victron battery monitor), merges what they deliver into
one snapshot, encodes it as GoodWe ET registers and serves those registers to
downstream Modbus masters, such as a wallbox. Its one safety promise is that it
serves no stale data: a circuit breaker answers DEVICE_BUSY until all enabled
sources have delivered, and again when the last complete refresh is too old.

This directory holds TLA+ models of the parts of it where threads, time and
failures meet and of the way of a number from a device's registers to a master's,
the TLC configurations that check them on small instances, and proofs, checked by
TLAPS, of their safety properties for all values of the constants. `PROJECT.json` maps
every definition that models code to its lines.

1. [The system](#the-system)
2. [The modules](#the-modules)
3. [The runs](#the-runs)
4. [Fairness](#fairness)
5. [What is proved](#what-is-proved)
6. [Where the code and its documentation disagree](#where-the-code-and-its-documentation-disagree)
7. [Not modelled](#not-modelled)
8. [The plan](#the-plan)
9. [Running it](#running-it)

## The system

### Threads

    main thread          EmulatorRuntime.run -> serve_forever -> SOCKET listener
    goodwe-modbus-rtu    the RTU listener
    updater (daemon)     _update_loop: _refresh_once, sleep(update_interval), ...
    upstream-poll x 3    one _poll_source task per source and cycle

The updater submits the three polls, waits for all of them, and either publishes
everything or reports a failure. The listeners share with it the register block
and the `_CircuitBreaker`. Each source has a session of its own, used by one poll
task at a time.

### Inventory

| Component | State | Operations | What is hard | What makes it correct |
|---|---|---|---|---|
| Downstream server and circuit breaker, `app/goodwe/server.py` | register block, time of the last success, open flag | publish registers, mark success or failure, gate a read, serve a read or a write | three threads; check-then-act over several critical sections of one lock; readers that do not take the writer's lock | registers only to requests that saw fresh data; no unpublished or outdated register in a reply; failures tolerated while data is fresh; the circuit closes over complete publications only, and does close |
| Emulator runtime, `app/main.py` | snapshot, executor | poll, transform, validate, merge, publish, report failure | the slowest of three concurrent polls decides when the cycle ends; one source of three fails; exceptions; what the breaker's clock measures | all sources or none; a bound on the age of a served value; sources that deliver are published |
| Upstream session and cooldown breaker, `app/datasources/modbus_resilience.py` | client, sticky connected flag, failure count, cooldown deadline | read with retries, connect, close and reset, count, cool down | dead connections found out late; exceptions on every path, one of them outside the `try`; a count the cooldown does not clear | no traffic while cooling down; one caller at a time; no client leaked; opens for current trouble only; recovers with the device |
| Fronius client, `app/datasources/fronius_client.py` | cached SunSpec model index | scan, cached reads in order of preference, model 160, rescan, legacy fallback, decoding | a cache of addresses in a table that can move; errors that look like the end of the table; a retry inside the read; four AC models with their own layouts, scale factors and sentinels; legacy registers and channels read one request at a time; totals that must be divided | an index right about the table it was read from; the rescan mends a stale one; no empty index for good; every read ends; values are those of the device; parts add up |
| Victron client, `app/datasources/victron_client.py` | none besides its session | read the system or the battery block, five requests | requests that fail one by one give payloads with other fields each time | what a payload may lack; units, signs, scale and bounds of the pack |
| EM540 client, `app/datasources/em540_client.py` | none besides its session | read one block at one of two offsets, decode | off-by-one bridges, word order | a value is decoded from its own registers |
| Register codec and map, `app/goodwe/register_codec.py`, `register_map.py` | none | encode a snapshot as register words | 16- and 32-bit widths, truncation, which source a total comes from | decoding gives back what was encoded, within its width; no register is written twice; a master sees what was measured |
| Configuration, `app/config.py` | none after start | read YAML, validate | boundaries; settings that are valid one by one and not together | what the rest of the program relies on |
| Snapshot, `app/models.py` | a record of defaults | `setattr` by `_merge` | fields that no update touches keep their value | (with the runtime) |
| Command line, logging, packaging | none | parse, set levels | nothing | nothing |
| Validation client, `goodwe_client_test/main.py` | none | read the emulator through the GoodWe SDK and print | a separate program | nothing here |

### Interactions

* runtime -> sessions: `reader()` in a pool thread; the session lock is held from
  the breaker check to the verdict, connect and read included;
* runtime -> server: `update_holding_registers` and then `mark_data_received`, or
  `mark_upstream_failed`, always from the updater thread;
* listeners -> server: `getValues` through the breaker; `setValues` of a write
  request is inherited and asks nobody;
* Fronius client -> session: `_read_once` runs inside `session.read`; a request
  that raises leaves `_read_once` and resets the connection, one that returns an
  error does not.

The hazards of each part are listed with their lines in `PROJECT.json`.

## The modules

| Module | Models | Lines of code it stands for |
|---|---|---|
| `GoodweServer` | the breaker, the register block, the updater's calls, the listeners | `server.py` 32-182, `main.py` 52-83 |
| `FreshnessGate` | what the breaker promises: abstract specification of the above | |
| `UpstreamSession` | one session with its breaker and its device | `modbus_resilience.py` 23-158 |
| `CooldownBreaker` | the three-mode breaker: abstract specification of the above | |
| `EmulatorRuntime` | the refresh cycle, validation and merge, by the age of values | `main.py` 31-246 |
| `Emulator` | the sessions of all sources, the refresh cycle and `data_timeout` over one clock | `main.py` 31-83, `modbus_resilience.py` 23-120 |
| `FroniusClient` | one Fronius read, request by request, with its cache | `fronius_client.py` 46-186, 279-459, 711-863 |
| `RegisterCodec` | numbers as 16-bit words, and what `int()` of a quotient gives | `register_codec.py` 6-46, the clients' decoders |
| `RegisterMap` | the snapshot and the registers built of it | `models.py`, `register_map.py` |
| `Em540Values`, `VictronValues`, `FroniusValues` | what each client makes of its device's registers, and what the runtime makes of that | the three clients, `main.py` 115-241 |
| `ConfigRules` | which configurations `_validate` accepts | `config.py` 132-204 |
| `PublishedValues` | the six above composed: from a device's registers to a master's | `main.py` 58-113 |
| `MCFroniusClient`, `MCPublishedValues` | small tables; plants, readings and configurations for TLC | |
| `*_proofs` | the theorems, one module per component; `ClientValues_proofs` is for the three clients' values | |

### GoodweServer

One action per `with self._lock` block, since the code drops the lock between
reading the age (`SampleAge`, `MarkFailure`), opening the circuit (`TripOnStale`,
`TripOnFailure`) and testing it (`Gate`). `WriteRegister` is one `setValues` call
of `update_holding_registers`; its lock is not taken by `getValues`, so
`CopyRegisters` can come between two of them. The copy is one step: it is one
slice of a list. Addresses are not written in ascending order, so a reply may
hold any set of registers.

Data is abstracted to its origin: a register holds the constructor's zero, the
current publication, the previous one, an older one, or a master's write. Time is
the age of the last success, which grows by `Tick` at any moment, so a thread may
be arbitrarily late between two of its steps. `freshSeen` is a history variable
that remembers whether the data was fresh at some instant of the request at hand;
"fresh at the instant the reply leaves" is more than any server can promise.

Mutation operators next to an action (`MarkSuccessEarly`, `SampleAgeOnly`, ...)
are not part of `Next`. Each is a plausible mistake in the action it precedes, and
`PROJECT.json` names the property that catches it.

### UpstreamSession

A read holds the session lock throughout, so the breaker's own lock is invisible
and its calls are part of the steps of `read()`. Creating the client, connecting it
and reading are steps of their own, with the device, the network and the clock moving
in between; a client therefore exists before the connect that may fail, and
`NoClientLeaks` is about the close after a failed connect as well as after a failed read. The
device is up, mute (connects, answers nothing of use), down, or such that
`create_client` raises. `client` and `sock` are what the session believes and what
is so: `_persistent_connected` is set on connect and never looked at again.
`ReadPayload` is allowed on a dead socket too, because the Modbus library may
reconnect by itself. `steady` and `unclosed` are history variables.

### EmulatorRuntime

The state is how old things are: what each task sampled from its device, the
required and the optional fields of each source in the snapshot, the last
`mark_data_received`. A payload is empty, invalid, partial or full, which is what
the validators and `_merge` tell apart; `Yields` says which of them each reader can
return (the Fronius reader always puts a `pv_power_w`, the EM540 reader has all
fields or none, the Victron reader any subset that starts with the main block).
`Sample` is the first answer of the device, so the age of a value is never
underestimated. `PublishRaises` is an exception of `build_register_map`, possible
for a configuration in which `serial_number` is not a string.

### FroniusClient

The table of the device is a sequence of model ids, an address is a position in
it, and a decoded block is "right" (registers of the model it is taken for) or
"garbage". Every request is one action and may succeed, return an error (`[]` from
`_read_register_block`) or raise (`Raise`, which ends the read). A table may move
only while the device is not up, but it may move under a scan. A device that is not up
may answer any single request or not, so a scan or a read can succeed on it in part or
in whole. A header is read from the table that is there at that moment; only if the table
moved under the scan may the address fall between two headers, and the scan then steps
over words or ends. `moved`, `scanMoved` and `trouble` are history variables. The four AC models, each with the
same control, are one `ReadAcBlock` run down the order of preference `AcModels`.

### Emulator

What the three models above leave to each other: whether masters are served is a
question of how a cooldown, the slowest poll and the sleep between two cycles add
up against `data_timeout`. One clock drives the sessions' cooldowns, the updater and
the age of the data. A read is one step, since the clients allow one attempt
(`retries=0`); it may happen at any moment of its poll, and it fails on a device that
is down, on a connection that died unnoticed, and while the breaker cools down. A
device may also answer what the validator rejects ("odd").

`AgeExplainedByLostCycles` says that the age of the data never exceeds what the number
of failed cycles since the last success accounts for: `(lost + 1) * Period`, where a
period is the sleep and the bound on a poll. With the defaults (1 s sleep, 2 s for a
request, 5 s timeout) two periods are 6 s: one failed cycle between slow
polls is enough to interrupt service, while with prompt devices four are tolerated.
The age is cut at `data_timeout + 1`, so the property says something of a lost cycle only
where `data_timeout` has room for it: `emulator_outage` has a timeout of 9 instead of the
default 5, which leaves room for none, one and two lost cycles, and `AgeExplained` proves
it for all parameters.
`PollTime` is an assumption and not a bound of the code: a read of several requests, such
as the five of the Victron client or a Fronius scan, may take as many timeouts of up to
2 s each. With the default timeouts `PollTime` may thus have to be far more than 2, and
the properties then say what they say for that number (`ServiceResumes` asks that a period
fits into `data_timeout`).
`ServedInTime` says that once all devices are up, data is fresh again after at most
`Recovery`: the poll at hand may still fail and start a cooldown, the cycle that begins
just before its end is lost, and a connection that died may cost one more cycle.

### From the device's registers to the master's

The pure parts of the program are operators, one module per source file or client,
and `PublishedValues` runs them: one `Refresh` decodes the registers of three devices,
transforms, validates, merges and encodes. Its state is the snapshot and the registers
last published; it has no threads, whose orders are the other modules' subject, and a
refresh that fails is a stutter. Different readings and failed requests from one
refresh to the next leave fields of different ages in the snapshot, which is why this
is a state machine and no table of inputs and outputs.

Numbers are exact: powers are integers, other quantities thousandths of their unit, so
that `int(x * 10.0)` is a truncating division. Where the exact result is whole the
float may fall short of it (`int(0.29 * 100.0)` is 28); the argument `short` says that
it does, and both cases are checked. Words are `% 2^16`. The two words of an IEEE float
stand for themselves.

A reading is what a device measured. The modules' device side (marked external in the
map) puts it into registers as the EM540, SunSpec and Victron tables lay them out, with
sentinels for what an inverter does not implement, and the master's side
(`RegisterTable`, `Decoded`) takes it out again as the register tables say. In between
is only the code. `measured` is a history variable: the readings behind the fields that
were last delivered.

The device side is the standard's and not the client's. SunSpec gives models 101 and 103
the same points in the same order (A at 0, A_SF at 4, PhV at 8 to 10, V_SF at 11, W at
12, Hz at 14, VA at 16, VAr at 18, PF at 20, each scale factor behind its point), and
the client decodes both at other indices; models 111 and 113 have the energy and the DC
current, voltage and power at 30 to 36, before the temperatures. The other sensor
layouts of the float models are those that the client's comment ascribes to firmware
variants; of what else these have nothing is known. Where a float model tells less than
two temperatures the client takes words of it for integers; the model gives it those of
model 103 then, which only plants outside of `PlantsMeasurable` see. A reply of the
bridge that is too short gives zeros for the words it lacks (`_reg`).

`ShownAsMeasured` compares the two ends of every row of the register table, the total at
35137 included, and so finds a wrong address, word order, unit, sign, sentinel or source
of a field anywhere between them. It leaves out

* what the program invents (`Synthetic`) and what an inverter cannot measure
  (`InverterMeasures`: no model has powers of its phases);
* what the client looks for in the wrong words of models 101 and 103 (`Misread`, see
  [below](#where-the-code-and-its-documentation-disagree)), and the inverter's power
  factor: SunSpec has it as a percentage, the client and its test (0.94) take it for a
  fraction, and nothing in the repository settles what a device sends;
* strings that were not read. Each request for the legacy registers and the channels
  fails by itself: a string is expected to be shown if its channel answered and some
  channel told power, whatever became of the others. What stands for the rest, zeros or
  shares of the DC values, is nobody's measurement;
* values too large for a 16-bit register, of which `Wraps16` says what they become.

It is about plants whose devices measure no more than their registers can say
(`PlantsMeasurable`, which is `MeterTells`, `BatteryTells` and `InverterTells` of every
reading): a device cannot deliver what is beyond its resolution or its bits, and what it
delivers instead is not the program's doing. In SunSpec's layout it asks a float model
for all three temperature sensors, since with two the client shows other words (see
below). TLC evaluates that assumption for the plants of the runs. `SnapshotShown` is its
second half, from the snapshot to the master, and leaves out only what a register cannot
hold: a value that was invented, never delivered or kept from an earlier refresh has to
reach the master too. It covers every row of the table, the meter's totals at 36009,
36033 and 36041 among them, and 35137, which is the AC power, or without any the sum of
what a master reads of the strings, or without those the PV power (so the legacy value
of 40083 is compared through 35137 alone). The clock and the floats at 36015 to 36018
are in no row. `PartsAddUp` also says that the meter's reactive and apparent totals are
the sums of their phases. `PartsAddUp` and `SyntheticIsPhysical` say of the invented
values what there is to say of them before that; the latter where the registers can hold
power, voltage and current, since `config.py` bounds neither the power nor the current
that follows from it.

### The abstract specifications

`FreshnessGate` has requests that are waiting, granted or refused and a flag for
freshness; `GoodweServer` implements it under `stale <- Stale, req <- Requests`,
where a listener past the gate counts as granted. `CooldownBreaker` has three modes
and a flag for a read in flight; `UpstreamSession` implements it under
`mode <- Mode, inFlight <- ~LockFree`, where "half" is a full failure count with the
cooldown over. No field of the code is that mode; the refinement is what shows
that the count and the deadline amount to one. `Emulator` implements the same breaker
once per source, which ties its one-step reads to the session they stand for.

## The runs

All bounds are constants of the modules. Nothing else limits the state spaces:
ages are cut at the first value that all comparisons treat like every later one,
and the failure count at the threshold.

| Run | Instance | Shows |
|---|---|---|
| `gate_server` | two listeners, three registers, timeout 2 | the safety of the gate, when it opens and closes, that it implements `FreshnessGate` with its liveness, that serving stops for good once publications stop, and that a healthy updater closes the circuit again and again |
| `session_callers` | two callers, two attempts, threshold 2, cooldown 2 | no traffic while cooling down, mutual exclusion, no client leaked by a failed read or connect, the breaker opens for trouble of that very read only and recovers with the device, refinement of `CooldownBreaker` with liveness |
| `runtime_refresh` | three sources, timeout 1, polls up to 1 tick, map builds or raises | ages of served required values, coherence of the sources, progress while sources deliver |
| `fronius_read` | five tables of up to four models, scan limit 3 | the cached index is right unless the table moved, the rescan mends it, it is not empty for good, reads end, after boundedly many requests even while the table moves |
| `emulator_outage` | two sources, threshold 2, cooldown 3, sleep 1, polls up to 2 (the defaults in seconds), timeout 9 | the age of the data is explained by lost cycles, service resumes within `Recovery`, each source implements `CooldownBreaker` |
| `values_published` | eleven plants, four accepted configurations, any order of readings and of failed requests | words fit and do not overlap, masters see what was measured and what the snapshot holds, divided and summed totals add up, invented values belong together |
| `gate_fresh_closed`, `gate_torn_reply`, `runtime_old_values`, `runtime_dies`, `fronius_moved`, `meter_shifted` | as small as shows it | counterexamples, see below |

Why these bounds are enough:

* **listeners 2**: the code has two. **registers 3**: a first, a middle and a last
  one, so that a reply can fall before, inside and after a write. **timeout 2**:
  an age can be fresh and not new.
* **attempts 2**: a first and a last attempt; the loop treats all but the last
  alike. **threshold 2**: a failure that is tolerated and one that is not.
  **cooldown 2**: a step inside it.
* **data_timeout 1, poll 1**: a value can be older than its publication by one
  poll, and the publication by one timeout; the proofs cover the rest.
* **tables**: none; the two models in either order (a move that leaves every
  offset readable); one without an AC model; one with two AC models whose preferred
  one is in the fourth place, out of the scan's reach. `MaxModels` is 3 (the code has
  64) so that a table can be longer than a scan.

* **sources 2** in `emulator_outage`: one that fails while another is fine, and both at
  once. Three sources pass as well (1.1 million states) and add nothing. `data_timeout`
  9 lets the age reach three periods, and one tick more, before it is cut; with the
  default 5 one lost cycle already takes the age to the cut and the property about lost
  cycles would say nothing of them. `MaxLost` 3 is the least that this timeout leaves
  room for.
* **plants**: every inverter model, with and without model 160, more strings than the
  configuration asks for and fewer; powers of zero, negative, beyond 16 bits and such
  that a third or a weighted share is not whole; unimplemented registers; a scaled pack
  below, between and above its bounds; batteries read as the system and as a service
  with requests that fail; legacy registers and channels of which any one fails. The
  readings of a model 113 are small, since the phases' weights are exact products of
  current and voltage, which TLC's 32-bit integers must hold. One device varies at a time: no code relates the values of
  two devices but `Merge`. TLC's integers have 32 bits, so 64-bit registers are checked
  with values whose upper half is zero, and `RoundTripU32` covers the rest.

Symmetry is not used: the runs check liveness properties, for which TLC's
symmetry reduction is unsound.

Deadlock is checked in every run: no model here may stop. (In `meter_shifted` and
`values_published` a plant that delivers nothing valid would be one; there is none.)

## Fairness

* **Clock** (`WF(Tick)`): time passes. Justified by `time.monotonic`.
* **A request that arrived is carried through** (`WF(Answering(s))`): the listener
  thread runs. That requests arrive is not assumed.
* **A read that began ends** (`WF(Working(c))`, `WF(Request)`): every Modbus request
  has the configured timeout and a finite retry count.
* **The updater polls** (`WF` of `BeginRead`, `StartCycle`): `_update_loop` is an
  endless loop with a bounded sleep. It is assumed in `session_callers`, `fronius_read`,
  `emulator_outage` and `runtime_*`. In `gate_server` it is not: an exception can end the updater, and
  `StopsServingStaleData` must hold then too. `ClosesWhileHealthy` states it as its
  own hypothesis (`WF_vars(Updater)`), together with "from some time on no refresh
  fails".
* **Nothing is assumed of the devices.** Liveness properties that need a device say
  so: "if it stays up from some time on".

## What is proved

For any number of listeners or callers, any timeout, threshold, cooldown, poll
bound, tables and scan limit, and for any plant, readings and configuration. The only
assumptions are the `ASSUME`s of the modules: numbers are naturals, some at least 1 (the
code forces `retries`, threshold and cooldown above zero, and `config.py` the timeouts),
and the sentinel values `NoSuccess`, `Never` and `None` differ from what they stand
beside. `ConfigurationsAssumption` gives the configuration the types of the data classes
in `config.py`; `PlantsAssumption` says what a reading is: a number for every field of a
device, with no bound on it. One theorem asks more: `MasterSeesMeasurements` has the
hypotheses `PlantsMeasurable`, since no program shows what a device could not say, and
`~BusyBridge`, without which its property is false (the run `meter_shifted`). Both are
assumptions about devices, and both hold in the run `values_published`.

| Module | Theorems | Inductive invariant and why it is needed |
|---|---|---|
| `GoodweServer_proofs` | `TypeCorrect`, `RegistersServedWhileFresh`, `RepliesAreRecent`, `FailuresTolerated`, `ClosesOnPublication`, `GateRefinement` | Between age check and gate check a listener holds a verdict that others can make obsolete. `GateInv`: a closed circuit has let it past only on fresh data. `RegsInv`: the shape of the registers at each step of a publication. `TripInv`: a failure verdict cannot be overtaken, since publishing and failing are steps of one thread. |
| `UpstreamSession_proofs` | `TypeCorrect`, `Quiet`, `NoLeak`, `OpensOnTrouble`, `BreakerRefinement` | `ClientInv`: a client kept between reads means the last read succeeded, so finding it dead is a first failure. `CountInv`: while cooling down the count is full, which makes the mode after a cooldown "half". |
| `EmulatorRuntime_proofs` | `TypeCorrect`, `ServedValuesRecent`, `MeasurementsCoherent` | `SampledInv`: a finished task has its answer from this cycle. `StampInv`: the age of a publication plus one poll bounds what it published, stale or not, so that time preserves it. |
| `Emulator_proofs` | `TypeCorrect`, `AgeExplained`, `ServiceRecovers`, `BreakersImplemented` | `AgeInv` by phase: while a cycle sleeps or polls, the age is bounded by the periods that the lost cycles took and the time of the current one. `RecoveryInv`: the way back to service goes through six stages (`StageInv`: the poll at hand, the sleep after it, the poll that may still be lost, the sleep after that, the poll that succeeds, service), and each bounds how long the devices had been up when the updater's present step began. It rests on `LinkInv`, a connection is kept only by a read that was answered, and on `CooldownsEnd`, no cooldown begins after the poll at hand. The breakers' refinement holds per source, since no step moves two of them but the clock, which ages all alike. |
| `RegisterCodec_proofs` | `RoundTrip16`, `Wraps16`, `RoundTrip32`, `RoundTripU32`, `TwosComplement`, `TruncWithinUnit`, `CutWithinUnit` | No invariant: facts about division by 2^16. A number is its quotient times 2^16 and its low word, and the high word is the low word of the quotient. |
| `ClientValues_proofs` | `Em540Payload`, `VictronPayload`, `FroniusPayload`, `ExportPayload`, `ScaledPayload`, `SyntheticPvPayload`; `WeightedPartsAddUp`, `SyntheticPartsAddUp`, `WithinBounds`, `PowerFactorBounded` | No invariant: facts about one payload. The first six say that whatever the registers hold and whichever requests fail, a payload consists of numbers for fields of that client's own device, so that a merge of three payloads is well defined. The others say what the divisions and the clamps give; `ThirdPart` is their heart: two parts that take no more than their share leave a third of the total's sign. The rest are lemmas of the values themselves: what a device measured, put into the registers of its tables and taken out by the client, is the same number, if the registers can say it (`VictronAgrees`; `Model101Agrees` to `Model113Agrees`, `ChannelsAgree`, `Model160Agrees` and `FroniusAgrees` on top of them). They are about the fields that the client looks for where SunSpec has them, and about every subset of the thirteen requests. There no sentinel, scale factor or sensor layout is mistaken for another one. |
| `PublishedValues_proofs` | `TypesHold`, `MasterSeesSnapshot`, `MasterSeesMeasurements`, `DividedPowersAddUp`, `InventedPowersArePhysical`; `MeterUpdateShows`, `BatteryUpdateShows`, `InverterUpdateShows`; `OneWordPerRegister`, `PackVoltageBounded` | `OneWordPerRegister`: the blocks of `register_map.py`, written one word after another, overlap nowhere for any snapshot and configuration. `PublishedInv` keeps that layout, from which the counting in `TypeOK` follows (as many words as addresses). The layout also makes a word readable at its address, so that `MasterSeesSnapshot` needs only `MapInv`, the registers are those of the current snapshot, and that each decoder undoes its encoder within range, row by row of the table and for the total of 35137. `PartsInv`: a power's parts come into the snapshot together with their total or not at all, and what no source ever delivers is at zero, so a refresh that lacks them breaks no sum. `PhysicalInv`: power, voltage and current of an invented phase or string come together too, so that no refresh mixes those of two. `MeasuredInv`: of each field that a device delivered, the snapshot keeps what is shown of the last measurement, and of those that cannot be negative it keeps that they are not, which the unsigned registers need. A step preserves it because a field comes from the one source that has it (`SourceOf`), the reading behind it from the same device (`KnownOf`), and the two agree (the three `...UpdateShows`); `MapInv`'s argument then takes it to the master, row by row. |
| `FroniusClient_proofs` | `TypeCorrect`, `NoGarbageWithoutMove`, `RescanFindsModels`, `ReadsTerminate` | `ScanInv`, `CacheInv`: an index is right about a table that stood still. `ReachInv`, `FreshInv`, `NoAcInv` follow a read without trouble: how far its scan has come, that its index is whole, what having no AC values then means. `ReadsTerminate` needs `TypeOK` and where a scan stands when it starts: `RequestsLeft` is at most two scans with the values after each, and every request lowers it. With the finite time of a request this bounds a read; that it therefore ends (`ReadsEnd`) needs fairness. |

Each proof has the same three parts: `Init => IInv`, one lemma per conjunct for
`IInv /\ [Next]_vars => conjunct'` with one step per action, and `IInv => property`.
The refinement theorems prove the safety half (`Gated!SafetySpec`,
`Breaker!SafetySpec`): initial states map to initial states, and each step to a step
or a stutter.

Two definitions changed because the proofs could not be done with what was there:
`PowerFactor` had no value for an apparent power below zero, and `AcValues` chose between
overlapping cases, which TLC resolves in order and TLA+ leaves open.

Only model-checked:

* what needs fairness (`ClosesWhileHealthy`, `StopsServingStaleData`,
  `PublishesWhileDelivered`, `RecoversWithDevice`, `EmptyIndexIsTemporary`, `ReadsEnd`,
  `ServiceResumes`, and the liveness half of the refinements): the prover handles neither
  fairness with `ENABLED` nor induction over data.

All invariants and action properties of the passing runs are theorems.

## Where the code and its documentation disagree

Each of these is a run whose property TLC violates, with the quoted line in
`PROJECT.json`.

* `gate_fresh_closed`: a listener that judged the data stale before
  `mark_success` opens the circuit after it. The circuit is then open over fresh
  data until the next refresh. `ClosesWhileHealthy` shows that it is no worse.
* `gate_torn_reply`: a read between two `setValues` calls gets words of two
  publications, for instance the high word of one and the low word of the next.
  `ReplyFromLastTwoPublications` shows that it is no worse.
* `runtime_old_values`: an optional field its source no longer delivers stays in
  the snapshot and is vouched for by each new publication.
  `RequiredValuesRecent` bounds the age of the required ones.
* `runtime_dies`: an exception of `build_register_map` ends the only updater while
  the listeners go on, refusing every read.
* `fronius_moved`: two models swap places at a restart between two reads. The offsets
  cached before it are still readable and are decoded as the models that used to be there;
  the rescan is tried only when nothing can be read. The property is about tables that
  never move under a scan, so the index is right about the table it was read from.
  `LegacyOnlyWithoutModels` shows that it works then.
* `meter_shifted`: the second request, meant for bridges with another address base, is
  sent after any error of the first one. A zero-based bridge that is busy once and
  answers the second request has all its registers decoded one off, and the result
  passes the validator. The run uses readings small enough that the misplaced words stay
  within TLC's integers.

Met on the way, and not made into properties because the code promises nothing
about them:

* a header that fails during a first scan cuts the index short, and the short index is
  cached as long as it has a model that answers;
* the runtime logs "Holding downstream circuit open" on each failed refresh, also when
  `mark_failure` leaves the circuit closed because the data is still fresh;
* a write request of a master is carried out whatever the breaker says;
* `read_modbus_payload_with_recovery` promises a disconnect on all paths and leaves the
  client connected when it succeeds, but nothing calls it;
* models 103 and 101 are decoded at other indices than SunSpec's. Of 103 the client takes
  the voltages between phases, which an inverter need not tell, for those of the phases,
  the first phase's voltage for their scale factor, and voltages, scale factors and
  energies for the powers: an inverter at 230 V that delivers 10070 W is shown with 0 V and
  2305 W. Of 101 it takes the words of the other phases to be left out and finds the power
  where the currents have their scale factor: 0 W are shown. The repository's own tests
  build the models as the client reads them, so they agree with it and not with a device
  that follows the standard;
* with one of three sensors missing, the DC current, power and voltage before the
  temperatures of a float model, scaled down until they are plausible, count for three
  sensors and win against the two there are: 10.4 A are shown as 10.4 degrees, 10300 W as
  103.0, 512.3 V as 51.23;
* the power factor of the float models, a percentage in SunSpec, is clamped to one, which
  is right only for devices that send a fraction;
* the integer temperatures of a float model are looked for in words that lie inside its
  floats;
* `battery_voltage_min_v` above zero raises a reading of 0 V before the validator, which
  refuses 0 V, sees it;
* zeros stand for legacy Fronius registers that could not be read, and are published;
* the serving of a disabled source's defaults (230 V, 52 V, 50 %) as fresh values.

## Not modelled

* **pymodbus, TCP, framing**: external. The models use what the code relies on:
  a request ends, with registers, an error or an exception; `getValues` takes one
  slice; `setValues` of a request writes the block.
* **Reading the configuration**: YAML, required sections, log levels and types. What
  the rules on numbers accept is `ConfigRules`; NaN and infinite numbers, which YAML can
  express, are not.
* **The clock in registers 35100-35102**, and fields of the snapshot that no register
  shows.
* **Functions that nothing calls** (`read_modbus_payload_with_recovery`, `get_ascii`,
  `_find_sunspec_model`, `_read_model_temperature_f32`).
* **Logging, the drop counter, connection tracing, the command line, packaging**:
  no property depends on them.
* **The validation client**: a separate command that reads and prints. It has no state
  that outlives a run, and what it reads is the subject of `RegisterTable`.

## The plan

Done, most important first:

1. `GoodweServer` with `FreshnessGate`: the product's promise to its masters.
2. `UpstreamSession` with `CooldownBreaker`: what keeps the sources coming.
3. `EmulatorRuntime`: what freshness means end to end.
4. `FroniusClient`: the one client with state of its own.

5. `Emulator`: the composition of 1 to 3 over one clock.
6. `RegisterCodec`, `RegisterMap`, the clients' values and `ConfigRules`, composed in
   `PublishedValues`.

7. The theorems on `PublishedValues` for every plant and configuration, and
   `ServiceRecovers`.
8. `ShownAsMeasured` from one end to the other: each client in turn, from a device's
   registers to its payload, the merge of the payloads, and the way to the master.
9. The device side of the inverter as SunSpec lays it out, the legacy requests one by one,
   and the total at 35137.

What is left:

10. A proof that `EmulatorRuntime` drives `GoodweServer` only in ways its updater allows.

## Running it

    tlc -workers 2 -config gate_server.cfg GoodweServer
    tlapm GoodweServer_proofs.tla

Each run's module and configuration are in `PROJECT.json` under "runs". The passing
runs take from a second to a minute or two each: `runtime_refresh` has most states
(650 000), and `values_published` most work in each.
