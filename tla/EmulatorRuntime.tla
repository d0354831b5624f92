---------------------------- MODULE EmulatorRuntime ----------------------------
(****************************************************************************)
(* The refresh cycle of app/main.py: poll the enabled sources at the same   *)
(* time, wait for all of them, and publish all of what they delivered or    *)
(* none of it.  The question this module asks is how old the values behind  *)
(* a register can be while the downstream circuit lets them be read, since  *)
(* data_timeout is measured from the publication and not from the           *)
(* measurement.                                                             *)
(*                                                                          *)
(* A payload is abstracted to what the validators and _merge tell apart:    *)
(*   "empty"    {}: the session is cooling down, or the reader failed       *)
(*   "invalid"  fields, but not all that _is_valid_* requires               *)
(*   "partial"  the required fields without all of the optional ones        *)
(*   "full"     every field the source has                                  *)
(****************************************************************************)
EXTENDS Naturals

CONSTANTS
  Enabled,      \* the sources with enabled = true in the configuration
  SyntheticPv,  \* fronius.synthetic_pv_enabled
  DataTimeout,  \* goodwe_emulator.data_timeout, in clock ticks
  PollTime,     \* bound: no poll takes longer than this, in clock ticks
  MapOutcomes,  \* what build_register_map may do with this configuration
  Never         \* no measurement yet

Sources == {"em540", "fronius", "victron"}

ASSUME EnabledAssumption == Enabled \subseteq Sources
ASSUME SyntheticAssumption == SyntheticPv \in BOOLEAN
ASSUME TimesAssumption == DataTimeout \in Nat /\ PollTime \in Nat
ASSUME OutcomesAssumption == MapOutcomes \subseteq {"built", "raises"}
ASSUME NeverAssumption == Never \notin Nat

\* Ages beyond every bound that is compared with them are all alike.
MaxAge == DataTimeout + PollTime + 1
Age == 0 .. MaxAge \cup {Never}
Payload == {"empty", "invalid", "partial", "full"}
Field == {"required", "optional"}

VARIABLES
  stage,      \* the refresh thread: "idle" (asleep), "polling", or "dead"
  poll,       \* each source's task: "running", "sampled" (the device has
              \* answered) or "done"
  payload,    \* what each task has to deliver
  sampled,    \* age of what each task has read from its device
  elapsed,    \* ticks since the cycle began
  snapshot,   \* age of the values in Snapshot, by source and kind of field
  stamp       \* age of the last mark_data_received

taskVars == <<poll, payload, sampled>>
vars == <<stage, taskVars, elapsed, snapshot, stamp>>

TypeOK ==
  /\ stage \in {"idle", "polling", "dead"}
  /\ poll \in [Sources -> {"running", "sampled", "done"}]
  /\ payload \in [Sources -> Payload]
  /\ sampled \in [Sources -> Age]
  /\ elapsed \in 0 .. PollTime
  /\ snapshot \in [Sources -> [Field -> Age]]
  /\ stamp \in Age

Init ==
  /\ stage = "idle"
  /\ poll = [s \in Sources |-> "done"]
  /\ payload = [s \in Sources |-> "empty"]
  /\ sampled = [s \in Sources |-> Never]
  /\ elapsed = 0
  /\ snapshot = [s \in Sources |-> [f \in Field |-> Never]]
  /\ stamp = Never

------------------------------------------------------------------------------
(* The sources *)

\* What the reader of a source can return.  The EM540 is read in one block; the
\* Fronius and the Victron reader skip what single requests fail to deliver,
\* and the Fronius reader puts zeros for a power it could not read.
Yields(s) ==
  CASE s = "em540"   -> {"empty", "invalid", "full"}
    [] s = "fronius" -> {"empty", "partial", "full"}
    [] s = "victron" -> {"empty", "invalid", "partial", "full"}

\* The transformations of _poll_source: synthetic PV supplies the one field a
\* Fronius payload needs, even where there is no payload at all.  Synthetic grid
\* export adds no voltage, so it makes no EM540 payload valid, and battery
\* scaling leaves the fields that are there.
Transformed(s, p) ==
  IF s = "fronius" /\ SyntheticPv /\ p = "empty" THEN "partial" ELSE p

\* _is_valid_em540, _is_valid_fronius, _is_valid_victron
Valid(p) == p \in {"partial", "full"}

------------------------------------------------------------------------------
(* Time *)

Older(a) == IF a \in Nat /\ a < MaxAge THEN a + 1 ELSE a

\* A reader that waits for its device without a timeout.
TickWithoutTimeout ==
  /\ elapsed' = IF stage = "polling" THEN elapsed + 1 ELSE elapsed
  /\ sampled' = [s \in Sources |-> Older(sampled[s])]
  /\ snapshot' = [s \in Sources |-> [f \in Field |-> Older(snapshot[s][f])]]
  /\ stamp' = Older(stamp)
  /\ UNCHANGED <<stage, poll, payload>>

\* While a cycle runs its tasks are within PollTime, for each request has a socket
\* timeout; what the refresh thread does once they are all done takes no time
\* worth counting.
Tick ==
  /\ stage = "polling" => elapsed < PollTime /\ \E s \in Sources : poll[s] # "done"
  /\ elapsed' = IF stage = "polling" THEN elapsed + 1 ELSE elapsed
  /\ sampled' = [s \in Sources |-> Older(sampled[s])]
  /\ snapshot' = [s \in Sources |-> [f \in Field |-> Older(snapshot[s][f])]]
  /\ stamp' = Older(stamp)
  /\ UNCHANGED <<stage, poll, payload>>

------------------------------------------------------------------------------
(* One cycle *)

\* _refresh_once submits a task per source; a disabled source has nothing to do.
StartCycle ==
  /\ stage = "idle"
  /\ stage' = "polling"
  /\ poll' = [s \in Sources |-> IF s \in Enabled THEN "running" ELSE "done"]
  /\ payload' = [s \in Sources |-> "empty"]
  /\ sampled' = [s \in Sources |-> Never]
  /\ elapsed' = 0
  /\ UNCHANGED <<snapshot, stamp>>

\* The device answers the first request of the reader, or the reader gives up.
Sample(s) ==
  /\ poll[s] = "running"
  /\ poll' = [poll EXCEPT ![s] = "sampled"]
  /\ \E p \in Yields(s) : payload' = [payload EXCEPT ![s] = p]
  /\ sampled' = [sampled EXCEPT ![s] = 0]
  /\ UNCHANGED <<stage, elapsed, snapshot, stamp>>

\* The reader's other requests are over; _poll_source transforms the payload.
FinishPoll(s) ==
  /\ poll[s] = "sampled"
  /\ poll' = [poll EXCEPT ![s] = "done"]
  /\ payload' = [payload EXCEPT ![s] = Transformed(s, @)]
  /\ UNCHANGED <<stage, sampled, elapsed, snapshot, stamp>>

\* f.result() has returned for every task.
AllDone == stage = "polling" /\ \A s \in Sources : poll[s] = "done"

Delivered(s) == Valid(payload[s])

\* _merge for one source: setattr for the fields that came, nothing else.
MergedFrom(s) ==
  [required |-> sampled[s],
   optional |-> IF payload[s] = "full" THEN sampled[s]
                                       ELSE snapshot[s]["optional"]]

\* The snapshot once the payloads of these sources are merged.
Merged(set) == [s \in Sources |-> IF s \in set THEN MergedFrom(s) ELSE snapshot[s]]

\* A cycle that keeps the payloads it got although another source failed.
FailCycleButMerge ==
  /\ AllDone
  /\ \E s \in Enabled : ~Delivered(s)
  /\ stage' = "idle"
  /\ snapshot' = Merged({s \in Enabled : Delivered(s)})
  /\ UNCHANGED <<taskVars, elapsed, stamp>>

\* A cycle that marks a success whatever it got.
FailCycleButMark ==
  /\ AllDone
  /\ \E s \in Enabled : ~Delivered(s)
  /\ stage' = "idle"
  /\ stamp' = 0
  /\ UNCHANGED <<taskVars, elapsed, snapshot>>

\* Some enabled source failed: nothing is merged and mark_upstream_failed is
\* called, which leaves the time of the last success alone.
FailCycle ==
  /\ AllDone
  /\ \E s \in Enabled : ~Delivered(s)
  /\ stage' = "idle"
  /\ UNCHANGED <<taskVars, elapsed, snapshot, stamp>>

\* A publication that is not reported to the breaker.
PublishUnmarked ==
  /\ AllDone
  /\ \A s \in Enabled : Delivered(s)
  /\ "built" \in MapOutcomes
  /\ snapshot' = Merged(Enabled)
  /\ stage' = "idle"
  /\ UNCHANGED <<taskVars, elapsed, stamp>>

\* Every enabled source delivered.
Publish ==
  /\ AllDone
  /\ \A s \in Enabled : Delivered(s)
  /\ "built" \in MapOutcomes
  /\ snapshot' = Merged(Enabled)
  /\ stamp' = 0
  /\ stage' = "idle"
  /\ UNCHANGED <<taskVars, elapsed>>

\* build_register_map raises: the snapshot is merged already, the exception
\* leaves _update_loop, and the refresh thread ends.
PublishRaises ==
  /\ AllDone
  /\ \A s \in Enabled : Delivered(s)
  /\ "raises" \in MapOutcomes
  /\ snapshot' = Merged(Enabled)
  /\ stage' = "dead"
  /\ UNCHANGED <<taskVars, elapsed, stamp>>

EndCycle == FailCycle \/ Publish \/ PublishRaises

Next ==
  \/ Tick
  \/ StartCycle
  \/ \E s \in Sources : Sample(s) \/ FinishPoll(s)
  \/ EndCycle

Spec == Init /\ [][Next]_vars

\* Time passes, socket timeouts end every poll, and the refresh thread runs
\* until an exception ends it.
LiveSpec ==
  /\ Spec
  /\ WF_vars(Tick)
  /\ WF_vars(StartCycle)
  /\ \A s \in Sources : WF_vars(Sample(s) \/ FinishPoll(s))
  /\ WF_vars(EndCycle)

------------------------------------------------------------------------------
(* Properties *)

\* The circuit may be closed: the last success is within data_timeout.
Servable == stamp # Never /\ stamp <= DataTimeout

\* While registers may be read, every required value in them was measured at
\* most data_timeout plus the length of one poll ago.
RequiredValuesRecent ==
  Servable => \A s \in Enabled :
    /\ snapshot[s]["required"] # Never
    /\ snapshot[s]["required"] <= DataTimeout + PollTime

\* The required values of all sources were measured within one poll of each
\* other: no cycle mixes a meter of now with a battery of another time.
Coherent ==
  \A s, t \in Enabled :
    LET a == snapshot[s]["required"]
        b == snapshot[t]["required"]
    IN  /\ a = Never <=> b = Never
        /\ a # Never /\ b # Never => a <= b + PollTime

\* Sources that keep delivering are published again and again, unless an
\* exception ended the refresh thread.
PublishesWhileDelivered ==
  <>[](\A s \in Enabled : poll[s] = "done" => Delivered(s)) /\ [](stage # "dead")
    => []<>(stamp = 0)

------------------------------------------------------------------------------
(* What the code does not do *)

\* Every value that may be served is within the stale-data timeout, give or take
\* a poll, the optional ones included.
AllValuesRecent ==
  Servable => \A s \in Enabled, f \in Field :
    snapshot[s][f] # Never => snapshot[s][f] <= DataTimeout + PollTime

\* "After upstream data arrives, the breaker closes and normal responses resume."
ResumesWhenDelivered ==
  <>[](\A s \in Enabled : poll[s] = "done" => Delivered(s)) => <>Servable

================================================================================
