----------------------------- MODULE GoodweServer ------------------------------
(****************************************************************************)
(* The downstream side of the emulator: app/goodwe/server.py, driven by the *)
(* refresh thread of app/main.py.                                           *)
(*                                                                          *)
(* Three threads share one _CircuitBreaker and one register block.  The     *)
(* refresh thread publishes a register map and marks the breaker; the two   *)
(* Modbus listeners (RTU and SOCKET framing) answer read requests.  Every   *)
(* `with self._lock` block of the breaker is one action here, because the   *)
(* code releases the lock between computing the age of the data, opening    *)
(* the circuit and testing it.  A publication is written one register at a  *)
(* time, and readers do not take the lock the writer holds.                 *)
(****************************************************************************)
EXTENDS Naturals

CONSTANTS
  Servers,        \* the listener threads
  DataTimeout,    \* goodwe_emulator.data_timeout, in clock ticks
  NumRegs,        \* registers in one publication, numbered in writing order
  NoSuccess       \* _last_success_monotonic is None

ASSUME TimeoutAssumption == DataTimeout \in Nat
ASSUME RegsAssumption == NumRegs \in Nat \ {0}
ASSUME NoSuccessAssumption == NoSuccess \notin Nat

Regs == 1 .. NumRegs

\* Where the content of a register comes from: the constructor's zeros, the
\* publication last begun, the one before that, an earlier one, or a write
\* request of a downstream master.
Generation == {"zero", "cur", "prev", "older", "master"}

VARIABLES
  age,        \* monotonic() - _last_success_monotonic; ages past the timeout
              \* behave alike and are all DataTimeout + 1
  open,       \* _CircuitBreaker._open
  regs,       \* the holding registers, by generation
  upc,        \* where the refresh thread stands
  written,    \* registers of the current publication already written
  pc,         \* where each listener thread stands
  freshSeen,  \* auxiliary: was the data fresh at some instant of this request?
  reply       \* generations in the last reply; {} stands for DEVICE_BUSY

breakerVars == <<age, open>>
updaterVars == <<upc, written>>
serverVars == <<pc, freshSeen, reply>>
vars == <<age, open, regs, upc, written, pc, freshSeen, reply>>

TypeOK ==
  /\ age \in 0 .. DataTimeout + 1 \cup {NoSuccess}
  /\ open \in BOOLEAN
  /\ regs \in [Regs -> Generation]
  /\ upc \in {"idle", "failed", "trip", "write", "mark"}
  /\ written \in 0 .. NumRegs
  /\ pc \in [Servers -> {"idle", "trip", "gate", "copy"}]
  /\ freshSeen \in [Servers -> BOOLEAN]
  /\ reply \in [Servers -> SUBSET Generation]

\* stale_age_seconds() is None or exceeds the timeout.
Stale == age = NoSuccess \/ age > DataTimeout

Init ==
  /\ age = NoSuccess
  /\ open = TRUE
  /\ regs = [a \in Regs |-> "zero"]
  /\ upc = "idle"
  /\ written = 0
  /\ pc = [s \in Servers |-> "idle"]
  /\ freshSeen = [s \in Servers |-> FALSE]
  /\ reply = [s \in Servers |-> {}]

------------------------------------------------------------------------------
(* Time *)

\* The monotonic clock advances, between any two steps of any thread.
Tick ==
  /\ age # NoSuccess
  /\ age <= DataTimeout
  /\ age' = age + 1
  /\ UNCHANGED <<open, regs, upc, written, serverVars>>

------------------------------------------------------------------------------
(* The refresh thread: _refresh_once after its polls have returned *)

\* Some enabled source did not deliver: mark_upstream_failed is called.
RefreshFailed ==
  /\ upc = "idle"
  /\ upc' = "failed"
  /\ UNCHANGED <<breakerVars, regs, written, serverVars>>

\* A breaker that opens on every failed refresh, fresh data or not.
MarkFailureAlways ==
  /\ upc = "failed"
  /\ upc' = "trip"
  /\ UNCHANGED <<breakerVars, regs, written, serverVars>>

\* mark_failure: the age is read under the lock and judged after it.
MarkFailure ==
  /\ upc = "failed"
  /\ upc' = IF Stale THEN "trip" ELSE "idle"
  /\ UNCHANGED <<breakerVars, regs, written, serverVars>>

\* The _open_circuit call at the end of mark_failure.
TripOnFailure ==
  /\ upc = "trip"
  /\ open' = TRUE
  /\ upc' = "idle"
  /\ UNCHANGED <<age, regs, written, serverVars>>

\* One publication later, what was current is the previous one.
Aged(g) ==
  CASE g = "cur" -> "prev"
    [] g = "prev" -> "older"
    [] OTHER -> g

\* Every source delivered and build_register_map has produced the new map.
BeginPublication ==
  /\ upc = "idle"
  /\ upc' = "write"
  /\ written' = 0
  /\ regs' = [a \in Regs |-> Aged(regs[a])]
  /\ UNCHANGED <<breakerVars, serverVars>>

\* A loop that leaves the last register of the map unwritten.
WriteAllButLast ==
  /\ upc = "write"
  /\ written < NumRegs
  /\ regs' = IF written + 1 = NumRegs
               THEN regs
               ELSE [regs EXCEPT ![written + 1] = "cur"]
  /\ written' = written + 1
  /\ upc' = IF written + 1 = NumRegs THEN "mark" ELSE "write"
  /\ UNCHANGED <<breakerVars, serverVars>>

\* A loop that runs one register past the end of the map.
WriteOnePast ==
  /\ upc = "write"
  /\ regs' = [a \in Regs |-> IF a = written + 1 THEN "cur" ELSE regs[a]]
  /\ written' = written + 1
  /\ upc' = IF written = NumRegs THEN "mark" ELSE "write"
  /\ UNCHANGED <<breakerVars, serverVars>>

\* One setValues call of update_holding_registers.
WriteRegister ==
  /\ upc = "write"
  /\ written < NumRegs
  /\ regs' = [regs EXCEPT ![written + 1] = "cur"]
  /\ written' = written + 1
  /\ upc' = IF written + 1 = NumRegs THEN "mark" ELSE "write"
  /\ UNCHANGED <<breakerVars, serverVars>>

\* mark_success called before update_holding_registers.
MarkSuccessEarly ==
  /\ upc \in {"write", "mark"}
  /\ age' = 0
  /\ open' = FALSE
  /\ freshSeen' = [s \in Servers |-> TRUE]
  /\ upc' = IF upc = "mark" THEN "idle" ELSE upc
  /\ UNCHANGED <<regs, written, pc, reply>>

\* A mark_success that stamps the time and forgets to close the circuit.
MarkSuccessStaysOpen ==
  /\ upc = "mark"
  /\ age' = 0
  /\ freshSeen' = [s \in Servers |-> TRUE]
  /\ upc' = "idle"
  /\ UNCHANGED <<open, regs, written, pc, reply>>

\* mark_success: stamp the time and close the circuit, under the lock.
MarkSuccess ==
  /\ upc = "mark"
  /\ age' = 0
  /\ open' = FALSE
  /\ freshSeen' = [s \in Servers |-> TRUE]
  /\ upc' = "idle"
  /\ UNCHANGED <<regs, written, pc, reply>>

------------------------------------------------------------------------------
(* A listener thread: one read request through _BreakerDataBlock.getValues *)

\* A stale age that is noticed but does not open the circuit.
SampleAgeOnly(s) ==
  /\ pc[s] = "idle"
  /\ pc' = [pc EXCEPT ![s] = "gate"]
  /\ freshSeen' = [freshSeen EXCEPT ![s] = ~Stale]
  /\ reply' = [reply EXCEPT ![s] = {}]
  /\ UNCHANGED <<breakerVars, regs, updaterVars>>

\* allow_datastore_access reads the age under the lock and judges it after.
SampleAge(s) ==
  /\ pc[s] = "idle"
  /\ pc' = [pc EXCEPT ![s] = IF Stale THEN "trip" ELSE "gate"]
  /\ freshSeen' = [freshSeen EXCEPT ![s] = ~Stale]
  /\ reply' = [reply EXCEPT ![s] = {}]
  /\ UNCHANGED <<breakerVars, regs, updaterVars>>

\* The _open_circuit call of allow_datastore_access.
TripOnStale(s) ==
  /\ pc[s] = "trip"
  /\ open' = TRUE
  /\ pc' = [pc EXCEPT ![s] = "gate"]
  /\ UNCHANGED <<age, regs, updaterVars, freshSeen, reply>>

\* A listener that tests the circuit and never answers when it is open.
GateStuck(s) ==
  /\ pc[s] = "gate"
  /\ ~open
  /\ pc' = [pc EXCEPT ![s] = "copy"]
  /\ UNCHANGED <<breakerVars, regs, updaterVars, freshSeen, reply>>

\* The second critical section: an open circuit means DEVICE_BUSY.
Gate(s) ==
  /\ pc[s] = "gate"
  /\ pc' = [pc EXCEPT ![s] = IF open THEN "idle" ELSE "copy"]
  /\ UNCHANGED <<breakerVars, regs, updaterVars, freshSeen, reply>>

\* super().getValues: one slice of the block, taken at once.  Registers are not
\* written in the order of their addresses, so any of them may share a slice.
CopyRegisters(s) ==
  /\ pc[s] = "copy"
  /\ \E slice \in (SUBSET Regs) \ {{}} :
       reply' = [reply EXCEPT ![s] = {regs[a] : a \in slice}]
  /\ pc' = [pc EXCEPT ![s] = "idle"]
  /\ UNCHANGED <<breakerVars, regs, updaterVars, freshSeen>>

\* A write request: _BreakerDataBlock overrides getValues and not setValues, so
\* the breaker has no say, and the writer's lock is not taken.
MasterWrite(s) ==
  /\ pc[s] = "idle"
  /\ \E a \in Regs : regs' = [regs EXCEPT ![a] = "master"]
  /\ UNCHANGED <<breakerVars, updaterVars, serverVars>>

------------------------------------------------------------------------------

Updater ==
  \/ RefreshFailed
  \/ MarkFailure
  \/ TripOnFailure
  \/ BeginPublication
  \/ WriteRegister
  \/ MarkSuccess

\* A request, once received, is carried through by its thread.
Answering(s) == TripOnStale(s) \/ Gate(s) \/ CopyRegisters(s)

Next ==
  \/ Tick
  \/ Updater
  \/ \E s \in Servers : SampleAge(s) \/ MasterWrite(s) \/ Answering(s)

Spec == Init /\ [][Next]_vars

\* Time passes and the listeners run; nothing is assumed of the refresh
\* thread, which an exception would end (main.py has no handler round it).
ListenersFair == WF_vars(Tick) /\ \A s \in Servers : WF_vars(Answering(s))
FairSpec == Spec /\ ListenersFair

------------------------------------------------------------------------------
(* Properties *)

\* A request reads the registers only if the data was within data_timeout at
\* some instant between its age check and its gate check, however the steps of
\* allow_datastore_access interleave with mark_success and with the other
\* listener.
ServedWhileFresh ==
  \A s \in Servers : pc[s] = "copy" \/ reply[s] # {} => freshSeen[s]

\* A reply never holds the zeros of a register that has not been published
\* yet, nor a value that two later publications should have replaced: it is
\* made of the last two publications, even while one is being written, and of
\* what a master wrote over them.
ReplyFromLastTwoPublications ==
  \A s \in Servers : reply[s] \subseteq {"cur", "prev", "master"}

\* "Intermittent upstream failures are tolerated while cached data is fresh":
\* when mark_failure opens the circuit, the data is stale at that very moment.
FailureToleratedWhileFresh == upc = "trip" => Stale

\* The circuit closes only when a publication is completely in the registers
\* (but for what a master wrote over it).
ClosesOnlyOnCompletePublication ==
  [][open /\ ~open' => \A a \in Regs : regs[a] \in {"cur", "master"}]_vars

\* If the refresh thread runs and from some point on every refresh succeeds, the
\* circuit is closed again and again, whatever the listeners do.
ClosesWhileHealthy == WF_vars(Updater) /\ <>[](upc # "failed") => []<>(~open)

\* If publications stop, for any reason, a time comes after which no request
\* is given registers.
StopsServingStaleData ==
  <>[](upc # "mark") => <>[](\A s \in Servers : pc[s] # "copy")

\* Where a listener stands, as its client sees it.
Requests ==
  [s \in Servers |-> CASE pc[s] = "idle" -> "idle"
                       [] pc[s] = "copy" -> "granted"
                       [] OTHER          -> "waiting"]

Gated == INSTANCE FreshnessGate WITH stale <- Stale, req <- Requests

\* The refresh thread and the listeners implement the abstract gate: what they
\* do is grant or refuse requests, and they answer every one.
ImplementsFreshnessGate == Gated!Spec

------------------------------------------------------------------------------
(* What the code does not do *)

\* "keeps circuit closed when data age is under five seconds": data within its
\* timeout means a closed circuit.
FreshMeansClosed == ~Stale => ~open

\* A multi-register value in a reply belongs to one publication.
ReplyFromOnePublication ==
  \A s \in Servers : ~({"cur", "prev"} \subseteq reply[s])

================================================================================
