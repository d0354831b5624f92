-------------------------------- MODULE Emulator --------------------------------
(****************************************************************************)
(* The three upstream sessions, the refresh cycle and data_timeout over one *)
(* clock.  Each part keeps its promise by itself (UpstreamSession,          *)
(* EmulatorRuntime, GoodweServer); whether masters are served depends on    *)
(* how a cooldown, the length of a poll and the sleep between two cycles    *)
(* add up against data_timeout, and that is the subject here.               *)
(*                                                                          *)
(* A session reads with one attempt, as all three clients do (retries = 0), *)
(* so a read is a single step, at any moment of the poll it belongs to.     *)
(* Steps that the updater owes take no time: the clock waits for them.      *)
(****************************************************************************)
EXTENDS Integers

CONSTANTS
  Sources,      \* the enabled sources
  Threshold,    \* failure_threshold of their breakers
  Cooldown,     \* cooldown_seconds, in clock ticks
  Interval,     \* the sleep of _update_loop
  PollTime,     \* bound: no read takes longer than this (the code bounds each request)
  DataTimeout,  \* goodwe_emulator.data_timeout
  MaxLost,      \* bound: failed cycles are counted up to here
  NoSuccess     \* no refresh has succeeded yet

Period == Interval + PollTime

ASSUME ThresholdAssumption == Threshold \in Nat \ {0}
ASSUME CooldownAssumption == Cooldown \in Nat \ {0}
ASSUME IntervalAssumption == Interval \in Nat \ {0}
ASSUME PollTimeAssumption == PollTime \in Nat
ASSUME DataTimeoutAssumption == DataTimeout \in Nat
ASSUME MaxLostAssumption == MaxLost \in Nat /\ DataTimeout < (MaxLost + 1) * Period
ASSUME NoSuccessAssumption == NoSuccess \notin Int

\* Ages past the timeout are all alike.
MaxAge == DataTimeout + 1

\* Once all devices are up, the poll at hand may still fail and start a cooldown;
\* a cycle that begins just before the end of the cooldown is lost; and a
\* connection that died meanwhile may cost one more.
Recovery == 3 * PollTime + Interval + (IF Interval < Cooldown THEN Cooldown ELSE Interval)

VARIABLES
  device,     \* each device: "up", "odd" (answers what the validator rejects)
              \* or "down"
  link,       \* each session's connection: "none", "live", or "dead" without
              \* the session having noticed
  failures,   \* _consecutive_failures of each breaker
  cooldown,   \* ticks until each _opened_until_monotonic
  poll,       \* each task of the cycle: "running", "ok" or "failed"
  phase,      \* the updater: "sleeping" or "polling"
  clock,      \* ticks since this phase began
  age,        \* ticks since the last mark_data_received
  lost,       \* auxiliary: cycles that failed since then
  calm        \* auxiliary: ticks since all devices are up

sessionVars == <<link, failures, cooldown>>
cycleVars == <<phase, clock>>
history == <<lost, calm>>
vars == <<device, sessionVars, poll, cycleVars, age, history>>

TypeOK ==
  /\ device \in [Sources -> {"up", "odd", "down"}]
  /\ link \in [Sources -> {"none", "live", "dead"}]
  /\ failures \in [Sources -> 0 .. Threshold]
  /\ cooldown \in [Sources -> 0 .. Cooldown]
  /\ poll \in [Sources -> {"running", "ok", "failed"}]
  /\ phase \in {"sleeping", "polling"}
  /\ clock \in 0 .. IF phase = "sleeping" THEN Interval ELSE PollTime
  /\ age \in 0 .. MaxAge \cup {NoSuccess}
  /\ lost \in 0 .. MaxLost
  /\ calm \in 0 .. Recovery + 1

\* The first cycle begins at once.
Init ==
  /\ device \in [Sources -> {"up", "odd", "down"}]
  /\ link = [s \in Sources |-> "none"]
  /\ failures = [s \in Sources |-> 0]
  /\ cooldown = [s \in Sources |-> 0]
  /\ poll = [s \in Sources |-> "failed"]
  /\ phase = "sleeping"
  /\ clock = Interval
  /\ age = NoSuccess
  /\ lost = 0
  /\ calm = 0

------------------------------------------------------------------------------
(* The world *)

AllUp == \A s \in Sources : device[s] = "up"

\* A device or its network changes.  Going down kills the connection; a dropped
\* connection is a device that was down for a moment.
DeviceChanges(s) ==
  /\ \E d \in {"up", "odd", "down"} \ {device[s]} :
       /\ device' = [device EXCEPT ![s] = d]
       /\ link' = [link EXCEPT ![s] = IF d = "down" /\ @ = "live" THEN "dead" ELSE @]
  /\ calm' = 0
  /\ UNCHANGED <<failures, cooldown, poll, cycleVars, age, lost>>

Up(n, limit) == IF n < limit THEN n + 1 ELSE n
Down(n) == IF n > 0 THEN n - 1 ELSE n

\* Reads that are given more time after every lost cycle.
WaitingLonger ==
  \/ phase = "sleeping" /\ clock < Interval
  \/ /\ phase = "polling"
     /\ clock < PollTime + lost
     /\ \E s \in Sources : poll[s] = "running"

\* The sleep is not over, or the cycle waits for a read that still has time.
Waiting ==
  \/ phase = "sleeping" /\ clock < Interval
  \/ /\ phase = "polling"
     /\ clock < PollTime
     /\ \E s \in Sources : poll[s] = "running"

\* What time does to everything but the updater.
Aging ==
  /\ cooldown' = [s \in Sources |-> Down(cooldown[s])]
  /\ age' = IF age = NoSuccess THEN NoSuccess ELSE Up(age, MaxAge)
  /\ calm' = IF AllUp THEN Up(calm, Recovery + 1) ELSE 0
  /\ UNCHANGED <<device, link, failures, poll, phase, lost>>

Tick ==
  /\ Waiting
  /\ clock' = clock + 1
  /\ Aging

------------------------------------------------------------------------------
(* One cycle *)

\* A breaker that lets every request through.
Careless(s) == TRUE

\* allow_request
Admitted(s) == cooldown[s] = 0

\* The sleep is over and _refresh_once submits its tasks.  A source that is cooling
\* down fails at once; the others use the connection they have or open one, and
\* to a device that is down the attempt is as good as dead.
StartCycle ==
  /\ phase = "sleeping"
  /\ clock = Interval
  /\ phase' = "polling"
  /\ clock' = 0
  /\ poll' = [s \in Sources |-> IF Admitted(s) THEN "running" ELSE "failed"]
  /\ link' = [s \in Sources |->
       IF link[s] # "none" \/ ~Admitted(s) THEN link[s]
       ELSE IF device[s] = "down" THEN "dead" ELSE "live"]
  /\ UNCHANGED <<device, failures, cooldown, age, history>>

\* mark_success
ResetCount(s) == failures' = [failures EXCEPT ![s] = 0]

\* A failure that does not close the connection.
CountFailureOnly(s) ==
  LET n == Up(failures[s], Threshold)
  IN  /\ failures' = [failures EXCEPT ![s] = n]
      /\ cooldown' = [cooldown EXCEPT ![s] = IF n = Threshold THEN Cooldown ELSE @]
      /\ UNCHANGED link

\* mark_failure; _close_and_reset
CountFailure(s) ==
  LET n == Up(failures[s], Threshold)
  IN  /\ failures' = [failures EXCEPT ![s] = n]
      /\ cooldown' = [cooldown EXCEPT ![s] = IF n = Threshold THEN Cooldown ELSE @]
      /\ link' = [link EXCEPT ![s] = "none"]

\* The device answers, over a dead connection too if the Modbus library restored
\* it; the session is content, but the validator may not be.
ReadAnswers(s) ==
  /\ poll[s] = "running"
  /\ device[s] # "down"
  /\ poll' = [poll EXCEPT ![s] = IF device[s] = "up" THEN "ok" ELSE "failed"]
  /\ link' = [link EXCEPT ![s] = "live"]
  /\ ResetCount(s)
  /\ UNCHANGED <<device, cooldown, cycleVars, age, history>>

\* No connection, no answer, an error or an exception.
ReadFails(s) ==
  /\ poll[s] = "running"
  /\ device[s] = "down" \/ link[s] = "dead"
  /\ poll' = [poll EXCEPT ![s] = "failed"]
  /\ CountFailure(s)
  /\ UNCHANGED <<device, cycleVars, age, history>>

Read(s) == ReadAnswers(s) \/ ReadFails(s)

\* A sleep that is measured from the start of the cycle.
EndCycleOnTheClock ==
  /\ phase = "polling"
  /\ \A s \in Sources : poll[s] # "running"
  /\ phase' = "sleeping"
  /\ UNCHANGED <<device, sessionVars, poll, clock, calm>>

\* All results are in; they lead to a publication or to mark_upstream_failed.
EndCycle ==
  /\ phase = "polling"
  /\ \A s \in Sources : poll[s] # "running"
  /\ phase' = "sleeping"
  /\ clock' = 0
  /\ UNCHANGED <<device, sessionVars, poll, calm>>

\* mark_upstream_failed keeps serving what is not stale yet: the age decides.
Fail ==
  /\ EndCycle
  /\ \E s \in Sources : poll[s] = "failed"
  /\ lost' = Up(lost, MaxLost)
  /\ UNCHANGED age

Publish ==
  /\ EndCycle
  /\ \A s \in Sources : poll[s] = "ok"
  /\ age' = 0
  /\ lost' = 0

Next ==
  \/ Tick
  \/ StartCycle \/ Fail \/ Publish
  \/ \E s \in Sources : DeviceChanges(s) \/ Read(s)

Spec == Init /\ [][Next]_vars

\* Time passes, every read ends, the updater never stops.
LiveSpec ==
  /\ Spec
  /\ WF_vars(Tick)
  /\ WF_vars(StartCycle)
  /\ WF_vars(Fail \/ Publish)
  /\ \A s \in Sources : WF_vars(Read(s))

------------------------------------------------------------------------------
(* Properties *)

\* allow_datastore_access would let a request through.
Fresh == age # NoSuccess /\ age <= DataTimeout

\* Data grows old only because cycles fail: each one costs at most one sleep and one
\* poll.  So healthy sources are served without a gap if data_timeout is at least
\* Period, and k failed cycles in a row are tolerated if it is k + 1 times that.
AgeExplainedByLostCycles ==
  age # NoSuccess => age <= (lost + 1) * Period

\* However the sessions, their cooldowns and dead connections stood when the last
\* device came up, masters are served within a time that adds up from the
\* parameters, and from then on.  It takes a data_timeout of at least Period, which
\* config.py does not ask for, and a threshold above one, so that a connection
\* that died unnoticed starts no cooldown.
ServedInTime ==
  Period <= DataTimeout /\ Threshold > 1 /\ calm > Recovery => Fresh

\* Once all devices stay up, masters are served without end.
ServiceResumes == Period <= DataTimeout => (<>[]AllUp => <>[]Fresh)

Mode(s) ==
  IF cooldown[s] > 0 THEN "open"
  ELSE IF failures[s] = Threshold THEN "half" ELSE "closed"

Breaker(s) == INSTANCE CooldownBreaker WITH mode <- Mode(s), inFlight <- poll[s] = "running"

\* In the composition, too, each source is read as the three-mode breaker allows: a
\* device that is down is left alone for the whole cooldown, whatever the other
\* sources do, and is then tried once.
ImplementsBreakers ==
  /\ \A s \in Sources : Breaker(s)!Init
  /\ [][\A s \in Sources : [Breaker(s)!Next]_(Breaker(s)!vars)]_vars

================================================================================
