---------------------------- MODULE UpstreamSession ----------------------------
(****************************************************************************)
(* One upstream connection of the emulator and the breaker that guards it:  *)
(* PersistentModbusSession and ModbusClientCircuitBreaker of                *)
(* app/datasources/modbus_resilience.py.                                    *)
(*                                                                          *)
(* A read holds the session lock from its breaker check to its return, so   *)
(* the breaker's own lock adds nothing and its calls are part of the steps  *)
(* here.  Connecting and reading take time: the device, the network and the *)
(* clock move between them.  A connection dies without the session noticing *)
(* it, because _persistent_connected is set once and never looked at again. *)
(****************************************************************************)
EXTENDS Naturals

CONSTANTS
  Callers,            \* threads that read through this session
  Attempts,           \* retries + 1, at least 1
  FailureThreshold,   \* consecutive failed reads that open the breaker
  Cooldown            \* cooldown_seconds, in clock ticks

ASSUME AttemptsAssumption == Attempts \in Nat \ {0}
ASSUME ThresholdAssumption == FailureThreshold \in Nat \ {0}
ASSUME CooldownAssumption == Cooldown \in Nat \ {0}

VARIABLES
  upstream,   \* the device: "up", "mute" (connects, answers nothing of use),
              \* "down", or "unmakeable" (create_client raises)
  client,     \* _client: "none", "created", or "connected" (_persistent_connected)
  sock,       \* is the connection behind the client alive?
  failures,   \* _consecutive_failures; values past the threshold behave alike
  cooldown,   \* ticks until _opened_until_monotonic
  pc,         \* where each caller stands in read()
  attempt,    \* the loop variable of each caller
  returned,   \* what the last read() of each caller gave
  steady,     \* auxiliary: the device has been up since the current read began
  unclosed    \* auxiliary: clients created and not closed yet

breakerVars == <<failures, cooldown>>
clientVars == <<client, sock, unclosed>>
callVars == <<pc, attempt, returned>>
vars == <<upstream, clientVars, breakerVars, callVars, steady>>

TypeOK ==
  /\ upstream \in {"up", "mute", "down", "unmakeable"}
  /\ client \in {"none", "created", "connected"}
  /\ sock \in BOOLEAN
  /\ failures \in 0 .. FailureThreshold
  /\ cooldown \in 0 .. Cooldown
  /\ pc \in [Callers -> {"idle", "connect", "read"}]
  /\ attempt \in [Callers -> 1 .. Attempts]
  /\ returned \in [Callers -> {"nothing", "payload", "raised"}]
  /\ steady \in BOOLEAN
  /\ unclosed \in Nat

Init ==
  /\ upstream \in {"up", "mute", "down", "unmakeable"}
  /\ client = "none"
  /\ sock = FALSE
  /\ failures = 0
  /\ cooldown = 0
  /\ pc = [c \in Callers |-> "idle"]
  /\ attempt = [c \in Callers |-> 1]
  /\ returned = [c \in Callers |-> "nothing"]
  /\ steady = FALSE
  /\ unclosed = 0

------------------------------------------------------------------------------
(* The world *)

\* The device or the network changes.  Going down kills the connection, and a
\* connection dropped for any other reason is a device that was down for a
\* moment.
UpstreamChanges ==
  /\ \E u \in {"up", "mute", "down", "unmakeable"} \ {upstream} :
       /\ upstream' = u
       /\ sock' = (sock /\ u # "down")
  /\ steady' = FALSE
  /\ UNCHANGED <<client, unclosed, breakerVars, callVars>>

Tick ==
  /\ cooldown > 0
  /\ cooldown' = cooldown - 1
  /\ UNCHANGED <<upstream, clientVars, failures, callVars, steady>>

------------------------------------------------------------------------------
(* The pieces read() is made of *)

\* A session without its lock.
NoLock == TRUE

\* The session lock is not held.
LockFree == \A c \in Callers : pc[c] = "idle"

\* ModbusClientCircuitBreaker.allow_request
AllowRequest == cooldown = 0

\* ModbusClientCircuitBreaker.mark_success
MarkSuccess ==
  /\ failures' = 0
  /\ cooldown' = 0

Counted == IF failures < FailureThreshold THEN failures + 1 ELSE failures

\* A breaker that starts counting again from zero when it opens.
MarkFailureResets ==
  /\ failures' = IF Counted = FailureThreshold THEN 0 ELSE Counted
  /\ cooldown' = IF Counted = FailureThreshold THEN Cooldown ELSE cooldown

\* ModbusClientCircuitBreaker.mark_failure; the cooldown does not clear the
\* count, so the first failure after it opens the breaker again.
MarkFailure ==
  /\ failures' = Counted
  /\ cooldown' = IF Counted = FailureThreshold THEN Cooldown ELSE cooldown

\* A reset that forgets to close.
ForgetClient ==
  /\ client' = "none"
  /\ sock' = FALSE
  /\ UNCHANGED unclosed

\* A failed attempt that keeps its client for the next one.
KeepClient == UNCHANGED clientVars

\* PersistentModbusSession._close_and_reset
CloseAndReset ==
  /\ client' = "none"
  /\ sock' = FALSE
  /\ unclosed' = unclosed - 1

\* read() leaves its `with self._lock` block.
Return(c, value) ==
  /\ pc' = [pc EXCEPT ![c] = "idle"]
  /\ returned' = [returned EXCEPT ![c] = value]
  /\ UNCHANGED attempt

\* A loop that makes one attempt too many.
OneAttemptMore(c) ==
  \/ /\ attempt[c] <= Attempts
     /\ attempt' = [attempt EXCEPT ![c] = @ + 1]
     /\ pc' = [pc EXCEPT ![c] = "connect"]
     /\ UNCHANGED <<breakerVars, returned>>
  \/ /\ attempt[c] > Attempts
     /\ MarkFailure
     /\ Return(c, "nothing")

\* `continue`, or the end of the loop: mark_failure and an empty payload.
AttemptFails(c) ==
  \/ /\ attempt[c] < Attempts
     /\ attempt' = [attempt EXCEPT ![c] = @ + 1]
     /\ pc' = [pc EXCEPT ![c] = "connect"]
     /\ UNCHANGED <<breakerVars, returned>>
  \/ /\ attempt[c] = Attempts
     /\ MarkFailure
     /\ Return(c, "nothing")

------------------------------------------------------------------------------
(* read() *)

\* The breaker is cooling down: an empty payload, and nothing is sent.
SkipRead(c) ==
  /\ LockFree
  /\ ~AllowRequest
  /\ Return(c, "nothing")
  /\ UNCHANGED <<upstream, clientVars, breakerVars, steady>>

BeginRead(c) ==
  /\ pc[c] = "idle"
  /\ LockFree
  /\ AllowRequest
  /\ pc' = [pc EXCEPT ![c] = "connect"]
  /\ attempt' = [attempt EXCEPT ![c] = 1]
  /\ steady' = (upstream = "up")
  /\ UNCHANGED <<upstream, clientVars, breakerVars, returned>>

\* _ensure_connected trusts the flag it set on an earlier connect.
ReuseConnection(c) ==
  /\ pc[c] = "connect"
  /\ client = "connected"
  /\ pc' = [pc EXCEPT ![c] = "read"]
  /\ UNCHANGED <<upstream, clientVars, breakerVars, attempt, returned, steady>>

\* create_client is called outside any try: its exception leaves read(), and
\* the breaker hears of neither success nor failure.
CreateRaises(c) ==
  /\ pc[c] = "connect"
  /\ client = "none"
  /\ upstream = "unmakeable"
  /\ Return(c, "raised")
  /\ UNCHANGED <<upstream, clientVars, breakerVars, steady>>

Create(c) ==
  /\ pc[c] = "connect"
  /\ client = "none"
  /\ upstream # "unmakeable"
  /\ client' = "created"
  /\ unclosed' = unclosed + 1
  /\ UNCHANGED <<upstream, sock, breakerVars, callVars, steady>>

Connect(c) ==
  /\ pc[c] = "connect"
  /\ client = "created"
  /\ upstream \in {"up", "mute"}
  /\ client' = "connected"
  /\ sock' = TRUE
  /\ pc' = [pc EXCEPT ![c] = "read"]
  /\ UNCHANGED <<upstream, unclosed, breakerVars, attempt, returned, steady>>

\* A failed connect that forgets its client without closing it.
ConnectFailsOpen(c) ==
  /\ pc[c] = "connect"
  /\ client = "created"
  /\ upstream \in {"down", "unmakeable"}
  /\ ForgetClient
  /\ AttemptFails(c)
  /\ UNCHANGED <<upstream, steady>>

\* connect() returns false or raises.
ConnectFails(c) ==
  /\ pc[c] = "connect"
  /\ client = "created"
  /\ upstream \in {"down", "unmakeable"}
  /\ CloseAndReset
  /\ AttemptFails(c)
  /\ UNCHANGED <<upstream, steady>>

\* The device answers.  The Modbus library may also have reconnected a dead
\* connection on its own.
ReadPayload(c) ==
  /\ pc[c] = "read"
  /\ upstream = "up"
  /\ sock' = TRUE
  /\ MarkSuccess
  /\ Return(c, "payload")
  /\ UNCHANGED <<upstream, client, unclosed, steady>>

\* An exception or an empty payload.
ReadFails(c) ==
  /\ pc[c] = "read"
  /\ ~(upstream = "up" /\ sock)
  /\ CloseAndReset
  /\ AttemptFails(c)
  /\ UNCHANGED <<upstream, steady>>

------------------------------------------------------------------------------

\* What a caller does once it holds the lock.
Working(c) ==
  \/ ReuseConnection(c)
  \/ CreateRaises(c)
  \/ Create(c)
  \/ Connect(c)
  \/ ConnectFails(c)
  \/ ReadPayload(c)
  \/ ReadFails(c)

Next ==
  \/ UpstreamChanges
  \/ Tick
  \/ \E c \in Callers : SkipRead(c) \/ BeginRead(c) \/ Working(c)

Spec == Init /\ [][Next]_vars

\* Time passes, and socket timeouts end every connect and every read.
CallsEnd == WF_vars(Tick) /\ \A c \in Callers : WF_vars(Working(c))
FairSpec == Spec /\ CallsEnd

\* The refresh thread polls for ever.
PollingSpec == FairSpec /\ WF_vars(\E c \in Callers : BeginRead(c))

------------------------------------------------------------------------------
(* Properties *)

\* Nothing is sent to the device while the breaker cools down, and callers use
\* the client one at a time.
NoTrafficWhileCooling ==
  \A c \in Callers : pc[c] # "idle" =>
    /\ cooldown = 0
    /\ \A d \in Callers \ {c} : pc[d] = "idle"

\* Every client that was created and is not the current one has been closed, on
\* every path through connect, read, retry and failure.
NoClientLeaks == unclosed = IF client = "none" THEN 0 ELSE 1

\* The breaker opens only for trouble that was there during the very read that
\* opened it: a connection that died earlier, unnoticed behind the sticky flag,
\* costs at most one failed read and never a cooldown.  It takes two attempts
\* per read or a threshold of two failed reads.
OpensOnlyOnTrouble ==
  [][cooldown = 0 /\ cooldown' > 0 /\ (Attempts >= 2 \/ FailureThreshold >= 2)
       => ~steady]_vars

\* Once the device stays up, the breaker stops opening and reads succeed again
\* and again.
RecoversWithDevice ==
  <>[](upstream = "up")
    => /\ <>[](cooldown = 0)
       /\ []<>(\E c \in Callers : returned[c] = "payload")

\* The mode that the count and the clock stand for.
Mode ==
  IF cooldown > 0 THEN "open"
  ELSE IF failures = FailureThreshold THEN "half" ELSE "closed"

Breaker == INSTANCE CooldownBreaker WITH mode <- Mode, inFlight <- ~LockFree

\* The counter and the deadline make a three-mode breaker, under a lock that
\* lets one read at a time through.
ImplementsCooldownBreaker == Breaker!Spec

================================================================================
