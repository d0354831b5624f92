------------------------ MODULE UpstreamSession_proofs -------------------------
(****************************************************************************)
(* The safety properties of UpstreamSession for any number of callers, any  *)
(* retry count, threshold and cooldown.                                     *)
(*                                                                          *)
(* OpensOnlyOnTrouble rests on what a kept client stands for (ClientInv):   *)
(* between reads a client is there only because the last read succeeded, so *)
(* a read that finds it dead is the first failure of a run, and with one    *)
(* more attempt, or one more failure to spare, the breaker stays closed.    *)
(****************************************************************************)
EXTENDS UpstreamSession, TLAPS

ClientInv ==
  /\ sock => client = "connected"
  /\ ~LockFree /\ steady => upstream = "up"
  /\ LockFree => client # "created"
  /\ client = "connected" /\ (\A c \in Callers : pc[c] # "read") => failures = 0
  /\ \A c \in Callers :
       /\ pc[c] = "read" => client = "connected"
       /\ pc[c] = "connect" /\ attempt[c] > 1 => client # "connected"
       /\ pc[c] = "read" /\ steady /\ ~sock => failures = 0 /\ attempt[c] = 1

\* The cooldown never clears the count.
CountInv == cooldown > 0 => failures = FailureThreshold

IInv ==
  /\ TypeOK
  /\ CountInv
  /\ NoTrafficWhileCooling
  /\ NoClientLeaks
  /\ ClientInv

USE AttemptsAssumption, ThresholdAssumption, CooldownAssumption

------------------------------------------------------------------------------
(* The invariant *)

\* A session starts without a client and its breaker without failures.
LEMMA InitEstablishesIInv == Init => IInv
<1> SUFFICES ASSUME Init PROVE IInv
  OBVIOUS
<1>1. steady \in BOOLEAN /\ sock \in BOOLEAN
  BY DEF Init
<1>2. TypeOK
  BY <1>1 DEF Init, TypeOK
<1>3. NoTrafficWhileCooling /\ NoClientLeaks /\ ClientInv
  BY DEF Init, NoTrafficWhileCooling, NoClientLeaks, ClientInv, LockFree
<1>4. CountInv
  BY DEF Init, CountInv
<1> QED
  BY <1>2, <1>3, <1>4 DEF IInv

\* What a failed attempt does to the breaker and to its caller.
LEMMA AttemptFailsType ==
  ASSUME TypeOK, NEW c \in Callers, AttemptFails(c)
  PROVE  /\ failures' \in 0 .. FailureThreshold
         /\ cooldown' \in 0 .. Cooldown
         /\ pc' \in [Callers -> {"idle", "connect", "read"}]
         /\ attempt' \in [Callers -> 1 .. Attempts]
         /\ returned' \in [Callers -> {"nothing", "payload", "raised"}]
  BY DEF TypeOK, AttemptFails, MarkFailure, Counted, Return, breakerVars

LEMMA TypeStep == IInv /\ [Next]_vars => TypeOK'
<1> SUFFICES ASSUME IInv, [Next]_vars PROVE TypeOK'
  OBVIOUS
<1> USE DEF IInv, TypeOK, breakerVars, clientVars, callVars
<1>1. CASE UpstreamChanges
  BY <1>1 DEF UpstreamChanges
<1>2. CASE Tick
  BY <1>2 DEF Tick
<1>3. ASSUME NEW c \in Callers, SkipRead(c) \/ CreateRaises(c) PROVE TypeOK'
  BY <1>3 DEF SkipRead, CreateRaises, Return
<1>4. ASSUME NEW c \in Callers, BeginRead(c) PROVE TypeOK'
  BY <1>4 DEF BeginRead
<1>5. ASSUME NEW c \in Callers, ReuseConnection(c) \/ Connect(c) PROVE TypeOK'
  <2>1. sock' \in BOOLEAN
    BY <1>5 DEF ReuseConnection, Connect
  <2>3. client' = "connected" /\ unclosed' \in Nat
    BY <1>5 DEF ReuseConnection, Connect
  <2>2. pc' \in [Callers -> {"idle", "connect", "read"}]
    BY <1>5 DEF ReuseConnection, Connect
  <2> QED
    BY <1>5, <2>1, <2>2, <2>3 DEF ReuseConnection, Connect
<1>6. ASSUME NEW c \in Callers, Create(c) PROVE TypeOK'
  BY <1>6 DEF Create
<1>7. ASSUME NEW c \in Callers, ReadPayload(c) PROVE TypeOK'
  BY <1>7 DEF ReadPayload, MarkSuccess, Return
<1>8. ASSUME NEW c \in Callers, ConnectFails(c) \/ ReadFails(c) PROVE TypeOK'
  <2>1. client # "none" /\ unclosed = 1
    BY <1>8 DEF ConnectFails, ReadFails, ClientInv, NoClientLeaks
  <2>2. sock' \in BOOLEAN
    BY <1>8 DEF ConnectFails, ReadFails, CloseAndReset
  <2>3. client' = "none" /\ unclosed' \in Nat
    BY <1>8, <2>1 DEF ConnectFails, ReadFails, CloseAndReset
  <2>4. AttemptFails(c) /\ UNCHANGED <<upstream, steady>>
    BY <1>8 DEF ConnectFails, ReadFails
  <2> QED
    BY <2>2, <2>3, <2>4, AttemptFailsType
<1>9. CASE UNCHANGED vars
  BY <1>9 DEF vars
<1> QED
  BY <1>1, <1>2, <1>3, <1>4, <1>5, <1>6, <1>7, <1>8, <1>9 DEF Next, Working

\* The session lock keeps callers apart, and the breaker is tested under it.
LEMMA TrafficStep == IInv /\ [Next]_vars => NoTrafficWhileCooling'
<1> SUFFICES ASSUME IInv, [Next]_vars PROVE NoTrafficWhileCooling'
  OBVIOUS
<1> USE DEF IInv, TypeOK, NoTrafficWhileCooling, breakerVars, clientVars,
            callVars
<1>1. CASE UpstreamChanges \/ Tick
  BY <1>1 DEF UpstreamChanges, Tick
<1>2. ASSUME NEW c \in Callers, SkipRead(c) \/ BeginRead(c)
      PROVE  NoTrafficWhileCooling'
  BY <1>2 DEF SkipRead, BeginRead, Return, LockFree, AllowRequest
<1>3. ASSUME NEW c \in Callers, ReuseConnection(c) \/ Create(c) \/ Connect(c)
      PROVE  NoTrafficWhileCooling'
  BY <1>3 DEF ReuseConnection, Create, Connect
<1>4. ASSUME NEW c \in Callers, CreateRaises(c) \/ ReadPayload(c)
      PROVE  NoTrafficWhileCooling'
  BY <1>4 DEF CreateRaises, ReadPayload, Return, MarkSuccess
<1>5. ASSUME NEW c \in Callers, ConnectFails(c) \/ ReadFails(c)
      PROVE  NoTrafficWhileCooling'
  <2>1. pc[c] # "idle" /\ AttemptFails(c)
    BY <1>5 DEF ConnectFails, ReadFails
  <2> QED
    BY <2>1 DEF AttemptFails, MarkFailure, Return
<1>6. CASE UNCHANGED vars
  BY <1>6 DEF vars
<1> QED
  BY <1>1, <1>2, <1>3, <1>4, <1>5, <1>6 DEF Next, Working

\* Clients are created only when there is none and closed before they are
\* forgotten.
LEMMA LeakStep == IInv /\ [Next]_vars => NoClientLeaks'
<1> SUFFICES ASSUME IInv, [Next]_vars PROVE NoClientLeaks'
  OBVIOUS
<1> USE DEF IInv, TypeOK, NoClientLeaks, clientVars
<1>1. CASE UpstreamChanges \/ Tick
  BY <1>1 DEF UpstreamChanges, Tick
<1>2. ASSUME NEW c \in Callers,
             SkipRead(c) \/ BeginRead(c) \/ ReuseConnection(c) \/ CreateRaises(c)
      PROVE  NoClientLeaks'
  BY <1>2 DEF SkipRead, BeginRead, ReuseConnection, CreateRaises
<1>3. ASSUME NEW c \in Callers, Create(c) \/ Connect(c) \/ ConnectFails(c)
      PROVE  NoClientLeaks'
  BY <1>3 DEF Create, Connect, ConnectFails, CloseAndReset
<1>4. ASSUME NEW c \in Callers, ReadPayload(c) \/ ReadFails(c) PROVE NoClientLeaks'
  BY <1>4 DEF ReadPayload, ReadFails, CloseAndReset, ClientInv
<1>5. CASE UNCHANGED vars
  BY <1>5 DEF vars
<1> QED
  BY <1>1, <1>2, <1>3, <1>4, <1>5 DEF Next, Working

\* What the session knows of its client survives every step.
LEMMA ClientStep == IInv /\ [Next]_vars => ClientInv'
<1> SUFFICES ASSUME IInv, [Next]_vars PROVE ClientInv'
  OBVIOUS
<1> USE DEF IInv, TypeOK, ClientInv, LockFree, breakerVars, clientVars, callVars
<1>1. CASE UpstreamChanges
  BY <1>1 DEF UpstreamChanges
<1>2. CASE Tick
  BY <1>2 DEF Tick
<1>3. ASSUME NEW c \in Callers, SkipRead(c) \/ CreateRaises(c) PROVE ClientInv'
  BY <1>3 DEF SkipRead, CreateRaises, Return, NoTrafficWhileCooling
<1>4. ASSUME NEW c \in Callers, BeginRead(c) PROVE ClientInv'
  <2>1. pc'[c] = "connect" /\ attempt'[c] = 1
    BY <1>4 DEF BeginRead
  <2>2. \A d \in Callers \ {c} : pc'[d] = "idle"
    BY <1>4 DEF BeginRead
  <2>3. steady' => upstream' = "up"
    BY <1>4 DEF BeginRead
  <2>4. client' = "connected" => failures' = 0
    BY <1>4 DEF BeginRead
  <2> QED
    BY <1>4, <2>1, <2>2, <2>3, <2>4 DEF BeginRead
<1>5. ASSUME NEW c \in Callers, ReuseConnection(c) PROVE ClientInv'
  BY <1>5 DEF ReuseConnection, NoTrafficWhileCooling
<1>6. ASSUME NEW c \in Callers, Create(c) \/ Connect(c) PROVE ClientInv'
  BY <1>6 DEF Create, Connect, NoTrafficWhileCooling
<1>7. ASSUME NEW c \in Callers, ConnectFails(c) PROVE ClientInv'
  <2>1. client' = "none" /\ ~sock' /\ ~steady' /\ pc'[c] # "read"
    BY <1>7 DEF ConnectFails, CloseAndReset, AttemptFails, Return
  <2>2. \A d \in Callers \ {c} : pc'[d] = "idle"
    BY <1>7 DEF ConnectFails, AttemptFails, Return, NoTrafficWhileCooling
  <2> QED
    BY <2>1, <2>2
<1>8. ASSUME NEW c \in Callers, ReadPayload(c) PROVE ClientInv'
  BY <1>8 DEF ReadPayload, MarkSuccess, Return, NoTrafficWhileCooling
<1>9. ASSUME NEW c \in Callers, ReadFails(c) PROVE ClientInv'
  <2>1. client' = "none" /\ ~sock' /\ pc'[c] # "read"
    BY <1>9 DEF ReadFails, CloseAndReset, AttemptFails, Return
  <2>2. \A d \in Callers \ {c} : pc'[d] = "idle"
    BY <1>9 DEF ReadFails, AttemptFails, Return, NoTrafficWhileCooling
  <2>3. steady' => upstream' = "up"
    BY <1>9 DEF ReadFails
  <2> QED
    BY <2>1, <2>2, <2>3
<1>10. CASE UNCHANGED vars
  BY <1>10 DEF vars
<1> QED
  BY <1>1, <1>2, <1>3, <1>4, <1>5, <1>6, <1>7, <1>8, <1>9, <1>10
     DEF Next, Working

\* Only a success lowers the count, and it ends the cooldown as well.
LEMMA CountStep == IInv /\ [Next]_vars => CountInv'
<1> SUFFICES ASSUME IInv, [Next]_vars PROVE CountInv'
  OBVIOUS
<1> USE DEF IInv, TypeOK, CountInv, breakerVars
<1>1. CASE UpstreamChanges \/ Tick
  BY <1>1 DEF UpstreamChanges, Tick
<1>2. ASSUME NEW c \in Callers,
             SkipRead(c) \/ BeginRead(c) \/ ReuseConnection(c) \/ CreateRaises(c)
               \/ Create(c) \/ Connect(c)
      PROVE  CountInv'
  BY <1>2 DEF SkipRead, BeginRead, ReuseConnection, CreateRaises, Create, Connect
<1>3. ASSUME NEW c \in Callers, ReadPayload(c) PROVE CountInv'
  BY <1>3 DEF ReadPayload, MarkSuccess
<1>4. ASSUME NEW c \in Callers, ConnectFails(c) \/ ReadFails(c) PROVE CountInv'
  BY <1>4 DEF ConnectFails, ReadFails, AttemptFails, MarkFailure, Counted
<1>5. CASE UNCHANGED vars
  BY <1>5 DEF vars
<1> QED
  BY <1>1, <1>2, <1>3, <1>4, <1>5 DEF Next, Working

LEMMA IInvInvariant == Spec => []IInv
<1>1. IInv /\ [Next]_vars => IInv'
  BY TypeStep, TrafficStep, LeakStep, ClientStep, CountStep DEF IInv
<1> QED
  BY InitEstablishesIInv, <1>1, PTL DEF Spec

------------------------------------------------------------------------------
(* The properties *)

\* Every variable of the session and its breaker stays in its set.
THEOREM TypeCorrect == Spec => []TypeOK
<1>1. IInv => TypeOK
  BY DEF IInv
<1> QED
  BY <1>1, IInvInvariant, PTL

\* PersistentModbusSession sends nothing while its breaker cools down and keeps
\* its callers apart, however many there are.
THEOREM Quiet == Spec => []NoTrafficWhileCooling
<1>1. IInv => NoTrafficWhileCooling
  BY DEF IInv
<1> QED
  BY <1>1, IInvInvariant, PTL

\* _ensure_connected and _close_and_reset close every client but the current.
THEOREM NoLeak == Spec => []NoClientLeaks
<1>1. IInv => NoClientLeaks
  BY DEF IInv
<1> QED
  BY <1>1, IInvInvariant, PTL

\* A step that opens the breaker is the end of a read during which the device
\* was not up throughout.
THEOREM OpensOnTrouble == Spec => OpensOnlyOnTrouble
<1>1. IInv /\ [Next]_vars =>
        [cooldown = 0 /\ cooldown' > 0 /\ (Attempts >= 2 \/ FailureThreshold >= 2)
           => ~steady]_vars
  <2> SUFFICES ASSUME IInv, [Next]_vars, cooldown = 0, cooldown' > 0,
                      Attempts >= 2 \/ FailureThreshold >= 2
               PROVE  ~steady
    OBVIOUS
  <2> USE DEF IInv, TypeOK
  <2>1. PICK c \in Callers : ConnectFails(c) \/ ReadFails(c)
    BY DEF Next, Working, vars, UpstreamChanges, Tick, SkipRead, BeginRead,
           ReuseConnection, CreateRaises, Create, Connect, ReadPayload, MarkSuccess,
           breakerVars
  <2>2. attempt[c] = Attempts /\ Counted = FailureThreshold
    BY <2>1 DEF ConnectFails, ReadFails, AttemptFails, MarkFailure, breakerVars
  <2>3. steady => upstream = "up"
    BY <2>1 DEF ClientInv, LockFree, ConnectFails, ReadFails
  <2>4. CASE ConnectFails(c)
    BY <2>3, <2>4 DEF ConnectFails
  <2>5. CASE ReadFails(c)
    <3> SUFFICES ASSUME steady PROVE FALSE
      OBVIOUS
    <3>1. failures = 0 /\ attempt[c] = 1
      BY <2>3, <2>5 DEF ReadFails, ClientInv
    <3> QED
      BY <2>2, <3>1 DEF Counted
  <2> QED
    BY <2>1, <2>4, <2>5
<1> QED
  BY <1>1, IInvInvariant, PTL DEF Spec, OpensOnlyOnTrouble

\* The counter, the deadline and the lock are a CooldownBreaker: a read in
\* progress never meets the open mode, and a trial read that fails opens again.
THEOREM BreakerRefinement == Spec => Breaker!SafetySpec
<1>1. Init => Breaker!Init
  BY DEF Init, Breaker!Init, Mode, LockFree
<1>2. IInv /\ [Next]_vars => [Breaker!Next]_Breaker!vars
  <2> SUFFICES ASSUME IInv, [Next]_vars
               PROVE  Breaker!Next \/ UNCHANGED Breaker!vars
    BY DEF Breaker!vars
  <2> USE DEF IInv, TypeOK, breakerVars, clientVars, callVars
  <2>1. CASE UpstreamChanges
    BY <2>1 DEF UpstreamChanges, Breaker!vars, Mode, LockFree
  <2>2. CASE Tick
    <3>1. Mode = "open" /\ Mode' \in {"open", "half"} /\ UNCHANGED LockFree
      BY <2>2 DEF Tick, Mode, LockFree, CountInv
    <3> QED
      BY <3>1 DEF Breaker!vars, Breaker!Next, Breaker!Elapse
  <2>3. ASSUME NEW c \in Callers, SkipRead(c) PROVE UNCHANGED Breaker!vars
    BY <2>3 DEF SkipRead, Return, Breaker!vars, Mode, LockFree
  <2>4. ASSUME NEW c \in Callers, BeginRead(c) PROVE Breaker!Next
    <3>1. LockFree /\ ~LockFree' /\ Mode # "open" /\ UNCHANGED Mode
      BY <2>4 DEF BeginRead, AllowRequest, Mode, LockFree
    <3> QED
      BY <3>1 DEF Breaker!Next, Breaker!Start
  <2>5. ASSUME NEW c \in Callers, ReuseConnection(c) \/ Create(c) \/ Connect(c)
        PROVE  UNCHANGED Breaker!vars
    <3>1. ~LockFree /\ ~LockFree' /\ UNCHANGED Mode
      BY <2>5 DEF ReuseConnection, Create, Connect, LockFree, Mode
    <3> QED
      BY <3>1 DEF Breaker!vars
  <2>6. ASSUME NEW c \in Callers, CreateRaises(c) PROVE Breaker!Next
    <3>1. ~LockFree /\ LockFree' /\ UNCHANGED Mode
      BY <2>6 DEF CreateRaises, Return, LockFree, Mode, NoTrafficWhileCooling
    <3> QED
      BY <3>1 DEF Breaker!Next, Breaker!Finish, Breaker!Abort
  <2>7. ASSUME NEW c \in Callers, ReadPayload(c) PROVE Breaker!Next
    <3>1. ~LockFree /\ LockFree' /\ Mode' = "closed"
      BY <2>7 DEF ReadPayload, Return, MarkSuccess, LockFree, Mode,
                  NoTrafficWhileCooling
    <3> QED
      BY <3>1 DEF Breaker!Next, Breaker!Finish, Breaker!Succeed
  <2>8. ASSUME NEW c \in Callers, ConnectFails(c) \/ ReadFails(c)
        PROVE  Breaker!Next \/ UNCHANGED Breaker!vars
    <3>1. AttemptFails(c) /\ pc[c] # "idle" /\ cooldown = 0 /\ ~LockFree
      BY <2>8 DEF ConnectFails, ReadFails, NoTrafficWhileCooling, LockFree
    <3>2. CASE attempt[c] < Attempts
      <4>1. ~LockFree' /\ UNCHANGED Mode
        BY <3>1, <3>2 DEF AttemptFails, LockFree, Mode
      <4> QED
        BY <3>1, <4>1 DEF Breaker!vars
    <3>3. CASE attempt[c] = Attempts
      <4>1. LockFree'
        BY <3>1, <3>3 DEF AttemptFails, Return, LockFree, NoTrafficWhileCooling
      <4>2. Mode' \in IF Mode = "half" THEN {"open"} ELSE {"closed", "open"}
        BY <3>1, <3>3 DEF AttemptFails, MarkFailure, Counted, Mode
      <4> QED
        BY <3>1, <4>1, <4>2 DEF Breaker!Next, Breaker!Finish, Breaker!Fail
    <3> QED
      BY <3>1, <3>2, <3>3
  <2>9. CASE UNCHANGED vars
    BY <2>9 DEF vars, Breaker!vars, Mode, LockFree
  <2> QED
    BY <2>1, <2>2, <2>3, <2>4, <2>5, <2>6, <2>7, <2>8, <2>9 DEF Next, Working
<1> QED
  BY <1>1, <1>2, IInvInvariant, PTL DEF Spec, Breaker!SafetySpec

================================================================================
