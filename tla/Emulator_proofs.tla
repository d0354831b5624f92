---------------------------- MODULE Emulator_proofs ----------------------------
(****************************************************************************)
(* For any sources, thresholds and times: the type invariant, the bound on  *)
(* the age of the data by the cycles that failed, the breakers of all       *)
(* sources as implementations of CooldownBreaker, and the time that service *)
(* takes to resume.                                                         *)
(****************************************************************************)
EXTENDS Emulator, TLAPS

USE DEF Period

LEMMA Constants ==
  /\ Threshold \in Nat /\ Threshold > 0
  /\ Cooldown \in Nat /\ Cooldown > 0
  /\ Interval \in Nat /\ Interval > 0
  /\ PollTime \in Nat
  /\ Period \in Nat
  /\ MaxAge \in Nat
  /\ MaxLost \in Nat
  /\ MaxAge <= (MaxLost + 1) * Period
  /\ Recovery \in Nat
  /\ NoSuccess \notin Int
<1> DEFINE limit == (MaxLost + 1) * Period
<1>1. /\ Threshold \in Nat /\ Threshold > 0
      /\ Cooldown \in Nat /\ Cooldown > 0
      /\ Interval \in Nat /\ Interval > 0
      /\ PollTime \in Nat
      /\ DataTimeout \in Nat
      /\ MaxLost \in Nat
      /\ DataTimeout < limit
  BY ThresholdAssumption, CooldownAssumption, IntervalAssumption, PollTimeAssumption,
     DataTimeoutAssumption, MaxLostAssumption
<1>2. Period \in Nat
  BY <1>1
<1>3. limit \in Nat
  BY <1>1, <1>2
<1>4. MaxAge \in Nat /\ MaxAge <= limit
  <2> HIDE DEF limit
  <2> QED  BY <1>1, <1>3 DEF MaxAge
<1>5. Recovery \in Nat
  BY <1>1 DEF Recovery
<1> QED  BY <1>1, <1>2, <1>4, <1>5, NoSuccessAssumption

------------------------------------------------------------------------------
(* Types *)

LEMMA TypeInit == Init => TypeOK
BY Constants DEF Init, TypeOK

LEMMA TypeNext == TypeOK /\ [Next]_vars => TypeOK'
<1> SUFFICES ASSUME TypeOK, [Next]_vars PROVE TypeOK'
  OBVIOUS
<1> USE Constants
<1>1. CASE Tick
  <2>1. clock' \in 0 .. IF phase' = "sleeping" THEN Interval ELSE PollTime
    BY <1>1 DEF Tick, Waiting, Aging, TypeOK
  <2>2. cooldown' \in [Sources -> 0 .. Cooldown]
    BY <1>1 DEF Tick, Aging, TypeOK, Down
  <2>3. age' \in 0 .. MaxAge \cup {NoSuccess} /\ calm' \in 0 .. Recovery + 1
    BY <1>1 DEF Tick, Aging, TypeOK, Up
  <2> QED  BY <1>1, <2>1, <2>2, <2>3 DEF Tick, Aging, TypeOK
<1>2. CASE StartCycle
  BY <1>2 DEF StartCycle, TypeOK, sessionVars, history
<1>3. CASE Fail
  BY <1>3 DEF Fail, EndCycle, TypeOK, sessionVars, Up
<1>4. CASE Publish
  BY <1>4 DEF Publish, EndCycle, TypeOK, sessionVars
<1>5. ASSUME NEW s \in Sources, DeviceChanges(s) PROVE TypeOK'
  BY <1>5 DEF DeviceChanges, TypeOK, cycleVars
<1>6. ASSUME NEW s \in Sources, ReadAnswers(s) PROVE TypeOK'
  BY <1>6 DEF ReadAnswers, ResetCount, TypeOK, cycleVars, history
<1>7. ASSUME NEW s \in Sources, ReadFails(s) PROVE TypeOK'
  BY <1>7 DEF ReadFails, CountFailure, Up, TypeOK, cycleVars, history
<1>8. CASE UNCHANGED vars
  BY <1>8 DEF vars, sessionVars, cycleVars, history, TypeOK
<1> QED  BY <1>1, <1>2, <1>3, <1>4, <1>5, <1>6, <1>7, <1>8 DEF Next, Read

\* Every variable keeps its type, whatever the sources and the parameters.
THEOREM TypeCorrect == Spec => []TypeOK
BY TypeInit, TypeNext, PTL DEF Spec

------------------------------------------------------------------------------
(* The age of the data *)

\* Ticks since the last publication that no failed cycle accounts for.
Elapsed == clock + (IF phase = "polling" THEN Interval ELSE 0)

\* The counter of lost cycles stops at its bound, where the bound on the age takes
\* over from it.
AgeInv == age # NoSuccess => lost = MaxLost \/ age <= lost * Period + Elapsed

LEMMA Distributes ==
  ASSUME NEW n \in Nat PROVE (n + 1) * Period = n * Period + Period /\ n * Period \in Nat
BY Constants

LEMMA AgeNext == TypeOK /\ AgeInv /\ [Next]_vars => AgeInv'
<1> SUFFICES ASSUME TypeOK, AgeInv, [Next]_vars PROVE AgeInv'
  OBVIOUS
<1> USE Constants
<1> DEFINE owed == lost * Period
<1>0. lost \in Nat /\ owed \in Nat /\ (lost + 1) * Period = owed + Period
  BY Distributes DEF TypeOK
<1>a. clock \in Nat /\ (age = NoSuccess \/ age \in Nat)
  BY DEF TypeOK
<1>1. CASE Tick
  <2>1. lost' = lost /\ phase' = phase /\ clock' = clock + 1
    BY <1>1 DEF Tick, Aging
  <2>2. age' = NoSuccess \/ (age # NoSuccess /\ age' <= age + 1 /\ age' \in Nat)
    BY <1>1, <1>a DEF Tick, Aging, Up, TypeOK
  <2>3. owed' = owed
    BY <2>1
  <2> QED  BY <1>0, <1>a, <2>1, <2>2, <2>3 DEF AgeInv, Elapsed
<1>2. CASE StartCycle
  <2>1. /\ phase = "sleeping" /\ phase' = "polling" /\ clock = Interval /\ clock' = 0
        /\ age' = age /\ lost' = lost
    BY <1>2 DEF StartCycle, history
  <2> QED  BY <2>1 DEF AgeInv, Elapsed
<1>3. CASE Fail
  <2>1. /\ phase = "polling" /\ phase' = "sleeping" /\ clock <= PollTime /\ clock' = 0
        /\ age' = age
    BY <1>3 DEF Fail, EndCycle, TypeOK
  <2>2. CASE lost < MaxLost
    <3>1. lost' = lost + 1
      BY <1>3, <2>2 DEF Fail, Up
    <3>2. age # NoSuccess => age <= owed + Period
      BY <1>0, <1>a, <2>1, <2>2 DEF AgeInv, Elapsed
    <3> QED  BY <1>0, <1>a, <2>1, <3>1, <3>2 DEF AgeInv, Elapsed
  <2>3. CASE lost = MaxLost
    BY <1>3, <2>3 DEF Fail, Up, AgeInv
  <2> QED  BY <2>2, <2>3 DEF TypeOK
<1>4. CASE Publish
  <2>1. age' = 0 /\ lost' = 0 /\ clock' = 0 /\ phase' = "sleeping"
    BY <1>4 DEF Publish, EndCycle
  <2> QED  BY <2>1, Distributes DEF AgeInv, Elapsed
<1>5. CASE UNCHANGED <<age, lost, phase, clock>>
  BY <1>5 DEF AgeInv, Elapsed
<1>6. ASSUME NEW s \in Sources, DeviceChanges(s) \/ Read(s)
      PROVE UNCHANGED <<age, lost, phase, clock>>
  BY <1>6 DEF DeviceChanges, Read, ReadAnswers, ReadFails, cycleVars, history
<1>7. CASE UNCHANGED vars
  BY <1>5, <1>7 DEF vars, cycleVars, history
<1> QED  BY <1>1, <1>2, <1>3, <1>4, <1>5, <1>6, <1>7 DEF Next

LEMMA AgeBound == TypeOK /\ AgeInv => AgeExplainedByLostCycles
<1> SUFFICES ASSUME TypeOK, AgeInv, age # NoSuccess PROVE age <= (lost + 1) * Period
  BY DEF AgeExplainedByLostCycles
<1> USE Constants
<1> DEFINE owed == lost * Period
<1>1. lost \in Nat /\ owed \in Nat /\ (lost + 1) * Period = owed + Period
  BY Distributes DEF TypeOK
<1>2. age \in Nat /\ age <= MaxAge
  BY DEF TypeOK
<1>3. CASE lost = MaxLost
  BY <1>2, <1>3
<1>4. CASE age <= owed + Elapsed
  <2>1. Elapsed \in Nat /\ Elapsed <= Period
    BY DEF Elapsed, TypeOK
  <2> QED  BY <1>1, <1>2, <1>4, <2>1
<1> QED  BY <1>3, <1>4 DEF AgeInv

\* Data ages only by failed cycles, a sleep and a poll for each, whatever the
\* interval and the length of a poll.
THEOREM AgeExplained == Spec => []AgeExplainedByLostCycles
<1>1. Init => AgeInv
  BY DEF Init, AgeInv
<1> QED  BY <1>1, TypeInit, TypeNext, AgeNext, AgeBound, PTL DEF Spec

------------------------------------------------------------------------------
(* The breakers *)

\* A cooldown comes from a full count; a read is under way only after the breaker
\* let it, and only within a cycle.
SessionInv ==
  \A s \in Sources :
    /\ cooldown[s] > 0 => failures[s] = Threshold
    /\ poll[s] = "running" => cooldown[s] = 0 /\ phase = "polling"

LEMMA SessionNext == TypeOK /\ SessionInv /\ [Next]_vars => SessionInv'
<1> SUFFICES ASSUME TypeOK, SessionInv, [Next]_vars, NEW t \in Sources
             PROVE /\ cooldown'[t] > 0 => failures'[t] = Threshold
                   /\ poll'[t] = "running" => cooldown'[t] = 0 /\ phase' = "polling"
  BY DEF SessionInv
<1> USE Constants
<1>0. /\ cooldown[t] > 0 => failures[t] = Threshold
      /\ poll[t] = "running" => cooldown[t] = 0 /\ phase = "polling"
      /\ cooldown[t] \in Nat
  BY DEF SessionInv, TypeOK
<1>1. CASE Tick
  BY <1>0, <1>1 DEF Tick, Aging, Down
<1>2. CASE StartCycle
  BY <1>0, <1>2 DEF StartCycle, Admitted
<1>3. CASE Fail \/ Publish
  BY <1>0, <1>3 DEF Fail, Publish, EndCycle, sessionVars
<1>4. ASSUME NEW s \in Sources, DeviceChanges(s)
      PROVE UNCHANGED <<cooldown, failures, poll, phase>>
  BY <1>4 DEF DeviceChanges, cycleVars
<1>5. ASSUME NEW s \in Sources, ReadAnswers(s)
      PROVE /\ cooldown'[t] > 0 => failures'[t] = Threshold
            /\ poll'[t] = "running" => cooldown'[t] = 0 /\ phase' = "polling"
  BY <1>0, <1>5 DEF ReadAnswers, ResetCount, cycleVars, TypeOK
<1>6. ASSUME NEW s \in Sources, ReadFails(s)
      PROVE /\ cooldown'[t] > 0 => failures'[t] = Threshold
            /\ poll'[t] = "running" => cooldown'[t] = 0 /\ phase' = "polling"
  BY <1>0, <1>6 DEF ReadFails, CountFailure, cycleVars, TypeOK
<1>7. CASE UNCHANGED vars
  BY <1>0, <1>7 DEF vars, sessionVars, cycleVars
<1> QED  BY <1>0, <1>1, <1>2, <1>3, <1>4, <1>5, <1>6, <1>7 DEF Next, Read

LEMMA BreakerStep ==
  ASSUME TypeOK, SessionInv, [Next]_vars, NEW t \in Sources
  PROVE [Breaker(t)!Next]_(Breaker(t)!vars)
<1> USE Constants
<1> DEFINE Quiet == Mode(t)' = Mode(t) /\ (poll[t] = "running")' = (poll[t] = "running")
<1>0. /\ cooldown[t] > 0 => failures[t] = Threshold
      /\ poll[t] = "running" => cooldown[t] = 0 /\ phase = "polling"
      /\ cooldown[t] \in Nat /\ failures[t] \in 0 .. Threshold
  BY DEF SessionInv, TypeOK
<1>q. ASSUME Quiet PROVE [Breaker(t)!Next]_(Breaker(t)!vars)
  BY <1>q DEF Breaker!vars
<1>1. CASE Tick
  <2>1. failures' = failures /\ poll' = poll /\ cooldown'[t] = Down(cooldown[t])
    BY <1>1 DEF Tick, Aging
  <2>2. CASE cooldown[t] = 1
    <3>1. Mode(t) = "open" /\ Mode(t)' = "half"
      BY <1>0, <2>1, <2>2 DEF Mode, Down
    <3> QED  BY <2>1, <3>1 DEF Breaker!Next, Breaker!Elapse
  <2>3. CASE cooldown[t] # 1
    BY <1>0, <1>q, <2>1, <2>3 DEF Mode, Down
  <2> QED  BY <2>2, <2>3
<1>2. CASE StartCycle
  <2>1. /\ failures' = failures /\ cooldown' = cooldown /\ poll[t] # "running"
        /\ poll'[t] = IF cooldown[t] = 0 THEN "running" ELSE "failed"
    BY <1>0, <1>2 DEF StartCycle, Admitted
  <2>2. Mode(t)' = Mode(t)
    BY <2>1 DEF Mode
  <2>3. CASE cooldown[t] = 0
    <3>1. Mode(t) # "open" /\ poll'[t] = "running"
      BY <2>1, <2>3 DEF Mode
    <3> QED  BY <2>1, <2>2, <3>1 DEF Breaker!Next, Breaker!Start
  <2>4. CASE cooldown[t] # 0
    BY <1>q, <2>1, <2>2, <2>4
  <2> QED  BY <2>3, <2>4
<1>3. CASE Fail \/ Publish
  BY <1>3, <1>q DEF Fail, Publish, EndCycle, sessionVars, Mode
<1>4. ASSUME NEW s \in Sources, DeviceChanges(s) PROVE Quiet
  BY <1>4 DEF DeviceChanges, Mode
<1>5. ASSUME NEW s \in Sources, ReadAnswers(s)
      PROVE [Breaker(t)!Next]_(Breaker(t)!vars)
  <2>1. CASE s = t
    <3>1. poll[t] = "running" /\ poll'[t] # "running" /\ Mode(t)' = "closed"
      BY <1>0, <1>5, <2>1 DEF ReadAnswers, ResetCount, Mode, TypeOK
    <3> QED  BY <3>1 DEF Breaker!Next, Breaker!Finish, Breaker!Succeed
  <2>2. CASE s # t
    BY <1>5, <1>q, <2>2 DEF ReadAnswers, ResetCount, Mode, TypeOK
  <2> QED  BY <2>1, <2>2
<1>6. ASSUME NEW s \in Sources, ReadFails(s)
      PROVE [Breaker(t)!Next]_(Breaker(t)!vars)
  <2>1. CASE s = t
    <3>1. poll[t] = "running" /\ poll'[t] # "running"
      BY <1>6, <2>1 DEF ReadFails, TypeOK
    <3>2. /\ failures'[t] = Up(failures[t], Threshold)
          /\ cooldown'[t] = IF failures'[t] = Threshold THEN Cooldown ELSE cooldown[t]
      BY <1>6, <2>1 DEF ReadFails, CountFailure, TypeOK
    <3>3. Mode(t)' \in IF Mode(t) = "half" THEN {"open"} ELSE {"closed", "open"}
      BY <1>0, <3>1, <3>2 DEF Mode, Up
    <3> QED  BY <3>1, <3>3 DEF Breaker!Next, Breaker!Finish, Breaker!Fail
  <2>2. CASE s # t
    BY <1>6, <1>q, <2>2 DEF ReadFails, CountFailure, Mode, TypeOK
  <2> QED  BY <2>1, <2>2
<1>7. CASE UNCHANGED vars
  BY <1>7, <1>q DEF vars, sessionVars, Mode
<1> QED  BY <1>1, <1>2, <1>3, <1>4, <1>5, <1>6, <1>7, <1>q DEF Next, Read

\* Composed with the cycle and the other sources, each source is still read as the
\* three-mode breaker allows.
THEOREM BreakersImplemented == Spec => ImplementsBreakers
<1>1. Init => SessionInv /\ \A s \in Sources : Breaker(s)!Init
  BY Constants DEF Init, SessionInv, Breaker!Init, Mode
<1>2. TypeOK /\ SessionInv /\ [Next]_vars
        => [\A s \in Sources : [Breaker(s)!Next]_(Breaker(s)!vars)]_vars
  BY BreakerStep
<1> QED  BY <1>1, <1>2, TypeInit, TypeNext, SessionNext, PTL DEF Spec, ImplementsBreakers

------------------------------------------------------------------------------
(* Recovery *)

\* A connection is kept between cycles only if the last read over it was answered, so a
\* source that is not being read counts failures only without one.
LinkInv == \A s \in Sources : poll[s] # "running" /\ link[s] # "none" => failures[s] = 0

\* Calm is measured from the moment the last device came up.
CalmInv == ~AllUp => calm = 0

Longest == IF Interval < Cooldown THEN Cooldown ELSE Interval

\* No cooldown begins after the poll at hand when the last device came up.
CooldownsEnd ==
  \A s \in Sources : cooldown[s] > 0 => cooldown[s] + calm <= PollTime + Cooldown

NoDeadLink == \A s \in Sources : link[s] # "dead"
Ready == AllUp /\ NoDeadLink /\ \A s \in Sources : cooldown[s] = 0

\* The way back to service, from the moment the last device came up.  Each stage bounds
\* the moment it began, calm - clock.

\* The poll at hand, of which nothing is known, and the sleep after it, or the sleep at
\* hand.
AtHand == phase = "polling" /\ calm <= clock
FirstSleep == phase = "sleeping" /\ calm <= PollTime + clock

\* A cycle that began under calm: dead connections are found out without a cooldown, and
\* sources that cool down fail.
Clearing ==
  /\ phase = "polling" /\ AllUp
  /\ calm <= clock + PollTime + Longest
  /\ \A s \in Sources : link[s] = "dead" => poll[s] = "running" /\ failures[s] = 0
Cleared ==
  /\ phase = "sleeping" /\ AllUp
  /\ calm <= clock + 2 * PollTime + Longest
  /\ NoDeadLink

\* A cycle that finds no cooldown and no dead connection.
Succeeding ==
  /\ phase = "polling" /\ Ready
  /\ calm <= clock + 2 * PollTime + Longest + Interval
  /\ \A s \in Sources : poll[s] # "failed"

\* It has published, and so does each one after it.
Served ==
  /\ Ready
  /\ phase = "polling" => \A s \in Sources : poll[s] # "failed"
  /\ age # NoSuccess
  /\ lost = 0

StageInv == AtHand \/ FirstSleep \/ Clearing \/ Cleared \/ Succeeding \/ Served

RecoveryInv == LinkInv /\ CalmInv /\ CooldownsEnd /\ StageInv


LEMMA LinkNext == TypeOK /\ SessionInv /\ LinkInv /\ [Next]_vars => LinkInv'
<1> SUFFICES ASSUME TypeOK, SessionInv, LinkInv, [Next]_vars, NEW t \in Sources,
                    poll'[t] # "running", link'[t] # "none"
             PROVE failures'[t] = 0
  BY DEF LinkInv
<1> USE Constants
<1>0. /\ cooldown[t] > 0 => failures[t] = Threshold
      /\ poll[t] = "running" => cooldown[t] = 0 /\ phase = "polling"
      /\ poll[t] # "running" /\ link[t] # "none" => failures[t] = 0
      /\ cooldown[t] \in Nat
  BY DEF SessionInv, LinkInv, TypeOK
<1>1. CASE Tick
  BY <1>0, <1>1 DEF Tick, Aging
<1>2. CASE StartCycle
  <2>1. cooldown[t] # 0 /\ link'[t] = link[t] /\ failures'[t] = failures[t]
    BY <1>2 DEF StartCycle, Admitted
  <2> QED  BY <1>0, <2>1
<1>3. CASE Fail \/ Publish
  BY <1>0, <1>3 DEF Fail, Publish, EndCycle, sessionVars
<1>4. ASSUME NEW s \in Sources, DeviceChanges(s) PROVE failures'[t] = 0
  <2>1. link[t] # "none" /\ UNCHANGED <<failures, poll>>
    BY <1>4 DEF DeviceChanges, TypeOK
  <2> QED  BY <1>0, <2>1
<1>5. ASSUME NEW s \in Sources, ReadAnswers(s) PROVE failures'[t] = 0
  BY <1>0, <1>5 DEF ReadAnswers, ResetCount, TypeOK
<1>6. ASSUME NEW s \in Sources, ReadFails(s) PROVE failures'[t] = 0
  BY <1>0, <1>6 DEF ReadFails, CountFailure, TypeOK
<1>7. CASE UNCHANGED vars
  BY <1>0, <1>7 DEF vars, sessionVars
<1> QED  BY <1>1, <1>2, <1>3, <1>4, <1>5, <1>6, <1>7 DEF Next, Read

LEMMA CalmNext == CalmInv /\ [Next]_vars => CalmInv'
<1> SUFFICES ASSUME CalmInv, [Next]_vars PROVE CalmInv'
  OBVIOUS
<1>1. CASE Tick
  BY <1>1 DEF Tick, Aging, CalmInv, AllUp
<1>2. CASE UNCHANGED <<device, calm>>
  BY <1>2 DEF CalmInv, AllUp
<1>3. ASSUME NEW s \in Sources, DeviceChanges(s) PROVE CalmInv'
  BY <1>3 DEF DeviceChanges, CalmInv
<1>4. CASE StartCycle \/ Fail \/ Publish \/ \E s \in Sources : Read(s)
  BY <1>2, <1>4
     DEF StartCycle, Fail, Publish, EndCycle, Read, ReadAnswers, ReadFails, history
<1> QED  BY <1>1, <1>2, <1>3, <1>4 DEF Next, vars, history

\* What a failed read does to the cooldown of its source in each stage.
LEMMA FailedRead ==
  ASSUME TypeOK, SessionInv, StageInv, Threshold > 1, NEW s \in Sources, ReadFails(s)
  PROVE  /\ phase = "polling"
         /\ ~AtHand => /\ Clearing
                       /\ cooldown' = cooldown
         /\ AtHand => calm <= PollTime
<1> USE Constants
<1>1. poll[s] = "running" /\ phase = "polling" /\ clock <= PollTime /\ calm \in Nat
  BY DEF ReadFails, SessionInv, TypeOK
<1>2. AllUp => link[s] = "dead" /\ ~NoDeadLink
  BY DEF ReadFails, AllUp, NoDeadLink
<1>3. ASSUME ~AtHand PROVE Clearing /\ cooldown' = cooldown
  <2>1. Clearing
    BY <1>1, <1>2, <1>3 DEF StageInv, FirstSleep, Cleared, Succeeding, Served, Ready
  <2>2. failures[s] = 0
    BY <1>2, <2>1 DEF Clearing
  <2>3. Up(failures[s], Threshold) # Threshold
    BY <2>2 DEF Up
  <2> QED  BY <2>1, <2>3 DEF ReadFails, CountFailure, TypeOK
<1> QED  BY <1>1, <1>3 DEF AtHand, TypeOK

LEMMA CooldownsNext ==
  ASSUME Threshold > 1
  PROVE  TypeOK /\ SessionInv /\ StageInv /\ CooldownsEnd /\ [Next]_vars => CooldownsEnd'
<1> SUFFICES ASSUME TypeOK, SessionInv, StageInv, CooldownsEnd, [Next]_vars,
                    NEW t \in Sources, cooldown'[t] > 0
             PROVE cooldown'[t] + calm' <= PollTime + Cooldown
  BY DEF CooldownsEnd
<1> USE Constants
<1>0. /\ cooldown[t] > 0 => cooldown[t] + calm <= PollTime + Cooldown
      /\ cooldown[t] \in 0 .. Cooldown /\ calm \in Nat
  BY DEF CooldownsEnd, TypeOK
<1>1. CASE Tick
  <2>1. cooldown'[t] = Down(cooldown[t]) /\ calm' \in Int /\ calm' <= calm + 1
    BY <1>0, <1>1 DEF Tick, Aging, Up
  <2> QED  BY <1>0, <2>1 DEF Down
<1>2. CASE UNCHANGED <<cooldown, calm>>
  BY <1>0, <1>2
<1>3. ASSUME NEW s \in Sources, DeviceChanges(s)
      PROVE cooldown'[t] + calm' <= PollTime + Cooldown
  BY <1>0, <1>3 DEF DeviceChanges
<1>4. ASSUME NEW s \in Sources, ReadFails(s)
      PROVE cooldown'[t] + calm' <= PollTime + Cooldown
  <2>1. calm' = calm
    BY <1>4 DEF ReadFails, history
  <2>2. CASE ~AtHand
    BY <1>0, <1>4, <2>1, <2>2, FailedRead
  <2>3. CASE AtHand
    <3>1. calm <= PollTime
      BY <1>4, <2>3, FailedRead
    <3>2. cooldown'[t] \in {cooldown[t], Cooldown}
      BY <1>4 DEF ReadFails, CountFailure, TypeOK
    <3> QED  BY <1>0, <2>1, <3>1, <3>2
  <2> QED  BY <2>2, <2>3
<1>5. CASE StartCycle \/ Fail \/ Publish \/ \E s \in Sources : ReadAnswers(s)
  BY <1>2, <1>5 DEF StartCycle, Fail, Publish, EndCycle, ReadAnswers, sessionVars, history
<1> QED  BY <1>1, <1>2, <1>3, <1>4, <1>5 DEF Next, Read, vars, sessionVars, history

\* One tick moves calm by at most as much as the clock.
LEMMA StageTick ==
  TypeOK /\ CalmInv /\ StageInv /\ Tick => StageInv'
<1> SUFFICES ASSUME TypeOK, CalmInv, StageInv, Tick PROVE StageInv'
  OBVIOUS
<1> USE Constants
<1>1. /\ UNCHANGED <<device, link, failures, poll, phase, lost>>
      /\ clock' = clock + 1 /\ clock \in Nat
      /\ calm \in Nat /\ calm' \in Nat /\ calm' <= calm + 1
      /\ \A s \in Sources : cooldown[s] = 0 => cooldown'[s] = 0
      /\ age # NoSuccess => age' # NoSuccess
  BY DEF Tick, Aging, TypeOK, Up, Down
<1>2. AllUp' = AllUp /\ NoDeadLink' = NoDeadLink /\ (Ready => Ready')
  BY <1>1 DEF AllUp, NoDeadLink, Ready
<1>3. CASE AtHand
  BY <1>1, <1>3 DEF AtHand, StageInv
<1>4. CASE FirstSleep
  BY <1>1, <1>4 DEF FirstSleep, StageInv
<1>5. CASE Clearing
  <2>1. Longest \in Nat
    BY DEF Longest
  <2> QED  BY <1>1, <1>2, <1>5, <2>1 DEF Clearing, StageInv
<1>6. CASE Cleared
  <2>1. Longest \in Nat
    BY DEF Longest
  <2> QED  BY <1>1, <1>2, <1>6, <2>1 DEF Cleared, StageInv
<1>7. CASE Succeeding
  <2>1. Longest \in Nat
    BY DEF Longest
  <2> QED  BY <1>1, <1>2, <1>7, <2>1 DEF Succeeding, StageInv
<1>8. CASE Served
  BY <1>1, <1>2, <1>8 DEF Served, StageInv
<1> QED  BY <1>3, <1>4, <1>5, <1>6, <1>7, <1>8 DEF StageInv

\* A new cycle is the last one to fail, or none of its reads can fail.
LEMMA StageStart ==
  TypeOK /\ SessionInv /\ LinkInv /\ CalmInv /\ CooldownsEnd /\ StageInv /\ StartCycle
    => StageInv'
<1> SUFFICES ASSUME TypeOK, SessionInv, LinkInv, CalmInv, CooldownsEnd, StageInv,
                    StartCycle
             PROVE StageInv'
  OBVIOUS
<1> USE Constants
<1>1. /\ phase = "sleeping" /\ clock = Interval /\ phase' = "polling" /\ clock' = 0
      /\ UNCHANGED <<device, failures, cooldown, age, lost, calm>>
      /\ AllUp' = AllUp
      /\ calm \in Nat /\ Longest \in Nat /\ Interval <= Longest /\ Cooldown <= Longest
  BY DEF StartCycle, history, AllUp, TypeOK, Longest
<1>2. ASSUME AllUp, NEW s \in Sources
      PROVE  /\ cooldown[s] = 0 => poll'[s] = "running"
             /\ cooldown[s] = 0 /\ link[s] # "dead" => link'[s] # "dead"
             /\ link'[s] = "dead" => poll'[s] = "running" /\ failures'[s] = 0
  <2>1. /\ poll[s] # "running"
        /\ link[s] # "none" => failures[s] = 0
        /\ cooldown[s] > 0 => failures[s] = Threshold
        /\ device[s] # "down"
        /\ cooldown[s] \in Nat
    BY <1>1, <1>2 DEF SessionInv, LinkInv, AllUp, TypeOK
  <2>2. /\ poll'[s] = IF cooldown[s] = 0 THEN "running" ELSE "failed"
        /\ link'[s] = IF link[s] # "none" \/ cooldown[s] # 0 THEN link[s] ELSE "live"
        /\ failures'[s] = failures[s]
    BY <2>1 DEF StartCycle, Admitted
  <2> QED  BY <2>1, <2>2
<1>3. ASSUME AllUp, calm <= PollTime + Longest PROVE Clearing'
  BY <1>1, <1>2, <1>3 DEF Clearing
<1>4. CASE ~AllUp
  BY <1>1, <1>4 DEF CalmInv, AtHand, StageInv
<1>5. CASE AllUp /\ FirstSleep
  BY <1>1, <1>3, <1>5 DEF FirstSleep, StageInv
<1>6. CASE AllUp /\ Cleared
  <2>1. CASE \A s \in Sources : cooldown[s] = 0
    <3>1. \A s \in Sources : cooldown'[s] = 0 /\ poll'[s] # "failed" /\ link'[s] # "dead"
      BY <1>1, <1>2, <1>6, <2>1 DEF Cleared, NoDeadLink
    <3> QED  BY <1>1, <1>6, <3>1 DEF Cleared, Succeeding, Ready, NoDeadLink, StageInv
  <2>2. ASSUME NEW s \in Sources, cooldown[s] # 0 PROVE calm <= PollTime + Longest
    <3>1. cooldown[s] \in Nat /\ cooldown[s] + calm <= PollTime + Cooldown
      BY <2>2 DEF CooldownsEnd, TypeOK
    <3> QED  BY <1>1, <2>2, <3>1
  <2> QED  BY <1>3, <1>6, <2>1, <2>2 DEF StageInv
<1>7. CASE Served
  <2>1. \A s \in Sources : cooldown'[s] = 0 /\ poll'[s] # "failed" /\ link'[s] # "dead"
    BY <1>1, <1>2, <1>7 DEF Served, Ready, NoDeadLink
  <2> QED  BY <1>1, <1>7, <2>1 DEF Served, Ready, NoDeadLink, StageInv
<1> QED  BY <1>1, <1>4, <1>5, <1>6, <1>7 DEF StageInv, AtHand, Clearing, Succeeding

\* The end of a cycle that was to succeed is a publication.
LEMMA StageEnd == TypeOK /\ CalmInv /\ StageInv /\ (Fail \/ Publish) => StageInv'
<1> SUFFICES ASSUME TypeOK, CalmInv, StageInv, Fail \/ Publish PROVE StageInv'
  OBVIOUS
<1> USE Constants
<1>1. /\ phase = "polling" /\ phase' = "sleeping" /\ clock' = 0
      /\ UNCHANGED <<device, link, failures, cooldown, poll, calm>>
      /\ \A s \in Sources : poll[s] # "running"
      /\ AllUp' = AllUp /\ NoDeadLink' = NoDeadLink /\ Ready' = Ready
      /\ calm \in Nat /\ clock \in Nat /\ clock <= PollTime
      /\ Longest \in Nat
  BY DEF Fail, Publish, EndCycle, sessionVars, AllUp, NoDeadLink, Ready, TypeOK, Longest
<1>2. CASE AtHand
  BY <1>1, <1>2 DEF AtHand, FirstSleep, StageInv
<1>3. CASE Clearing
  BY <1>1, <1>3 DEF Clearing, Cleared, NoDeadLink, StageInv
<1>4. CASE Succeeding \/ Served
  <2>1. Ready /\ \A s \in Sources : poll[s] # "failed"
    BY <1>1, <1>4 DEF Succeeding, Served
  <2>2. age' = 0 /\ lost' = 0
    BY <2>1 DEF Fail, Publish
  <2> QED  BY <1>1, <2>1, <2>2 DEF Served, StageInv
<1> QED  BY <1>1, <1>2, <1>3, <1>4 DEF StageInv, FirstSleep, Cleared

\* Reads leave the clock alone.
LEMMA StageRead ==
  ASSUME TypeOK, SessionInv, StageInv, Threshold > 1, NEW s \in Sources, Read(s)
  PROVE  StageInv'
<1> USE Constants
<1>1. /\ UNCHANGED <<device, phase, clock, age, lost, calm>>
      /\ poll[s] = "running" /\ phase = "polling"
      /\ AllUp' = AllUp
  BY DEF Read, ReadAnswers, ReadFails, cycleVars, history, SessionInv, AllUp
<1>2. CASE AtHand
  BY <1>1, <1>2 DEF AtHand, StageInv
<1>3. CASE ReadAnswers(s)
  <2>1. \A t \in Sources : /\ link'[t] = "dead" => link[t] = "dead" /\ t # s
                           /\ t # s => poll'[t] = poll[t] /\ failures'[t] = failures[t]
                           /\ poll'[t] = "failed" => poll[t] = "failed" \/ ~AllUp
    BY <1>3 DEF ReadAnswers, ResetCount, AllUp, TypeOK
  <2>2. cooldown' = cooldown /\ (NoDeadLink => NoDeadLink')
    BY <1>3, <2>1 DEF ReadAnswers, NoDeadLink
  <2>3. Ready => Ready'
    BY <1>1, <2>2 DEF Ready
  <2>4. CASE Clearing
    BY <1>1, <2>1, <2>4 DEF Clearing, StageInv, Longest
  <2>5. CASE Succeeding
    BY <1>1, <2>1, <2>3, <2>5 DEF Succeeding, Ready, StageInv, Longest
  <2>6. CASE Served
    BY <1>1, <2>1, <2>3, <2>6 DEF Served, Ready, StageInv
  <2> QED  BY <1>1, <1>2, <2>4, <2>5, <2>6 DEF StageInv, FirstSleep, Cleared
<1>4. CASE ReadFails(s) /\ ~AtHand
  <2>1. Clearing
    BY <1>4, FailedRead
  <2>2. \A t \in Sources :
          /\ link'[t] = "dead" => link[t] = "dead" /\ t # s
          /\ t # s => poll'[t] = poll[t] /\ failures'[t] = failures[t]
    BY <1>4 DEF ReadFails, CountFailure, TypeOK
  <2> QED  BY <1>1, <2>1, <2>2 DEF Clearing, StageInv, Longest
<1> QED  BY <1>2, <1>3, <1>4 DEF Read

\* A device that changes, or that a network fault touches, starts the way anew.
LEMMA StageDevice ==
  ASSUME TypeOK, NEW s \in Sources, DeviceChanges(s)
  PROVE  StageInv'
<1>1. calm' = 0 /\ UNCHANGED <<phase, clock>>
  BY DEF DeviceChanges, cycleVars
<1>2. clock \in Nat /\ phase \in {"polling", "sleeping"} /\ PollTime \in Nat
  BY Constants DEF TypeOK
<1> QED  BY <1>1, <1>2 DEF StageInv, AtHand, FirstSleep

LEMMA StageNext ==
  ASSUME Threshold > 1
  PROVE  TypeOK /\ SessionInv /\ LinkInv /\ CalmInv /\ CooldownsEnd /\ StageInv
           /\ [Next]_vars => StageInv'
<1> SUFFICES ASSUME TypeOK, SessionInv, LinkInv, CalmInv, CooldownsEnd, StageInv,
                    [Next]_vars
             PROVE StageInv'
  OBVIOUS
<1>1. ASSUME UNCHANGED vars PROVE StageInv'
  BY <1>1 DEF vars, sessionVars, cycleVars, history, StageInv, AtHand, FirstSleep, Clearing,
              Cleared, Succeeding, Served, Ready, NoDeadLink, AllUp
<1> QED  BY <1>1, StageDevice, StageTick, StageStart, StageEnd, StageRead DEF Next

\* In all stages but the last, no more than Recovery ticks have passed.
LEMMA StageBound ==
  TypeOK /\ AgeInv /\ StageInv /\ Threshold > 1 => ServedInTime
<1> SUFFICES ASSUME TypeOK, AgeInv, StageInv, Period <= DataTimeout, calm > Recovery
             PROVE Fresh
  BY DEF ServedInTime
<1> USE Constants
<1>1. Recovery = 3 * PollTime + Interval + Longest /\ Longest \in Nat
  BY DEF Recovery, Longest
<1>2. /\ clock \in Nat /\ calm \in Nat
      /\ phase = "sleeping" => clock <= Interval
      /\ phase = "polling" => clock <= PollTime
      /\ phase \in {"sleeping", "polling"}
  BY DEF TypeOK
<1>3. Served
  <2>1. ~AtHand /\ ~FirstSleep
    BY <1>1, <1>2 DEF AtHand, FirstSleep
  <2>2. ~Clearing /\ ~Cleared
    BY <1>1, <1>2 DEF Clearing, Cleared
  <2>3. ~Succeeding
    BY <1>1, <1>2 DEF Succeeding
  <2> QED  BY <2>1, <2>2, <2>3 DEF StageInv
<1>4. lost = 0 /\ age # NoSuccess /\ age \in Nat
  BY <1>3 DEF Served, TypeOK
<1>5. MaxLost # 0
  BY DataTimeoutAssumption, MaxLostAssumption
<1>6. Elapsed \in Nat /\ Elapsed <= Period
  BY <1>2 DEF Elapsed
<1>7. age <= Elapsed
  <2>1. lost * Period + Elapsed = Elapsed
    BY <1>4, <1>6
  <2> QED  BY <1>4, <1>5, <2>1 DEF AgeInv
<1> QED  BY <1>4, <1>6, <1>7, DataTimeoutAssumption DEF Fresh

\* Whatever the sources, the cooldown, the interval and the length of a poll, and however
\* the sessions stood: all devices up for Recovery means data that is fresh, if
\* data_timeout covers a cycle and one failure is no reason for a cooldown.
THEOREM ServiceRecovers == Spec => []ServedInTime
<1>1. CASE Threshold > 1
  <2>1. Init => AgeInv /\ SessionInv
    BY Constants DEF Init, AgeInv, SessionInv
  <2>2. Init => RecoveryInv
    BY Constants
       DEF Init, RecoveryInv, LinkInv, CalmInv, CooldownsEnd, StageInv, FirstSleep
  <2>3. TypeOK /\ SessionInv /\ RecoveryInv /\ [Next]_vars => RecoveryInv'
    BY <1>1, LinkNext, CalmNext, CooldownsNext, StageNext DEF RecoveryInv
  <2>4. TypeOK /\ AgeInv /\ RecoveryInv => ServedInTime
    BY <1>1, StageBound DEF RecoveryInv
  <2> QED  BY <2>1, <2>2, <2>3, <2>4, TypeInit, TypeNext, AgeNext, SessionNext, PTL DEF Spec
<1>2. CASE ~(Threshold > 1)
  <2>1. ServedInTime
    BY <1>2 DEF ServedInTime
  <2> QED  BY <2>1, PTL
<1> QED  BY <1>1, <1>2

================================================================================
