------------------------ MODULE EmulatorRuntime_proofs ------------------------
(****************************************************************************)
(* The safety properties of the refresh cycle for any set of enabled        *)
(* sources, any data_timeout and any bound on the length of a poll.         *)
(*                                                                          *)
(* RequiredValuesRecent speaks of the snapshot, which a publication fills   *)
(* from what the tasks sampled; so the invariant carries the age of a       *)
(* sample through the cycle (SampledInv: a task that has its answer got it  *)
(* within this cycle) and ties the age of a published value to the age of   *)
(* the publication (StampInv), which holds for stale data too and is        *)
(* therefore preserved by the passing of time.                              *)
(****************************************************************************)
EXTENDS EmulatorRuntime, TLAPS

SampledInv ==
  stage = "polling" =>
    \A s \in Enabled : poll[s] # "running" =>
      sampled[s] # Never /\ sampled[s] <= elapsed

StampInv ==
  stamp # Never => \A s \in Enabled :
    /\ snapshot[s]["required"] # Never
    /\ snapshot[s]["required"] <= stamp + PollTime

IInv == TypeOK /\ SampledInv /\ StampInv /\ Coherent

USE EnabledAssumption, TimesAssumption, NeverAssumption

------------------------------------------------------------------------------
(* Ages *)

\* Time makes a value older by at most one tick and turns nothing into a
\* measurement; the cap does not overtake an older value.
LEMMA OlderFacts ==
  ASSUME NEW a \in Age
  PROVE  /\ Older(a) \in Age
         /\ (Older(a) = Never) <=> (a = Never)
         /\ a # Never => /\ Older(a) \in 0 .. MaxAge
                         /\ Older(a) <= a + 1
                         /\ Older(a) = a + 1 \/ Older(a) = MaxAge
  BY DEF Older, Age, MaxAge

\* Two ages that are at most d apart are so one tick later.
LEMMA OlderKeepsDistance ==
  ASSUME NEW a \in Age \ {Never}, NEW b \in Age \ {Never}, NEW d \in Nat, a <= b + d
  PROVE  Older(a) <= Older(b) + d
  BY DEF Older, Age, MaxAge

\* The merge fills the required value of an enabled source from its sample.
LEMMA MergedRequired ==
  ASSUME NEW s \in Enabled
  PROVE  Merged(Enabled)[s]["required"] = sampled[s]
  BY DEF Merged, MergedFrom

\* The merge builds a snapshot of ages.
LEMMA MergedType ==
  ASSUME TypeOK
  PROVE  Merged(Enabled) \in [Sources -> [Field -> Age]]
<1>1. ASSUME NEW s \in Sources
      PROVE  MergedFrom(s) \in [Field -> Age]
  BY DEF TypeOK, MergedFrom, Field
<1> QED
  BY <1>1 DEF Merged, TypeOK

------------------------------------------------------------------------------
(* The invariant *)

\* The runtime starts asleep, with nothing measured.
LEMMA InitEstablishesIInv == Init => IInv
  BY DEF Init, IInv, TypeOK, SampledInv, StampInv, Coherent, Age, MaxAge,
         Payload, Field, Sources

\* One tick later every age is an age, and the poll is within its bound.
LEMMA TypeTick == TypeOK /\ Tick => TypeOK'
<1> SUFFICES ASSUME TypeOK, Tick PROVE TypeOK'
  OBVIOUS
<1>1. elapsed' \in 0 .. PollTime
  BY DEF TypeOK, Tick
<1>2. sampled' \in [Sources -> Age]
  BY OlderFacts DEF TypeOK, Tick
<1>3. snapshot' \in [Sources -> [Field -> Age]]
  BY OlderFacts DEF TypeOK, Tick
<1>4. stamp' \in Age
  BY OlderFacts DEF TypeOK, Tick
<1> QED
  BY <1>1, <1>2, <1>3, <1>4 DEF TypeOK, Tick

\* Every step leaves every variable in its set.
LEMMA TypeStep == TypeOK /\ [Next]_vars => TypeOK'
<1> SUFFICES ASSUME TypeOK, [Next]_vars PROVE TypeOK'
  OBVIOUS
<1> USE DEF TypeOK
<1>0. 0 \in Age /\ Never \in Age /\ 0 \in 0 .. PollTime
  BY DEF Age, MaxAge
<1>1. CASE Tick
  BY <1>1, TypeTick
<1>2. CASE StartCycle
  BY <1>0, <1>2 DEF StartCycle, Payload
<1>3. ASSUME NEW s \in Sources, Sample(s)
      PROVE  TypeOK'
  <2>1. PICK p \in Yields(s) : payload' = [payload EXCEPT ![s] = p]
    BY <1>3 DEF Sample
  <2>2. p \in Payload
    BY <2>1 DEF Yields, Payload, Sources
  <2> QED
    BY <1>0, <1>3, <2>1, <2>2 DEF Sample
<1>4. ASSUME NEW s \in Sources, FinishPoll(s)
      PROVE  TypeOK'
  <2>1. Transformed(s, payload[s]) \in Payload
    BY DEF Transformed, Payload
  <2> QED
    BY <1>4, <2>1 DEF FinishPoll
<1>5. CASE FailCycle
  BY <1>5 DEF FailCycle, taskVars
<1>6. CASE Publish
  BY <1>0, <1>6, MergedType DEF Publish, taskVars
<1>7. CASE PublishRaises
  BY <1>7, MergedType DEF PublishRaises, taskVars
<1>8. CASE UNCHANGED vars
  BY <1>8 DEF vars, taskVars
<1> QED
  BY <1>1, <1>2, <1>3, <1>4, <1>5, <1>6, <1>7, <1>8 DEF Next, EndCycle

\* A task that has its answer got it within this cycle.
LEMMA SampledStep == IInv /\ [Next]_vars => SampledInv'
<1> SUFFICES ASSUME IInv, [Next]_vars, NEW s \in Enabled,
                    (stage = "polling")', poll'[s] # "running"
             PROVE  sampled'[s] # Never /\ sampled'[s] <= elapsed'
  BY DEF SampledInv
<1> USE DEF IInv, TypeOK
<1>1. CASE Tick
  <2>1. poll[s] # "running" /\ sampled[s] # Never /\ sampled[s] <= elapsed
    BY <1>1 DEF Tick, SampledInv
  <2>2. sampled'[s] = Older(sampled[s]) /\ elapsed' = elapsed + 1
    BY <1>1 DEF Tick
  <2> QED
    BY <2>1, <2>2, OlderFacts DEF Age, MaxAge
<1>2. CASE StartCycle
  BY <1>2 DEF StartCycle
<1>3. ASSUME NEW t \in Sources, Sample(t)
      PROVE  sampled'[s] # Never /\ sampled'[s] <= elapsed'
  BY <1>3 DEF Sample, SampledInv
<1>4. ASSUME NEW t \in Sources, FinishPoll(t)
      PROVE  sampled'[s] # Never /\ sampled'[s] <= elapsed'
  BY <1>4 DEF FinishPoll, SampledInv
<1>5. CASE EndCycle
  BY <1>5 DEF EndCycle, FailCycle, Publish, PublishRaises
<1>6. CASE UNCHANGED vars
  BY <1>6 DEF vars, taskVars, SampledInv
<1> QED
  BY <1>1, <1>2, <1>3, <1>4, <1>5, <1>6 DEF Next

\* What a cycle merges was sampled within the cycle.
LEMMA MergedRecent ==
  ASSUME IInv, AllDone, NEW s \in Enabled
  PROVE  /\ Merged(Enabled)[s]["required"] \in Age \ {Never}
         /\ Merged(Enabled)[s]["required"] <= PollTime
  BY MergedRequired DEF IInv, TypeOK, AllDone, SampledInv, Age, MaxAge

\* The age of a publication bounds the age of what it published, and goes on
\* doing so as both grow.
LEMMA StampStep == IInv /\ [Next]_vars => StampInv'
<1> SUFFICES ASSUME IInv, [Next]_vars, NEW s \in Enabled, stamp' # Never
             PROVE  /\ snapshot'[s]["required"] # Never
                    /\ snapshot'[s]["required"] <= stamp' + PollTime
  BY DEF StampInv
<1> USE DEF IInv
<1>a. snapshot[s]["required"] \in Age /\ stamp \in Age
  BY DEF TypeOK, Field
<1>1. CASE Tick
  <2>1. /\ stamp' = Older(stamp)
        /\ snapshot'[s]["required"] = Older(snapshot[s]["required"])
    BY <1>1 DEF Tick, TypeOK, Field
  <2>2. stamp # Never
    BY <1>a, <2>1, OlderFacts
  <2> QED
    BY <1>a, <2>1, <2>2, OlderFacts, OlderKeepsDistance DEF StampInv
<1>2. CASE Publish
  BY <1>2, MergedRecent DEF Publish, Age
<1>3. CASE PublishRaises
  BY <1>3, <1>a, MergedRecent DEF PublishRaises, Age, MaxAge
<1>4. CASE UNCHANGED <<snapshot, stamp>>
  BY <1>4 DEF StampInv
<1> QED
  BY <1>1, <1>2, <1>3, <1>4
  DEF Next, EndCycle, FailCycle, StartCycle, Sample, FinishPoll, vars

\* A cycle replaces the required values of all enabled sources or of none, and
\* time keeps their distance.
LEMMA CoherentStep == IInv /\ [Next]_vars => Coherent'
<1> SUFFICES ASSUME IInv, [Next]_vars, NEW s \in Enabled, NEW t \in Enabled
             PROVE  LET a == snapshot'[s]["required"]
                        b == snapshot'[t]["required"]
                    IN  /\ (a = Never) <=> (b = Never)
                        /\ a # Never /\ b # Never => a <= b + PollTime
  BY DEF Coherent
<1> DEFINE a == snapshot[s]["required"]
           b == snapshot[t]["required"]
<1> USE DEF IInv
<1>a. a \in Age /\ b \in Age
  BY DEF TypeOK, Field
<1>b. /\ (a = Never) <=> (b = Never)
      /\ a # Never /\ b # Never => a <= b + PollTime
  BY DEF Coherent
<1>1. CASE Tick
  <2>1. a' = Older(a) /\ b' = Older(b)
    BY <1>1 DEF Tick, TypeOK, Field
  <2> HIDE DEF a, b
  <2>2. /\ (a' = Never) <=> (b' = Never)
        /\ a' # Never /\ b' # Never => a' <= b' + PollTime
    BY <1>a, <1>b, <2>1, OlderFacts, OlderKeepsDistance
  <2> QED
    BY <2>2 DEF a, b
<1>2. CASE Publish \/ PublishRaises
  BY <1>2, MergedRecent DEF Publish, PublishRaises, Age, MaxAge
<1>3. CASE UNCHANGED snapshot
  BY <1>3, <1>b
<1> QED
  BY <1>1, <1>2, <1>3
  DEF Next, EndCycle, FailCycle, StartCycle, Sample, FinishPoll, vars

LEMMA IInvInductive == IInv /\ [Next]_vars => IInv'
  BY TypeStep, SampledStep, StampStep, CoherentStep DEF IInv

THEOREM Invariance == Spec => []IInv
  BY InitEstablishesIInv, IInvInductive, PTL DEF Spec

------------------------------------------------------------------------------
(* The theorems *)

\* Type correctness, whatever the configuration: no cycle outlasts a poll and no
\* age passes its cap (_refresh_once, _poll_source).
THEOREM TypeCorrect == Spec => []TypeOK
  BY Invariance, PTL DEF IInv

\* While the circuit may be closed, each required value was measured at most
\* data_timeout plus one poll ago (_refresh_once, mark_data_received).
THEOREM ServedValuesRecent == Spec => []RequiredValuesRecent
<1>1. ASSUME IInv, Servable, NEW s \in Enabled
      PROVE  /\ snapshot[s]["required"] # Never
             /\ snapshot[s]["required"] <= DataTimeout + PollTime
  <2>1. /\ snapshot[s]["required"] # Never
        /\ snapshot[s]["required"] <= stamp + PollTime
    BY <1>1 DEF IInv, StampInv, Servable
  <2>2. snapshot[s]["required"] \in Age /\ stamp \in Age
    BY <1>1 DEF IInv, TypeOK, Field
  <2>3. stamp \in Nat /\ snapshot[s]["required"] \in Nat /\ stamp <= DataTimeout
    BY <1>1, <2>1, <2>2 DEF Servable, Age, MaxAge
  <2> QED
    BY <2>1, <2>3
<1>2. IInv => RequiredValuesRecent
  BY <1>1 DEF RequiredValuesRecent
<1> QED
  BY <1>2, Invariance, PTL

\* No cycle mixes measurements of different times (the check of `failed` in
\* _refresh_once before the first _merge).
THEOREM MeasurementsCoherent == Spec => []Coherent
  BY Invariance, PTL DEF IInv

================================================================================
