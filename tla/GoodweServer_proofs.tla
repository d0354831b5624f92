-------------------------- MODULE GoodweServer_proofs --------------------------
(****************************************************************************)
(* The safety properties of GoodweServer for any number of listeners, any   *)
(* data_timeout and any number of registers.                                *)
(*                                                                          *)
(* ServedWhileFresh is not inductive: between its age check and its gate    *)
(* check a listener holds a verdict that other threads can make obsolete.   *)
(* What does hold at every step is that a closed circuit has let a listener *)
(* past its age check only on fresh data (GateInv), that the registers have *)
(* one shape per step of the publication (RegsInv), and that a failure      *)
(* verdict cannot be overtaken, because publishing and marking a failure    *)
(* are steps of one thread (TripInv).                                       *)
(****************************************************************************)
EXTENDS GoodweServer, TLAPS

\* What the listeners may rely on.
GateInv ==
  /\ ~open => age # NoSuccess
  /\ \A s \in Servers :
       /\ pc[s] = "gate" /\ ~open => freshSeen[s]
       /\ pc[s] = "copy" => freshSeen[s] /\ age # NoSuccess
       /\ reply[s] # {} => freshSeen[s]

\* The content the publication in progress has not reached yet.
Unwritten == IF age = NoSuccess THEN {"zero", "master"} ELSE {"prev", "master"}
Published == IF age = NoSuccess THEN {"zero", "master"} ELSE {"cur", "master"}

RegsInv ==
  \A a \in Regs :
    regs[a] \in CASE upc = "mark"  -> {"cur", "master"}
                  [] upc = "write" -> IF a <= written THEN {"cur", "master"}
                                                      ELSE Unwritten
                  [] OTHER         -> Published

TripInv == FailureToleratedWhileFresh

IInv ==
  /\ TypeOK
  /\ GateInv
  /\ RegsInv
  /\ TripInv
  /\ upc = "write" => written < NumRegs
  /\ ReplyFromLastTwoPublications

------------------------------------------------------------------------------
(* The invariant, one lemma per conjunct that needs an argument *)

USE TimeoutAssumption, RegsAssumption, NoSuccessAssumption

\* The code starts with no data, an open circuit and zeroed registers.
LEMMA InitEstablishesIInv == Init => IInv
  BY DEF Init, IInv, TypeOK, GateInv, RegsInv, Published, TripInv,
         FailureToleratedWhileFresh, Stale, ReplyFromLastTwoPublications,
         Regs, Generation

\* Every step leaves every variable in its set; a register write needs the
\* bound on written.
LEMMA TypeStep == IInv /\ [Next]_vars => TypeOK'
<1> SUFFICES ASSUME IInv, [Next]_vars PROVE TypeOK'
  OBVIOUS
<1> USE DEF IInv, TypeOK, Regs, Generation, breakerVars, updaterVars, serverVars
<1>1. CASE Tick
  BY <1>1 DEF Tick
<1>2. CASE RefreshFailed
  BY <1>2 DEF RefreshFailed
<1>3. CASE MarkFailure
  BY <1>3 DEF MarkFailure
<1>4. CASE TripOnFailure
  BY <1>4 DEF TripOnFailure
<1>5. CASE BeginPublication
  BY <1>5 DEF BeginPublication, Aged
<1>6. CASE WriteRegister
  BY <1>6 DEF WriteRegister
<1>7. CASE MarkSuccess
  <2>1. age' \in 0 .. DataTimeout + 1
    BY <1>7 DEF MarkSuccess
  <2>2. freshSeen' \in [Servers -> BOOLEAN]
    BY <1>7 DEF MarkSuccess
  <2>3. open' \in BOOLEAN
    BY <1>7 DEF MarkSuccess
  <2> QED
    BY <1>7, <2>1, <2>2, <2>3 DEF MarkSuccess
<1>8. ASSUME NEW s \in Servers, SampleAge(s) PROVE TypeOK'
  BY <1>8 DEF SampleAge
<1>9. ASSUME NEW s \in Servers, MasterWrite(s) PROVE TypeOK'
  BY <1>9 DEF MasterWrite
<1>10. ASSUME NEW s \in Servers, TripOnStale(s) PROVE TypeOK'
  BY <1>10 DEF TripOnStale
<1>11. ASSUME NEW s \in Servers, Gate(s) PROVE TypeOK'
  BY <1>11 DEF Gate
<1>12. ASSUME NEW s \in Servers, CopyRegisters(s) PROVE TypeOK'
  BY <1>12 DEF CopyRegisters
<1>13. CASE UNCHANGED vars
  BY <1>13 DEF vars
<1> QED
  BY <1>1, <1>2, <1>3, <1>4, <1>5, <1>6, <1>7, <1>8, <1>9, <1>10, <1>11,
     <1>12, <1>13 DEF Next, Updater, Answering

\* A listener passes a closed gate only after it has seen fresh data, and a
\* closed circuit means a success has been stamped.
LEMMA GateStep == IInv /\ [Next]_vars => GateInv'
<1> SUFFICES ASSUME IInv, [Next]_vars PROVE GateInv'
  OBVIOUS
<1> USE DEF IInv, TypeOK, GateInv, breakerVars, updaterVars, serverVars
<1>1. CASE Tick
  BY <1>1 DEF Tick
<1>2. CASE Updater /\ ~MarkSuccess
  BY <1>2 DEF Updater, RefreshFailed, MarkFailure, TripOnFailure,
              BeginPublication, WriteRegister
<1>3. CASE MarkSuccess
  BY <1>3 DEF MarkSuccess
<1>4. ASSUME NEW s \in Servers, SampleAge(s) PROVE GateInv'
  BY <1>4 DEF SampleAge, Stale
<1>5. ASSUME NEW s \in Servers, MasterWrite(s) PROVE GateInv'
  BY <1>5 DEF MasterWrite
<1>6. ASSUME NEW s \in Servers, TripOnStale(s) PROVE GateInv'
  BY <1>6 DEF TripOnStale
<1>7. ASSUME NEW s \in Servers, Gate(s) PROVE GateInv'
  BY <1>7 DEF Gate
<1>8. ASSUME NEW s \in Servers, CopyRegisters(s) PROVE GateInv'
  BY <1>8 DEF CopyRegisters
<1>9. CASE UNCHANGED vars
  BY <1>9 DEF vars
<1> QED
  BY <1>1, <1>2, <1>3, <1>4, <1>5, <1>6, <1>7, <1>8, <1>9
     DEF Next, Answering

\* The registers go from one publication to the next in writing order, and the
\* breaker is marked at the end of it.
LEMMA RegsStep ==
  IInv /\ [Next]_vars => RegsInv' /\ (upc = "write" => written < NumRegs)'
<1> SUFFICES ASSUME IInv, [Next]_vars
             PROVE  RegsInv' /\ (upc = "write" => written < NumRegs)'
  OBVIOUS
<1> USE DEF IInv, TypeOK, RegsInv, Regs, Unwritten, Published,
            breakerVars, updaterVars, serverVars
<1>1. CASE Tick
  BY <1>1 DEF Tick
<1>2. CASE RefreshFailed \/ MarkFailure \/ TripOnFailure
  BY <1>2 DEF RefreshFailed, MarkFailure, TripOnFailure
<1>3. CASE BeginPublication
  BY <1>3 DEF BeginPublication, Aged
<1>4. CASE WriteRegister
  <2>1. /\ upc = "write" /\ written < NumRegs
        /\ regs' = [regs EXCEPT ![written + 1] = "cur"]
        /\ written' = written + 1 /\ age' = age
        /\ upc' = IF written + 1 = NumRegs THEN "mark" ELSE "write"
    BY <1>4 DEF WriteRegister
  <2>2. ASSUME NEW a \in Regs, a <= written + 1
        PROVE  regs'[a] \in {"cur", "master"}
    BY <2>1, <2>2
  <2>3. ASSUME NEW a \in Regs, a > written + 1
        PROVE  regs'[a] \in Unwritten
    BY <2>1, <2>3
  <2> QED
    BY <2>1, <2>2, <2>3
<1>5. CASE MarkSuccess
  BY <1>5 DEF MarkSuccess
<1>6. ASSUME NEW s \in Servers, MasterWrite(s)
      PROVE  RegsInv' /\ (upc = "write" => written < NumRegs)'
  BY <1>6 DEF MasterWrite
<1>7. ASSUME NEW s \in Servers, SampleAge(s) \/ Answering(s)
      PROVE  RegsInv' /\ (upc = "write" => written < NumRegs)'
  BY <1>7 DEF SampleAge, Answering, TripOnStale, Gate, CopyRegisters
<1>8. CASE UNCHANGED vars
  BY <1>8 DEF vars
<1> QED
  BY <1>1, <1>2, <1>3, <1>4, <1>5, <1>6, <1>7, <1>8 DEF Next, Updater

\* Stale data stays stale until the refresh thread itself marks a success.
LEMMA TripStep == IInv /\ [Next]_vars => TripInv'
<1> SUFFICES ASSUME IInv, [Next]_vars PROVE TripInv'
  OBVIOUS
<1> USE DEF IInv, TypeOK, TripInv, FailureToleratedWhileFresh, Stale,
            breakerVars, updaterVars, serverVars
<1>1. CASE Tick
  BY <1>1 DEF Tick
<1>2. CASE Updater
  BY <1>2 DEF Updater, RefreshFailed, MarkFailure, TripOnFailure,
              BeginPublication, WriteRegister, MarkSuccess
<1>3. ASSUME NEW s \in Servers, SampleAge(s) \/ MasterWrite(s) \/ Answering(s)
      PROVE  TripInv'
  BY <1>3 DEF SampleAge, MasterWrite, Answering, TripOnStale, Gate,
              CopyRegisters
<1>4. CASE UNCHANGED vars
  BY <1>4 DEF vars
<1> QED
  BY <1>1, <1>2, <1>3, <1>4 DEF Next

\* Once a success has been stamped no register is left at zero and none is
\* older than the publication before the current one.
LEMMA RegsAfterSuccess ==
  IInv /\ age # NoSuccess => \A a \in Regs : regs[a] \in {"cur", "prev", "master"}
  BY DEF IInv, RegsInv, Unwritten, Published

LEMMA ReplyStep == IInv /\ [Next]_vars => ReplyFromLastTwoPublications'
<1> SUFFICES ASSUME IInv, [Next]_vars PROVE ReplyFromLastTwoPublications'
  OBVIOUS
<1> USE DEF IInv, TypeOK, ReplyFromLastTwoPublications,
            breakerVars, updaterVars, serverVars
<1>1. CASE Tick \/ Updater
  BY <1>1 DEF Tick, Updater, RefreshFailed, MarkFailure, TripOnFailure,
              BeginPublication, WriteRegister, MarkSuccess
<1>2. ASSUME NEW s \in Servers,
             SampleAge(s) \/ MasterWrite(s) \/ TripOnStale(s) \/ Gate(s)
      PROVE  ReplyFromLastTwoPublications'
  BY <1>2 DEF SampleAge, MasterWrite, TripOnStale, Gate
<1>3. ASSUME NEW s \in Servers, CopyRegisters(s)
      PROVE  ReplyFromLastTwoPublications'
  <2>1. age # NoSuccess
    BY <1>3 DEF CopyRegisters, GateInv
  <2>2. PICK slice \in (SUBSET Regs) \ {{}} :
          reply' = [reply EXCEPT ![s] = {regs[a] : a \in slice}]
    BY <1>3 DEF CopyRegisters
  <2>3. {regs[a] : a \in slice} \subseteq {"cur", "prev", "master"}
    BY <2>1, RegsAfterSuccess
  <2> QED
    BY <2>2, <2>3
<1>4. CASE UNCHANGED vars
  BY <1>4 DEF vars
<1> QED
  BY <1>1, <1>2, <1>3, <1>4 DEF Next, Answering

LEMMA IInvStep == IInv /\ [Next]_vars => IInv'
  BY TypeStep, GateStep, RegsStep, TripStep, ReplyStep DEF IInv

LEMMA IInvInvariant == Spec => []IInv
  BY InitEstablishesIInv, IInvStep, PTL DEF Spec

------------------------------------------------------------------------------
(* The properties *)

\* Every variable of the server stays in its set.
THEOREM TypeCorrect == Spec => []TypeOK
<1>1. IInv => TypeOK
  BY DEF IInv
<1> QED
  BY <1>1, IInvInvariant, PTL

\* allow_datastore_access lets a request through only if the data was fresh at
\* some instant of it, for any number of listeners.
THEOREM RegistersServedWhileFresh == Spec => []ServedWhileFresh
<1>1. IInv => ServedWhileFresh
  BY DEF IInv, GateInv, ServedWhileFresh
<1> QED
  BY <1>1, IInvInvariant, PTL

\* update_holding_registers and the breaker together never let a reply go back
\* further than the publication before the current one.
THEOREM RepliesAreRecent == Spec => []ReplyFromLastTwoPublications
<1>1. IInv => ReplyFromLastTwoPublications
  BY DEF IInv
<1> QED
  BY <1>1, IInvInvariant, PTL

\* mark_failure opens the circuit on stale data only, although it judges an age
\* it has read under a lock released since.
THEOREM FailuresTolerated == Spec => []FailureToleratedWhileFresh
<1>1. IInv => FailureToleratedWhileFresh
  BY DEF IInv, TripInv
<1> QED
  BY <1>1, IInvInvariant, PTL

\* Only mark_success closes the circuit, and every register is then published.
THEOREM ClosesOnPublication == Spec => ClosesOnlyOnCompletePublication
<1>1. IInv /\ [Next]_vars
        => [open /\ ~open' => \A a \in Regs : regs[a] \in {"cur", "master"}]_vars
  <2> SUFFICES ASSUME IInv, [Next]_vars, open, ~open'
               PROVE  \A a \in Regs : regs[a] \in {"cur", "master"}
    OBVIOUS
  <2>1. MarkSuccess
    BY DEF Next, Updater, Answering, vars, Tick, RefreshFailed, MarkFailure,
           TripOnFailure, BeginPublication, WriteRegister, SampleAge,
           MasterWrite, TripOnStale, Gate, CopyRegisters, breakerVars
  <2> QED
    BY <2>1 DEF MarkSuccess, IInv, RegsInv
<1> QED
  BY <1>1, IInvInvariant, PTL DEF Spec, ClosesOnlyOnCompletePublication

\* The server does nothing to a request that the abstract gate forbids: every
\* step of it is a step of FreshnessGate or leaves that module's state alone.
THEOREM GateRefinement == Spec => Gated!SafetySpec
<1>1. Init => Gated!Init
  BY DEF Init, Gated!Init, Stale, Requests
<1>2. IInv /\ [Next]_vars => [Gated!Next]_Gated!vars
  <2> SUFFICES ASSUME IInv, [Next]_vars
               PROVE  Gated!Next \/ UNCHANGED Gated!vars
    BY DEF Gated!vars
  <2> USE DEF IInv, TypeOK, breakerVars, updaterVars, serverVars
  <2>1. CASE Tick
    <3>1. UNCHANGED <<freshSeen, Requests>> /\ (Stale => Stale')
      BY <2>1 DEF Tick, Stale, Requests
    <3> QED
      BY <3>1 DEF Gated!vars, Gated!Next, Gated!Expire, Stale
  <2>2. CASE Updater /\ ~MarkSuccess
    <3>1. UNCHANGED <<Stale, freshSeen, Requests>>
      BY <2>2 DEF Updater, RefreshFailed, MarkFailure, TripOnFailure,
                  BeginPublication, WriteRegister, Stale, Requests
    <3> QED
      BY <3>1 DEF Gated!vars
  <2>3. CASE MarkSuccess
    <3>1. Stale' = FALSE /\ UNCHANGED Requests
      BY <2>3 DEF MarkSuccess, Stale, Requests
    <3> QED
      BY <2>3, <3>1 DEF MarkSuccess, Gated!Next, Gated!Refresh
  <2>4. ASSUME NEW s \in Servers, SampleAge(s) PROVE Gated!Next
    <3>1. UNCHANGED Stale
      BY <2>4 DEF SampleAge, Stale
    <3>2. Requests[s] = "idle" /\ Requests' = [Requests EXCEPT ![s] = "waiting"]
      BY <2>4 DEF SampleAge, Requests
    <3>3. freshSeen' = [freshSeen EXCEPT ![s] = ~Stale]
      BY <2>4 DEF SampleAge
    <3> QED
      BY <3>1, <3>2, <3>3 DEF Gated!Next, Gated!Arrive
  <2>5. ASSUME NEW s \in Servers, MasterWrite(s) \/ TripOnStale(s)
        PROVE  UNCHANGED Gated!vars
    <3>1. UNCHANGED <<Stale, freshSeen, Requests>>
      BY <2>5 DEF MasterWrite, TripOnStale, Stale, Requests
    <3> QED
      BY <3>1 DEF Gated!vars
  <2>6. ASSUME NEW s \in Servers, Gate(s) PROVE Gated!Next
    <3>1. UNCHANGED <<Stale, freshSeen>> /\ Requests[s] = "waiting"
      BY <2>6 DEF Gate, Stale, Requests
    <3>2. CASE open
      <4>1. Requests' = [Requests EXCEPT ![s] = "idle"]
        BY <2>6, <3>2 DEF Gate, Requests
      <4> QED
        BY <3>1, <4>1 DEF Gated!Next, Gated!Answer, Gated!Refuse
    <3>3. CASE ~open
      <4>1. Requests' = [Requests EXCEPT ![s] = "granted"] /\ freshSeen[s]
        BY <2>6, <3>3 DEF Gate, Requests, GateInv
      <4> QED
        BY <3>1, <4>1 DEF Gated!Next, Gated!Answer, Gated!Grant
    <3> QED
      BY <3>2, <3>3
  <2>7. ASSUME NEW s \in Servers, CopyRegisters(s) PROVE Gated!Next
    <3>1. UNCHANGED <<Stale, freshSeen>> /\ Requests[s] = "granted"
      BY <2>7 DEF CopyRegisters, Stale, Requests
    <3>2. Requests' = [Requests EXCEPT ![s] = "idle"]
      BY <2>7 DEF CopyRegisters, Requests
    <3> QED
      BY <3>1, <3>2 DEF Gated!Next, Gated!Answer, Gated!Finish
  <2>8. CASE UNCHANGED vars
    BY <2>8 DEF vars, Gated!vars, Stale, Requests
  <2> QED
    BY <2>1, <2>2, <2>3, <2>4, <2>5, <2>6, <2>7, <2>8 DEF Next, Answering
<1> QED
  BY <1>1, <1>2, IInvInvariant, PTL DEF Spec, Gated!SafetySpec

================================================================================
