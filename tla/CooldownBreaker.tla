---------------------------- MODULE CooldownBreaker ----------------------------
(****************************************************************************)
(* What a client-side breaker promises, with no counter and no clock: the   *)
(* classical three modes, one read of the upstream at a time, no read while *)
(* open, and a single trial read in the half-open mode whose failure opens  *)
(* the breaker again at once.  UpstreamSession implements it.               *)
(****************************************************************************)
VARIABLES
  mode,       \* "closed", "open" or "half"
  inFlight    \* is a read of the upstream in progress?

vars == <<mode, inFlight>>

TypeOK ==
  /\ mode \in {"closed", "open", "half"}
  /\ inFlight \in BOOLEAN

Init ==
  /\ mode = "closed"
  /\ inFlight = FALSE

Start ==
  /\ ~inFlight
  /\ mode # "open"
  /\ inFlight' = TRUE
  /\ UNCHANGED mode

Succeed ==
  /\ inFlight
  /\ inFlight' = FALSE
  /\ mode' = "closed"

\* A closed breaker tolerates some failures; a trial read is not given a second
\* chance.
Fail ==
  /\ inFlight
  /\ inFlight' = FALSE
  /\ mode' \in IF mode = "half" THEN {"open"} ELSE {"closed", "open"}

\* The read ends with an exception that counts neither way.
Abort ==
  /\ inFlight
  /\ inFlight' = FALSE
  /\ UNCHANGED mode

\* The cooldown is over.
Elapse ==
  /\ mode = "open"
  /\ mode' = "half"
  /\ UNCHANGED inFlight

Finish == Succeed \/ Fail \/ Abort
Next == Start \/ Finish \/ Elapse

SafetySpec == Init /\ [][Next]_vars

\* Every read ends and every cooldown ends.
Spec == SafetySpec /\ WF_vars(Finish) /\ WF_vars(Elapse)

================================================================================
