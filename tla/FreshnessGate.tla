----------------------------- MODULE FreshnessGate -----------------------------
(****************************************************************************)
(* What the downstream circuit breaker promises, with no clock, no lock and *)
(* no register: a request may be granted the registers only if the upstream *)
(* data was fresh at some instant of that request.  The gate may refuse a   *)
(* request at any time (it errs on the side of DEVICE_BUSY), but it answers *)
(* every request.  GoodweServer implements this specification.              *)
(****************************************************************************)
CONSTANT Servers          \* the threads that answer requests

VARIABLES
  stale,                  \* is the upstream data too old (or absent)?
  freshSeen,              \* was it fresh at some instant of this request?
  req                     \* where the current request of each thread stands

vars == <<stale, freshSeen, req>>

TypeOK ==
  /\ stale \in BOOLEAN
  /\ freshSeen \in [Servers -> BOOLEAN]
  /\ req \in [Servers -> {"idle", "waiting", "granted"}]

\* Before the first complete refresh there is no data at all.
Init ==
  /\ stale = TRUE
  /\ freshSeen = [s \in Servers |-> FALSE]
  /\ req = [s \in Servers |-> "idle"]

\* The data outlives data_timeout.
Expire ==
  /\ stale' = TRUE
  /\ UNCHANGED <<freshSeen, req>>

\* A refresh completes; every request in progress has now seen fresh data.
Refresh ==
  /\ stale' = FALSE
  /\ freshSeen' = [s \in Servers |-> TRUE]
  /\ UNCHANGED req

Arrive(s) ==
  /\ req[s] = "idle"
  /\ req' = [req EXCEPT ![s] = "waiting"]
  /\ freshSeen' = [freshSeen EXCEPT ![s] = ~stale]
  /\ UNCHANGED stale

Grant(s) ==
  /\ req[s] = "waiting"
  /\ freshSeen[s]
  /\ req' = [req EXCEPT ![s] = "granted"]
  /\ UNCHANGED <<stale, freshSeen>>

Refuse(s) ==
  /\ req[s] = "waiting"
  /\ req' = [req EXCEPT ![s] = "idle"]
  /\ UNCHANGED <<stale, freshSeen>>

\* The granted request has copied its registers.
Finish(s) ==
  /\ req[s] = "granted"
  /\ req' = [req EXCEPT ![s] = "idle"]
  /\ UNCHANGED <<stale, freshSeen>>

Answer(s) == Grant(s) \/ Refuse(s) \/ Finish(s)

Next ==
  \/ Expire
  \/ Refresh
  \/ \E s \in Servers : Arrive(s) \/ Answer(s)

SafetySpec == Init /\ [][Next]_vars

\* Every request that arrived is answered.
Spec == SafetySpec /\ \A s \in Servers : WF_vars(Answer(s))

================================================================================
