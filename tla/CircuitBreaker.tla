---------------------------- MODULE CircuitBreaker ----------------------------
(***************************************************************************)
(* The circuit breaker (one key) and BreakerStore, whose calls to the       *)
(* budget store it admits.  A call runs outside the breaker's mutex: its    *)
(* outcome may be reported long after the state that admitted it is gone.   *)
(***************************************************************************)
EXTENDS Integers, FiniteSets

CONSTANTS
    Callers,                   \* goroutines that use the store
    FailureThreshold,
    HalfOpenMaxProbes,
    HalfOpenSuccessesToClose,
    MaxFailures,               \* bound on failureCount
    MaxOverrides               \* bound on the operator's interventions

ASSUME BreakerAssumption ==
    /\ IsFiniteSet(Callers)
    /\ FailureThreshold \in Nat \ {0}
    /\ HalfOpenMaxProbes \in Nat \ {0}
    /\ HalfOpenSuccessesToClose \in Nat \ {0}
    /\ MaxFailures \in Nat
    /\ MaxOverrides \in Nat

VARIABLES
    state,
    failureCount,
    cooling,                   \* openUntil is in the future
    failOpen,                  \* failMode = FailOpen
    probes,                    \* halfOpenProbes
    successes,                 \* halfOpenSuccesses
    call,                      \* what each caller is doing
    healthy,                   \* whether the store behind the breaker answers
    overrides                  \* interventions so far

entry == <<state, failureCount, cooling, failOpen, probes, successes>>
vars == <<entry, call, healthy, overrides>>

Init ==
    /\ state = "closed"
    /\ failureCount = 0
    /\ cooling = FALSE
    /\ failOpen = FALSE
    /\ probes = 0
    /\ successes = 0
    /\ call = [c \in Callers |-> "idle"]
    /\ healthy = TRUE
    /\ overrides = 0

-----------------------------------------------------------------------------
(* openLocked: the cooldown starts again and the probes are forgotten.      *)
Open ==
    /\ state' = "open"
    /\ cooling' = TRUE
    /\ probes' = 0
    /\ successes' = 0

(* Fault: the failures that opened the breaker are not forgotten.           *)
Close_KeepsFailures ==
    /\ state' = "closed"
    /\ cooling' = FALSE
    /\ probes' = 0
    /\ successes' = 0
    /\ UNCHANGED failureCount

(* closeLocked *)
Close ==
    /\ state' = "closed"
    /\ failureCount' = 0
    /\ cooling' = FALSE
    /\ probes' = 0
    /\ successes' = 0

(* Fault: a place is given back that nobody took.                           *)
RecordSuccess_NoFloor ==
    \/ /\ state = "closed"
       /\ failureCount' = 0
       /\ UNCHANGED <<state, cooling, probes, successes>>
    \/ /\ state = "halfOpen"
       /\ successes + 1 < HalfOpenSuccessesToClose
       /\ probes' = probes - 1
       /\ successes' = successes + 1
       /\ UNCHANGED <<state, failureCount, cooling>>
    \/ state = "halfOpen" /\ successes + 1 >= HalfOpenSuccessesToClose /\ Close
    \/ state = "open" /\ UNCHANGED <<state, failureCount, cooling, probes, successes>>

(* Fault: a probe that succeeds keeps its place.                            *)
RecordSuccess_KeepsPlace ==
    \/ /\ state = "closed"
       /\ failureCount' = 0
       /\ UNCHANGED <<state, cooling, probes, successes>>
    \/ /\ state = "halfOpen"
       /\ successes + 1 < HalfOpenSuccessesToClose
       /\ successes' = successes + 1
       /\ UNCHANGED <<state, failureCount, cooling, probes>>
    \/ state = "halfOpen" /\ successes + 1 >= HalfOpenSuccessesToClose /\ Close
    \/ state = "open" /\ UNCHANGED <<state, failureCount, cooling, probes, successes>>

(***************************************************************************)
(* A success counts for the state it finds, whichever state admitted the    *)
(* call: a late one may give back a place it never took.                    *)
(***************************************************************************)
RecordSuccess ==
    \/ /\ state = "closed"
       /\ failureCount' = 0
       /\ UNCHANGED <<state, cooling, probes, successes>>
    \/ /\ state = "halfOpen"
       /\ successes + 1 < HalfOpenSuccessesToClose
       /\ probes' = IF probes > 0 THEN probes - 1 ELSE probes
       /\ successes' = successes + 1
       /\ UNCHANGED <<state, failureCount, cooling>>
    \/ state = "halfOpen" /\ successes + 1 >= HalfOpenSuccessesToClose /\ Close
    \/ state = "open" /\ UNCHANGED <<state, failureCount, cooling, probes, successes>>

RecordFailure ==
    /\ failureCount < MaxFailures
    /\ failureCount' = failureCount + 1
    /\ \/ state = "closed" /\ failureCount + 1 >= FailureThreshold /\ Open
       \/ state = "halfOpen" /\ Open
       \/ /\ \/ state = "closed" /\ failureCount + 1 < FailureThreshold
             \/ state = "open"
          /\ UNCHANGED <<state, cooling, probes, successes>>

-----------------------------------------------------------------------------
Admit(c, kind) == call[c] = "idle" /\ call' = [call EXCEPT ![c] = kind]

(***************************************************************************)
(* Allow, and the start of the call it admits.  The first caller after the  *)
(* cooldown turns the breaker half open.  A refused caller changes nothing. *)
(***************************************************************************)
Allow(c) ==
    /\ \/ /\ state = "closed"
          /\ Admit(c, "call")
          /\ UNCHANGED <<state, probes, successes>>
       \/ /\ state = "open" /\ ~cooling
          /\ Admit(c, "probe")
          /\ state' = "halfOpen" /\ probes' = 1 /\ successes' = 0
       \/ /\ state = "halfOpen" /\ probes < HalfOpenMaxProbes
          /\ Admit(c, "probe")
          /\ probes' = probes + 1
          /\ UNCHANGED <<state, successes>>
       \/ /\ \/ state = "open" /\ cooling
             \/ state = "halfOpen" /\ probes >= HalfOpenMaxProbes
          /\ failOpen
          /\ Admit(c, "call")
          /\ UNCHANGED <<state, probes, successes>>
    /\ UNCHANGED <<failureCount, cooling, failOpen, healthy, overrides>>

Succeed(c) ==
    /\ call[c] # "idle"
    /\ call' = [call EXCEPT ![c] = "idle"]
    /\ RecordSuccess
    /\ UNCHANGED <<failOpen, healthy, overrides>>

Fail(c) ==
    /\ call[c] # "idle"
    /\ ~healthy
    /\ call' = [call EXCEPT ![c] = "idle"]
    /\ RecordFailure
    /\ UNCHANGED <<failOpen, healthy, overrides>>

Return(c) == Succeed(c) \/ Fail(c)

(* The clock reaches openUntil. *)
Cool ==
    /\ cooling
    /\ cooling' = FALSE
    /\ UNCHANGED <<state, failureCount, failOpen, probes, successes, call, healthy, overrides>>

(* ForceOpen, ForceClose and SetFailMode. *)
Override ==
    /\ overrides < MaxOverrides
    /\ overrides' = overrides + 1
    /\ \/ Open /\ UNCHANGED <<failureCount, failOpen>>
       \/ Close /\ UNCHANGED failOpen
       \/ /\ failOpen' = ~failOpen
          /\ UNCHANGED <<state, failureCount, cooling, probes, successes>>
    /\ UNCHANGED <<call, healthy>>

(* The store breaks or heals. *)
StoreChanges ==
    /\ healthy' = ~healthy
    /\ UNCHANGED <<entry, call, overrides>>

Next ==
    \/ \E c \in Callers : Allow(c) \/ Return(c)
    \/ Cool
    \/ Override
    \/ StoreChanges

Spec == Init /\ [][Next]_vars

(* Calls return (the Redis client has its time limits), time passes, and    *)
(* requests keep coming.                                                    *)
Fairness ==
    /\ \A c \in Callers : WF_vars(Return(c)) /\ WF_vars(Allow(c))
    /\ WF_vars(Cool)

FairSpec == Spec /\ Fairness

-----------------------------------------------------------------------------
(* The probe count stays within its limits whatever late outcomes are       *)
(* reported, and a half-open breaker has not had enough successes yet.      *)
BreakerTypeOK ==
    /\ state \in {"closed", "open", "halfOpen"}
    /\ failureCount \in 0..MaxFailures
    /\ cooling \in BOOLEAN
    /\ failOpen \in BOOLEAN
    /\ probes \in 0..HalfOpenMaxProbes
    /\ successes \in 0..(HalfOpenSuccessesToClose - 1)
    /\ call \in [Callers -> {"idle", "call", "probe"}]
    /\ healthy \in BOOLEAN
    /\ overrides \in 0..MaxOverrides

(* A closed breaker is below its threshold: closing forgets the failures    *)
(* counted while it was open, so that one more does not open it again.      *)
ClosedBelowThreshold == state = "closed" => failureCount < FailureThreshold

Probing == {c \in Callers : call[c] = "probe"}

(* A probe place that is taken has a probe that is still running: places    *)
(* are not lost to late outcomes of calls admitted in an earlier state.     *)
ProbePlacesAreTaken == state = "halfOpen" => probes <= Cardinality(Probing)

(* Once the store has healed for good, traffic closes the breaker, whatever *)
(* calls of the outage still report.                                        *)
RecoversWhenHealthy == <>[]healthy => <>[](state = "closed")

(* The three together: late outcomes of calls admitted in an earlier state  *)
(* neither lose a probe's place nor leave failures behind a closed breaker. *)
BreakerSafety == BreakerTypeOK /\ ClosedBelowThreshold /\ ProbePlacesAreTaken
=============================================================================
