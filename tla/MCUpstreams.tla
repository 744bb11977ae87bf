----------------------------- MODULE MCUpstreams -----------------------------
(***************************************************************************)
(* Small instances, for TLC, of the components that keep traffic away from  *)
(* what does not answer: the breaker in front of a store, the cooldown of   *)
(* an account whose authentication fails, the health of a channel.          *)
(*   CircuitBreaker: three callers, two probe places.                       *)
(*   ChannelHealth: two attempts, two credential versions, one operator     *)
(*     action; a verdict needs one sample, a stage one.                     *)
(*   AuthCooldown: two replicas, two attempts and one resume; one failed    *)
(*     statement, then a rotation instead.                                  *)
(* As in MCMoney, a behaviour is of one component while the others rest.    *)
(***************************************************************************)
EXTENDS CircuitBreaker, ChannelHealth, TLC

CONSTANTS g1, g2, g3, q1, q2, r1, r2

VARIABLES
    side,                                     \* the component whose behaviour this is
    now, laneCred, row, mirror, laneReq, reload, op, resumes, lastResume, told, laneFaults

restVars == <<now, laneCred, row, mirror, laneReq, reload, op, resumes, lastResume, told,
              laneFaults>>

Replicas == {r1, r2}

Lane == INSTANCE AuthCooldown WITH
    Base <- 1, Cap <- 2, StrikeLimit <- 2,
    MaxTime <- 2, LastFailure <- 2, MaxVersion <- 1, MaxResumes <- 1, MaxFaults <- 1,
    cred <- laneCred, req <- laneReq, faults <- laneFaults

Rotated == INSTANCE AuthCooldown WITH
    Base <- 1, Cap <- 2, StrikeLimit <- 2,
    MaxTime <- 2, LastFailure <- 2, MaxVersion <- 2, MaxResumes <- 1, MaxFaults <- 0,
    cred <- laneCred, req <- laneReq, faults <- laneFaults

ASSUME Lane!LaneAssumption /\ Rotated!LaneAssumption

SideBySideInit ==
    /\ side \in {"breaker", "health", "lane", "rotated lane"}
    /\ Init /\ HealthInit /\ Lane!LaneInit

SideBySideNext ==
    \/ side = "breaker" /\ Next /\ UNCHANGED <<side, healthVars, restVars>>
    \/ side = "health" /\ HealthNext /\ UNCHANGED <<side, vars, restVars>>
    \/ /\ \/ side = "lane" /\ Lane!LaneNext
          \/ side = "rotated lane" /\ Rotated!LaneNext
       /\ UNCHANGED <<side, vars, healthVars>>

SideBySide == SideBySideInit /\ [][SideBySideNext]_<<side, vars, healthVars, restVars>>

Symmetric == Permutations(Requests) \cup Permutations(Replicas)

-----------------------------------------------------------------------------
(* Bursts cost one strike, and neither a resume nor a rotation is undone by *)
(* what a replica knew before it (AuthCooldown).                            *)
LaneSafety ==
    /\ side = "lane" => Lane!LaneSafety
    /\ side = "rotated lane" => Rotated!LaneSafety

(* A disable is lifted by an operator or a rotation, never by a success or  *)
(* a failure that arrives late (AuthCooldown).                              *)
DisableStands == Lane!OnlyOperatorLiftsDisable
=============================================================================
