------------------------------ MODULE MCRequests ------------------------------
(***************************************************************************)
(* Small instances, for TLC, of what a request meets on its way: the user's *)
(* session, the quota and the slot of the account it is sent to.            *)
(*   UserSessions: two families, two requests, one device; two generations. *)
(*   QuotaReservations: two claims of two attempts, two windows, one slot.  *)
(*   SlotAdmission: three requests, one without a claim, one without a      *)
(*     limit; an account of one or two slots, one place to wait.            *)
(* As in MCMoney, a behaviour is of one component while the others rest.    *)
(***************************************************************************)
EXTENDS UserSessions, QuotaReservations, SlotAdmission, TLC

CONSTANTS f1, f2, w1, w2, a, b, c

VARIABLE side                                 \* the component whose behaviour this is

-----------------------------------------------------------------------------
SideBySideInit ==
    /\ side \in {"sessions", "quota", "admission"}
    /\ Init /\ QuotaInit /\ AdmissionInit
    \* A component that rests has one initial state here.
    /\ side = "admission" \/ cap = 1

SideBySideNext ==
    \/ /\ side = "sessions" /\ Next
       /\ UNCHANGED <<side, quotaVars, admissionVars>>
    \/ /\ side = "quota" /\ QuotaNext
       /\ UNCHANGED <<side, vars, admissionVars>>
    \/ /\ side = "admission" /\ AdmissionNext
       /\ UNCHANGED <<side, vars, quotaVars>>

SideBySide == SideBySideInit /\ [][SideBySideNext]_<<side, vars, quotaVars, admissionVars>>

Symmetric == Permutations(Families) \cup Permutations(Workers)
=============================================================================
