--------------------------- MODULE Admission_proof ---------------------------
(***************************************************************************)
(* The limits of SlotAdmission for any requests, caps, limits and places.   *)
(* A count read before a lock is taken decides nothing, so each limit rests *)
(* on what its own lock serialises: the binding's on the session lock, the  *)
(* account's on the row that one transaction at a time may update.          *)
(***************************************************************************)
EXTENDS SlotAdmission, FiniteSetTheorems, TLAPS

Acquired == {r \in Requests : row[r] = "acquired"}
Waiters == {r \in Requests : place[r]}

Counted == IsFiniteSet(Acquired) /\ AccountWithinCap

Queued == IsFiniteSet(Waiters) /\ PlacesAreWaiters

(* No slot before the commit, nor after an attempt that was refused; and    *)
(* from its answer on, the slot of a claim that goes on.                    *)
Unslotted(r) ==
    \/ pc[r] \in {"new", "reselect", "lock", "count", "increment", "commit"}
    \/ pc[r] \in {"unlock", "decide"} /\ out[r] \in {"limited", "conflict", "no_slot"}
Slotted(r) ==
    \/ pc[r] \in {"unlock", "decide"} /\ out[r] = "got"
    \/ pc[r] \in {"write", "running"}

RowsFollow ==
    \A r \in Requests :
        /\ Unslotted(r) => row[r] = "none"
        /\ r \in Claimed /\ OpenClaim(r) /\ Slotted(r) => row[r] = "acquired"

(* In its transaction a request of the binding has the binding's lock; past *)
(* the count it has room there, and past the increment on the account too,  *)
(* whose row it then holds alone.                                           *)
Locked == \A r \in Limited : pc[r] \in InTransaction \cup {"unlock"} => lock = r

BindingRoom == \A r \in Limited : pc[r] \in {"increment", "commit"} => Active < BindingLimit

AccountRoom ==
    \A r \in Requests :
        At(r, "commit") => inFlight < cap /\ \A o \in Requests : At(o, "commit") => o = r

AdmissionInv ==
    /\ AdmissionTypeOK /\ Counted /\ Queued /\ RowsFollow
    /\ Locked /\ LockIsInUse /\ BindingRoom /\ AccountRoom /\ BindingWithinLimit

-----------------------------------------------------------------------------
LEMMA InitAdmission == AdmissionInit => AdmissionInv
  <1> SUFFICES ASSUME AdmissionInit PROVE AdmissionInv
    OBVIOUS
  <1>1. Acquired = {} /\ Waiters = {} /\ {r \in Limited : row[r] = "acquired"} = {}
        /\ {r \in Requests : row[r] = "acquired"} = {} /\ {r \in Requests : place[r]} = {}
    BY DEF AdmissionInit, Acquired, Waiters, Limited
  <1>2. Cardinality({}) = 0 /\ IsFiniteSet({})
    BY FS_EmptySet
  <1>3. AdmissionTypeOK
    <2>1. /\ \A r \in Requests : (IF r \in Claimless THEN "none" ELSE "reserving") \in
                {"none", "reserving", "delivering", "ended"}
          /\ 0 \in 0..MaxSleeps /\ 0 \in 0..MaxSlotFaults /\ 0 \in 0..SlotAttempts
      BY AdmissionAssumption DEF AdmissionAssumption, SlotAttempts
    <2> QED BY <2>1 DEF AdmissionInit, AdmissionTypeOK
  <1>4. Counted /\ Queued /\ BindingWithinLimit
    <2>1. Active = 0
      BY <1>1, <1>2 DEF Active
    <2>2. /\ Cardinality({r \in Requests : row[r] = "acquired"}) = 0
          /\ Cardinality({r \in Requests : place[r]}) = 0
      BY <1>1, <1>2
    <2>3. AccountWithinCap /\ BindingWithinLimit
      BY AdmissionAssumption, <2>1, <2>2
         DEF AdmissionAssumption, AdmissionInit, AccountWithinCap, BindingWithinLimit
    <2>4. PlacesAreWaiters
      BY AdmissionAssumption, <2>2 DEF AdmissionAssumption, AdmissionInit, PlacesAreWaiters
    <2> QED BY <1>1, <1>2, <2>3, <2>4 DEF Counted, Queued
  <1>5. RowsFollow /\ Locked /\ LockIsInUse /\ BindingRoom /\ AccountRoom
    BY DEF AdmissionInit, RowsFollow, Locked, LockIsInUse, BindingRoom, AccountRoom, Unslotted,
       Slotted, At, InTransaction, Limited
  <1> QED BY <1>3, <1>4, <1>5 DEF AdmissionInv

(* Counts are numbers, and a request with a place counts.                   *)
LEMMA CountsTyped ==
    ASSUME AdmissionInv
    PROVE  /\ Active \in Nat
           /\ \A r \in Requests : row[r] = "acquired" => inFlight > 0
           /\ \A r \in Requests : place[r] => depth > 0
  <1>1. IsFiniteSet(Acquired) /\ inFlight = Cardinality(Acquired) /\ inFlight \in Nat
    BY DEF AdmissionInv, Counted, AccountWithinCap, Acquired, AdmissionTypeOK
  <1>2. IsFiniteSet(Waiters) /\ depth = Cardinality(Waiters) /\ depth \in Nat
    BY DEF AdmissionInv, Queued, PlacesAreWaiters, Waiters, AdmissionTypeOK
  <1>3. Active \in Nat
    <2>1. {r \in Limited : row[r] = "acquired"} \in SUBSET Acquired
      BY DEF Limited, Acquired
    <2>2. IsFiniteSet({r \in Limited : row[r] = "acquired"})
      BY <1>1, <2>1, FS_Subset
    <2> QED BY <2>2, FS_CardinalityType DEF Active
  <1>4. ASSUME NEW r \in Requests, row[r] = "acquired" PROVE inFlight > 0
    <2>1. Acquired # {}
      BY <1>4 DEF Acquired
    <2> QED BY <1>1, <2>1, FS_EmptySet
  <1>5. ASSUME NEW r \in Requests, place[r] PROVE depth > 0
    <2>1. Waiters # {}
      BY <1>5 DEF Waiters
    <2> QED BY <1>2, <2>1, FS_EmptySet
  <1> QED BY <1>3, <1>4, <1>5

(* Nobody changes the cap.                                                  *)
LEMMA CapStays == [AdmissionNext]_admissionVars => cap' = cap
  BY DEF AdmissionNext, admissionVars

(* How rows move: a transaction commits one, or one is given back while no  *)
(* transaction holds the account.                                           *)
Gives(r) ==
    /\ row[r] = "acquired" /\ RowFree /\ inFlight' = inFlight - 1
    /\ \E status \in {"released", "swept"} : row' = [row EXCEPT ![r] = status]

LEMMA RowsMove ==
    ASSUME AdmissionInv, [AdmissionNext]_admissionVars
    PROVE  \/ UNCHANGED <<row, inFlight>>
           \/ \E r \in Requests : CommitSlot(r)
           \/ \E r \in Requests : Gives(r)
  <1> DEFINE Kept == UNCHANGED <<row, inFlight>>
             Moved == Kept \/ (\E r \in Requests : CommitSlot(r)) \/ (\E r \in Requests : Gives(r))
  <1>1. ASSUME NEW r \in Requests, NEW status \in {"released", "swept"}, GiveBackRow(r, status)
        PROVE  Kept \/ Gives(r)
    BY <1>1, CountsTyped DEF GiveBackRow, Gives, AccountBecomes
  <1>2. ASSUME NEW r \in Requests, EndClaim(r) PROVE Kept \/ Gives(r)
    BY <1>1, <1>2 DEF EndClaim
  <1>3. ASSUME NEW r \in Requests,
               \/ WriteAcquisition(r) \/ Finish(r) \/ SettleLater(r)
               \/ SweepClaimOfSlot(r) \/ SweepOrphanedSlot(r)
        PROVE  Kept \/ Gives(r)
    BY <1>1, <1>2, <1>3
       DEF WriteAcquisition, Finish, SettleLater, SweepClaimOfSlot, SweepOrphanedSlot
  <1>4. ASSUME \/ Crash \/ UNCHANGED admissionVars
               \/ \E r \in Requests :
                     \/ Select(r) \/ TryLock(r) \/ CountInTransaction(r) \/ IncrementInFlight(r)
                     \/ Unlock(r) \/ DecideFirst(r) \/ DecideWaiting(r) \/ Fail(r)
                     \/ LockFails(r) \/ Rollback(r) \/ LeaseExpires(r) \/ MarkDelivering(r)
        PROVE  Kept
    BY <1>4 DEF Crash, Select, TryLock, CountInTransaction, IncrementInFlight, Unlock, DecideFirst,
       DecideWaiting, Fail, LockFails, Rollback, LeaseExpires, MarkDelivering, slotVars, admissionVars
  <1> QED BY <1>3, <1>4 DEF AdmissionNext, Progress, Sweeps

-----------------------------------------------------------------------------
PCs == {"new", "reselect", "lock", "count", "increment", "commit", "unlock", "decide", "write",
        "running", "failing"} \cup Over
Outcomes == {"none", "limited", "error", "conflict", "no_slot", "got"}

LEMMA TypesStay ==
    ASSUME AdmissionInv, [AdmissionNext]_admissionVars
    PROVE  AdmissionTypeOK'
  <1> DEFINE Requested == pc' \in [Requests -> PCs] /\ out' \in [Requests -> Outcomes]
             Granted == /\ row' \in [Requests -> {"none", "acquired", "released", "swept"}]
                        /\ inFlight' \in Nat /\ stale' \in [Requests -> BOOLEAN]
             Waited == place' \in [Requests -> BOOLEAN] /\ depth' \in Nat
             Faulted == slotFaults' \in 0..MaxSlotFaults
             Claiming == slotClaim' \in [Requests -> {"none", "reserving", "delivering", "ended"}]
             Rest == /\ tries' \in [Requests -> 0..SlotAttempts]
                     /\ sleeps' \in [Requests -> 0..MaxSleeps] /\ seen' \in [Requests -> Nat]
                     /\ expired' \in [Requests -> BOOLEAN] /\ token' \in [Requests -> BOOLEAN]
                     /\ lock' \in Requests \cup {NoRequest}
  <1>0. /\ pc \in [Requests -> PCs] /\ out \in [Requests -> Outcomes]
        /\ tries \in [Requests -> 0..SlotAttempts]
        /\ sleeps \in [Requests -> 0..MaxSleeps] /\ seen \in [Requests -> Nat]
        /\ stale \in [Requests -> BOOLEAN]
        /\ row \in [Requests -> {"none", "acquired", "released", "swept"}]
        /\ expired \in [Requests -> BOOLEAN] /\ inFlight \in Nat /\ cap' \in Caps
        /\ slotClaim \in [Requests -> {"none", "reserving", "delivering", "ended"}]
        /\ token \in [Requests -> BOOLEAN] /\ lock \in Requests \cup {NoRequest}
        /\ place \in [Requests -> BOOLEAN] /\ depth \in Nat /\ slotFaults \in 0..MaxSlotFaults
    BY CapStays DEF AdmissionInv, AdmissionTypeOK, PCs, Outcomes
  <1>1. /\ Active \in Nat /\ MaxSleeps \in Nat /\ MaxSlotFaults \in Nat
        /\ \A r \in Requests : row[r] = "acquired" => inFlight > 0
        /\ \A r \in Requests : place[r] => depth > 0
    BY AdmissionAssumption, CountsTyped DEF AdmissionAssumption
  <1>2. Requested /\ Granted /\ Waited /\ Faulted /\ Claiming /\ Rest => AdmissionTypeOK'
    BY <1>0 DEF AdmissionTypeOK, PCs, Outcomes
  <1>3. ASSUME NEW r \in Requests, NEW p \in PCs, MoveTo(r, p) PROVE pc' \in [Requests -> PCs]
    BY <1>0, <1>3 DEF MoveTo
  <1>4. ASSUME NEW r \in Requests, NEW p \in PCs, NEW o \in Outcomes, Answer(r, o, p)
        PROVE  Requested
    BY <1>0, <1>3, <1>4 DEF Answer
  <1>5. SlotFault \/ UNCHANGED slotFaults => Faulted
    BY <1>0, <1>1 DEF SlotFault
  <1>6. UNCHANGED <<row, inFlight, stale>> => Granted
    BY <1>0
  <1>7. UNCHANGED <<place, depth>> => Waited
    BY <1>0
  <1>8. ASSUME NEW r \in Requests, GiveBackPlace(r) PROVE Waited
    BY <1>0, <1>1, <1>8 DEF GiveBackPlace
  <1>9. ASSUME NEW r \in Requests, NEW status \in {"released", "swept"}, GiveBackRow(r, status)
        PROVE  Granted
    <2>1. CASE row[r] = "acquired"
      <3>1. stale' \in [Requests -> BOOLEAN]
        BY <1>9, <2>1 DEF GiveBackRow, AccountBecomes, At
      <3>2. inFlight' = inFlight - 1 /\ inFlight > 0
        BY <1>0, <1>1, <1>9, <2>1 DEF GiveBackRow, AccountBecomes
      <3>3. row' \in [Requests -> {"none", "acquired", "released", "swept"}]
        BY <1>0, <1>9, <2>1 DEF GiveBackRow
      <3> QED BY <1>0, <3>1, <3>2, <3>3
    <2> QED BY <1>6, <1>9, <2>1 DEF GiveBackRow
  <1>10. ASSUME NEW r \in Requests, EndClaim(r) PROVE Granted /\ Claiming
    BY <1>0, <1>6, <1>9, <1>10 DEF EndClaim, OpenClaim
  <1> HIDE DEF PCs, Outcomes, Granted, Waited, Faulted, Claiming
  <1>11. {"new", "reselect", "lock", "count", "increment", "commit", "unlock", "decide", "write",
          "running", "failing", "done", "failed", "crashed"} \subseteq PCs
         /\ {"limited", "error", "conflict", "no_slot", "got"} \subseteq Outcomes
    BY DEF PCs, Outcomes, Over
  <1>12. UNCHANGED slotClaim => Claiming
    BY <1>0 DEF Claiming
  <1>13. ASSUME NEW r \in Requests, Select(r) PROVE AdmissionTypeOK'
    <2>1. Requested
      BY <1>0, <1>3, <1>4, <1>11, <1>13 DEF Select
    <2>2. Rest
      BY <1>0, <1>1, <1>13 DEF Select, SlotAttempts, slotVars, claimVars, queueVars
    <2> QED BY <1>2, <1>5, <1>6, <1>7, <1>12, <1>13, <2>1, <2>2
            DEF Select, slotVars, claimVars, queueVars
  <1>14. ASSUME NEW r \in Requests, TryLock(r) \/ LockFails(r) \/ Rollback(r)
         PROVE  AdmissionTypeOK'
    <2>1. Requested
      BY <1>0, <1>3, <1>4, <1>11, <1>14 DEF TryLock, LockFails, Rollback
    <2>2. Rest
      BY <1>0, <1>14 DEF TryLock, LockFails, Rollback, slotVars, claimVars, queueVars
    <2> QED BY <1>2, <1>5, <1>6, <1>7, <1>12, <1>14, <2>1, <2>2
            DEF TryLock, LockFails, Rollback, slotVars, claimVars, queueVars
  <1>15. ASSUME NEW r \in Requests, CountInTransaction(r) PROVE AdmissionTypeOK'
    <2>1. Requested
      BY <1>0, <1>3, <1>4, <1>11, <1>15 DEF CountInTransaction
    <2>2. Rest /\ Granted
      BY <1>0, <1>1, <1>15 DEF CountInTransaction, Granted, claimVars, queueVars
    <2> QED BY <1>2, <1>5, <1>7, <1>12, <1>15, <2>1, <2>2
            DEF CountInTransaction, claimVars, queueVars
  <1>16. ASSUME NEW r \in Requests, IncrementInFlight(r) PROVE AdmissionTypeOK'
    <2>1. Requested
      BY <1>0, <1>3, <1>4, <1>11, <1>16 DEF IncrementInFlight
    <2>2. Rest
      BY <1>0, <1>16 DEF IncrementInFlight, slotVars, claimVars
    <2> QED BY <1>2, <1>5, <1>6, <1>7, <1>12, <1>16, <2>1, <2>2
            DEF IncrementInFlight, slotVars, claimVars, queueVars
  <1>17. ASSUME NEW r \in Requests, CommitSlot(r) PROVE AdmissionTypeOK'
    <2>1. Requested
      BY <1>0, <1>4, <1>11, <1>17 DEF CommitSlot
    <2>2. Rest /\ Granted
      BY <1>0, <1>17 DEF CommitSlot, AccountBecomes, At, Granted, claimVars
    <2> QED BY <1>2, <1>5, <1>7, <1>12, <1>17, <2>1, <2>2 DEF CommitSlot, claimVars, queueVars
  <1>18. ASSUME NEW r \in Requests, Unlock(r) PROVE AdmissionTypeOK'
    <2>1. Requested
      BY <1>0, <1>3, <1>11, <1>18 DEF Unlock
    <2>2. Rest
      BY <1>0, <1>18 DEF Unlock, Retried, SlotAttempts, slotVars, claimVars
    <2> QED BY <1>2, <1>5, <1>6, <1>7, <1>12, <1>18, <2>1, <2>2
            DEF Unlock, slotVars, claimVars, queueVars
  <1>19. ASSUME NEW r \in Requests, DecideFirst(r) PROVE AdmissionTypeOK'
    <2>1. Requested
      BY <1>0, <1>3, <1>11, <1>19 DEF DecideFirst
    <2>2. Rest
      BY <1>0, <1>19 DEF DecideFirst, slotVars, claimVars
    <2>3. UNCHANGED queueVars \/ (place' = [place EXCEPT ![r] = TRUE] /\ depth' = depth + 1)
      BY <1>19 DEF DecideFirst
    <2>4. Waited
      <3>1. CASE place' = [place EXCEPT ![r] = TRUE] /\ depth' = depth + 1
        <4>1. place' \in [Requests -> BOOLEAN]
          BY <1>0, <3>1
        <4> QED BY <1>0, <3>1, <4>1 DEF Waited
      <3> QED BY <1>7, <2>3, <3>1 DEF queueVars
    <2> QED BY <1>2, <1>5, <1>6, <1>12, <1>19, <2>1, <2>2, <2>4 DEF DecideFirst, slotVars, claimVars
  <1>20. ASSUME NEW r \in Requests, DecideWaiting(r) PROVE AdmissionTypeOK'
    <2>1. Requested
      BY <1>0, <1>3, <1>11, <1>20 DEF DecideWaiting
    <2>2. Rest
      BY <1>0, <1>1, <1>20 DEF DecideWaiting, slotVars, claimVars
    <2>3. Waited
      BY <1>7, <1>8, <1>20 DEF DecideWaiting, queueVars
    <2> QED BY <1>2, <1>5, <1>6, <1>12, <1>20, <2>1, <2>2, <2>3
            DEF DecideWaiting, slotVars, claimVars
  <1>21. ASSUME NEW r \in Requests, WriteAcquisition(r) PROVE AdmissionTypeOK'
    <2>1. Requested
      BY <1>0, <1>3, <1>11, <1>21 DEF WriteAcquisition
    <2>2. Rest
      BY <1>0, <1>21 DEF WriteAcquisition
    <2>3. Granted /\ Faulted
      BY <1>5, <1>6, <1>9, <1>21 DEF WriteAcquisition
    <2> QED BY <1>2, <1>8, <1>12, <1>21, <2>1, <2>2, <2>3 DEF WriteAcquisition
  <1>22. ASSUME NEW r \in Requests, Finish(r) \/ SettleLater(r) \/ SweepClaimOfSlot(r)
         PROVE  AdmissionTypeOK'
    <2>1. Requested
      BY <1>0, <1>3, <1>11, <1>22 DEF Finish, SettleLater, SweepClaimOfSlot, reqVars
    <2>2. Rest
      BY <1>0, <1>22 DEF Finish, SettleLater, SweepClaimOfSlot, reqVars
    <2>3. Granted /\ Claiming
      BY <1>6, <1>10, <1>12, <1>22 DEF Finish, SettleLater, SweepClaimOfSlot
    <2> QED BY <1>2, <1>5, <1>7, <1>22, <2>1, <2>2, <2>3
            DEF Finish, SettleLater, SweepClaimOfSlot, queueVars
  <1>23. ASSUME NEW r \in Requests, Fail(r) \/ LeaseExpires(r) \/ MarkDelivering(r)
         PROVE  AdmissionTypeOK'
    <2>1. Requested
      BY <1>0, <1>3, <1>11, <1>23 DEF Fail, LeaseExpires, MarkDelivering, reqVars
    <2>2. Rest /\ Claiming
      BY <1>0, <1>23 DEF Fail, LeaseExpires, MarkDelivering, Claiming, reqVars, slotVars, claimVars
    <2> QED BY <1>2, <1>5, <1>6, <1>7, <1>23, <2>1, <2>2
            DEF Fail, LeaseExpires, MarkDelivering, slotVars, queueVars
  <1>24. ASSUME NEW r \in Requests, SweepOrphanedSlot(r) PROVE AdmissionTypeOK'
    <2>1. Requested /\ Rest
      BY <1>0, <1>24 DEF SweepOrphanedSlot, reqVars, claimVars
    <2> QED BY <1>2, <1>5, <1>7, <1>9, <1>12, <1>24, <2>1
            DEF SweepOrphanedSlot, claimVars, queueVars
  <1>25. CASE Crash
    <2>1. Requested /\ Rest /\ Waited
      BY <1>0, <1>11, <1>25 DEF Crash, Waited, slotVars, claimVars
    <2> QED BY <1>2, <1>5, <1>6, <1>12, <1>25, <2>1 DEF Crash, slotVars, claimVars
  <1>26. CASE UNCHANGED admissionVars
    BY <1>0, <1>2, <1>5, <1>6, <1>7, <1>12, <1>26
       DEF reqVars, slotVars, claimVars, queueVars, admissionVars
  <1> QED BY <1>13, <1>14, <1>15, <1>16, <1>17, <1>18, <1>19, <1>20, <1>21, <1>22, <1>23, <1>24,
             <1>25, <1>26 DEF AdmissionNext, Progress, Sweeps

(* in_flight_count is the number of acquired slots: one is counted when it  *)
(* is committed, with room still there, and uncounted when it is given back.*)
LEMMA CountsStay ==
    ASSUME AdmissionInv, [AdmissionNext]_admissionVars
    PROVE  Counted'
  <1>0. /\ IsFiniteSet(Acquired) /\ inFlight = Cardinality(Acquired) /\ inFlight <= cap
        /\ inFlight \in Nat /\ row \in [Requests -> {"none", "acquired", "released", "swept"}]
        /\ cap \in Nat /\ cap' = cap
    BY CapStays, AdmissionAssumption
       DEF AdmissionAssumption, AdmissionInv, Counted, AccountWithinCap, AdmissionTypeOK, Acquired
  <1>1. IsFiniteSet(Acquired') /\ inFlight' = Cardinality(Acquired') /\ inFlight' <= cap
           => Counted'
    BY <1>0 DEF Counted, AccountWithinCap, Acquired
  <1>2. CASE UNCHANGED <<row, inFlight>>
    BY <1>0, <1>1, <1>2 DEF Acquired
  <1>3. ASSUME NEW r \in Requests, CommitSlot(r) PROVE Counted'
    <2>1. At(r, "commit") /\ row[r] = "none" /\ inFlight < cap
      BY <1>3 DEF CommitSlot, At, AdmissionInv, RowsFollow, Unslotted, AccountRoom
    <2>2. Acquired' = Acquired \cup {r} /\ r \notin Acquired
      BY <1>0, <1>3, <2>1 DEF CommitSlot, Acquired
    <2>3. inFlight' = inFlight + 1
      BY <1>3 DEF CommitSlot, AccountBecomes
    <2>4. IsFiniteSet(Acquired') /\ Cardinality(Acquired') = inFlight + 1
      BY <1>0, <2>2, FS_AddElement
    <2>5. inFlight' <= cap
      BY <1>0, <2>1, <2>3
    <2> QED BY <1>1, <2>3, <2>4, <2>5
  <1>4. ASSUME NEW r \in Requests, Gives(r) PROVE Counted'
    <2>1. Acquired' = Acquired \ {r} /\ r \in Acquired
      BY <1>0, <1>4 DEF Gives, Acquired
    <2>2. IsFiniteSet(Acquired') /\ Cardinality(Acquired') = inFlight - 1
      BY <1>0, <2>1, FS_RemoveElement
    <2> QED BY <1>0, <1>1, <1>4, <2>2 DEF Gives
  <1> QED BY <1>2, <1>3, <1>4, RowsMove

(* A slot is there from the commit that answers "got" on, and a claim that  *)
(* is open keeps it: whoever gives it back ended the claim or left.         *)
LEMMA RowsStay ==
    ASSUME AdmissionInv, [AdmissionNext]_admissionVars
    PROVE  RowsFollow'
  <1> SUFFICES ASSUME NEW q \in Requests
               PROVE  /\ Unslotted(q)' => row'[q] = "none"
                      /\ q \in Claimed /\ OpenClaim(q)' /\ Slotted(q)' => row'[q] = "acquired"
    BY DEF RowsFollow, Unslotted, Slotted, Claimed, OpenClaim
  <1> DEFINE Follows == /\ Unslotted(q)' => row'[q] = "none"
                        /\ q \in Claimed /\ OpenClaim(q)' /\ Slotted(q)' => row'[q] = "acquired"
  <1>0. /\ Unslotted(q) => row[q] = "none"
        /\ q \in Claimed /\ OpenClaim(q) /\ Slotted(q) => row[q] = "acquired"
        /\ pc \in [Requests -> PCs] /\ out \in [Requests -> Outcomes]
        /\ row \in [Requests -> {"none", "acquired", "released", "swept"}]
        /\ slotClaim \in [Requests -> {"none", "reserving", "delivering", "ended"}]
    BY DEF AdmissionInv, RowsFollow, AdmissionTypeOK, PCs, Outcomes
  <1>1. ASSUME pc'[q] = pc[q], out'[q] = out[q], row'[q] = row[q], slotClaim'[q] = slotClaim[q] PROVE Follows
    BY <1>0, <1>1 DEF Unslotted, Slotted, OpenClaim
  <1>2. ASSUME NEW r \in Requests, NEW status \in {"released", "swept"}, GiveBackRow(r, status)
        PROVE  row'[q] = row[q] \/ (q = r /\ row[q] = "acquired")
    BY <1>0, <1>2 DEF GiveBackRow
  <1>3. ASSUME NEW r \in Requests, EndClaim(r)
        PROVE  /\ row'[q] = row[q] \/ (q = r /\ row[q] = "acquired")
               /\ q = r => ~OpenClaim(q)'
               /\ q # r => slotClaim'[q] = slotClaim[q] /\ row'[q] = row[q]
    <2>1. slotClaim' = [slotClaim EXCEPT ![r] = IF OpenClaim(r) THEN "ended" ELSE @]
      BY <1>3 DEF EndClaim
    <2>2. row'[q] = row[q] \/ (q = r /\ row[q] = "acquired")
      BY <1>2, <1>3 DEF EndClaim
    <2> QED BY <1>0, <1>2, <1>3, <2>1, <2>2 DEF EndClaim, OpenClaim
  <1>4. ASSUME NEW r \in Requests, Unslotted(r), UNCHANGED <<row, slotClaim>>,
               \/ (\E p \in {"lock", "count", "increment", "commit", "reselect"} : MoveTo(r, p)) /\ UNCHANGED out
               \/ \E p \in {"decide", "unlock"}, o \in {"limited", "error", "conflict", "no_slot"} :
                    Answer(r, o, p)
        PROVE  Follows
    <2>1. CASE q = r
      <3>1. row'[q] = "none"
        BY <1>0, <1>4, <2>1
      <3>2. ~Slotted(q)'
        BY <1>0, <1>4, <2>1 DEF Answer, MoveTo, Slotted
      <3> QED BY <3>1, <3>2
    <2>2. CASE q # r
      BY <1>0, <1>1, <1>4, <2>2 DEF Answer, MoveTo
    <2> QED BY <2>1, <2>2
  <1>15. ASSUME NEW r \in Requests, Select(r) PROVE Follows
    BY <1>4, <1>15 DEF Select, At, Unslotted, slotVars, claimVars
  <1>16. ASSUME NEW r \in Requests, TryLock(r) \/ LockFails(r) \/ Rollback(r) PROVE Follows
    BY <1>4, <1>16 DEF TryLock, LockFails, Rollback, At, Unslotted, slotVars, claimVars, InTransaction
  <1>17. ASSUME NEW r \in Requests, CountInTransaction(r) PROVE Follows
    BY <1>4, <1>17 DEF CountInTransaction, At, Unslotted, claimVars
  <1>18. ASSUME NEW r \in Requests, IncrementInFlight(r) PROVE Follows
    BY <1>4, <1>18 DEF IncrementInFlight, At, Unslotted, slotVars, claimVars
  <1>5. ASSUME NEW r \in Requests, CommitSlot(r) PROVE Follows
    BY <1>0, <1>5 DEF CommitSlot, Answer, MoveTo, At, Unslotted, Slotted, OpenClaim, claimVars
  <1>6. ASSUME NEW r \in Requests, Unlock(r) PROVE Follows
    BY <1>0, <1>6 DEF Unlock, Retried, MoveTo, At, Unslotted, Slotted, OpenClaim, slotVars, claimVars,
       Outcomes
  <1>7. ASSUME NEW r \in Requests, DecideFirst(r) \/ DecideWaiting(r) PROVE Follows
    <2>1. row' = row /\ slotClaim' = slotClaim /\ out' = out /\ At(r, "decide")
      BY <1>7 DEF DecideFirst, DecideWaiting, slotVars, claimVars
    <2>2. CASE out[r] = "got" /\ (MoveTo(r, "write") \/ (r \notin Claimed /\ MoveTo(r, "running")))
      <3>1. CASE q = r
        <4>1. Slotted(q) /\ ~Unslotted(q)'
          BY <1>0, <2>1, <2>2, <3>1 DEF MoveTo, At, Unslotted, Slotted
        <4> QED BY <1>0, <2>1, <4>1 DEF OpenClaim
      <3>2. CASE q # r
        BY <1>0, <1>1, <2>1, <2>2, <3>2 DEF MoveTo
      <3> QED BY <3>1, <3>2
    <2>3. CASE out[r] = "no_slot" /\ MoveTo(r, "reselect")
      <3>1. Unslotted(r)
        BY <2>1, <2>3 DEF At, Unslotted
      <3> QED BY <1>4, <2>1, <2>3, <3>1
    <2>4. CASE MoveTo(r, "failing")
      BY <1>0, <1>1, <2>1, <2>4 DEF MoveTo, At, Unslotted, Slotted, OpenClaim
    <2> QED BY <1>7, <2>2, <2>3, <2>4 DEF DecideFirst, DecideWaiting
  <1>8. ASSUME NEW r \in Requests, WriteAcquisition(r) PROVE Follows
    <2>1. slotClaim' = slotClaim /\ out' = out /\ At(r, "write")
          /\ \/ MoveTo(r, "running") /\ row' = row
             \/ MoveTo(r, "failing")
          /\ (row'[q] = row[q] \/ (q = r /\ row[q] = "acquired"))
      BY <1>2, <1>8 DEF WriteAcquisition
    <2>2. CASE q = r
      <3>1. Slotted(q) /\ ~Unslotted(q)'
        BY <1>0, <2>1, <2>2 DEF MoveTo, At, Unslotted, Slotted
      <3>2. ~Slotted(q)' \/ row' = row
        BY <1>0, <2>1, <2>2 DEF MoveTo, At, Slotted
      <3> QED BY <1>0, <2>1, <3>1, <3>2 DEF OpenClaim
    <2>3. CASE q # r
      BY <1>0, <1>1, <2>1, <2>3 DEF MoveTo
    <2> QED BY <2>2, <2>3
  <1>9. ASSUME NEW r \in Requests, Finish(r) PROVE Follows
    <2>1. /\ out' = out /\ At(r, "running") /\ MoveTo(r, "done")
          /\ q # r => slotClaim'[q] = slotClaim[q] /\ row'[q] = row[q]
      BY <1>3, <1>9 DEF Finish
    <2> QED BY <1>0, <1>1, <2>1 DEF MoveTo, At, Unslotted, Slotted
  <1>10. ASSUME NEW r \in Requests, SweepClaimOfSlot(r) \/ SettleLater(r) PROVE Follows
    <2>1. out' = out /\ pc' = pc /\ EndClaim(r)
      BY <1>10 DEF SweepClaimOfSlot, SettleLater, reqVars
    <2> QED BY <1>0, <1>3, <2>1 DEF Unslotted, Slotted, OpenClaim
  <1>11. ASSUME NEW r \in Requests, SweepOrphanedSlot(r) PROVE Follows
    <2>1. out' = out /\ pc' = pc /\ slotClaim' = slotClaim /\ ~OpenClaim(r)
          /\ (row'[q] = row[q] \/ (q = r /\ row[q] = "acquired"))
      BY <1>2, <1>11 DEF SweepOrphanedSlot, reqVars, claimVars
    <2> QED BY <1>0, <2>1 DEF Unslotted, Slotted, OpenClaim
  <1>12. ASSUME NEW r \in Requests, Fail(r) \/ LeaseExpires(r) \/ MarkDelivering(r) PROVE Follows
    BY <1>0, <1>12 DEF Fail, LeaseExpires, MarkDelivering, MoveTo, At, Unslotted, Slotted, OpenClaim,
       reqVars, slotVars, claimVars
  <1>13. CASE Crash
    <2>1. out' = out /\ row' = row /\ slotClaim' = slotClaim /\ pc'[q] \in {pc[q], "crashed"}
      BY <1>13 DEF Crash, slotVars, claimVars
    <2> QED BY <1>0, <2>1 DEF Unslotted, Slotted, OpenClaim
  <1>14. CASE UNCHANGED admissionVars
    BY <1>1, <1>14 DEF reqVars, slotVars, claimVars, admissionVars
  <1> QED BY <1>5, <1>6, <1>7, <1>8, <1>9, <1>10, <1>11, <1>12, <1>13, <1>14, <1>15, <1>16, <1>17, <1>18
          DEF AdmissionNext, Progress, Sweeps

-----------------------------------------------------------------------------
(* What a step does to the position of a request and to the lock.           *)
Held == InTransaction \cup {"unlock"}
Moves(r) ==
    /\ lock' = lock
    /\ \/ /\ pc[r] \notin Held
          /\ \E p \in {"reselect", "lock", "decide", "write", "running", "failing", "done", "failed"} :
                MoveTo(r, p)
       \/ pc[r] \notin Held /\ r \notin Limited /\ MoveTo(r, "count")
       \/ /\ pc[r] = "count" /\ MoveTo(r, "increment")
          /\ r \in Limited => Active < BindingLimit
          /\ UNCHANGED <<row, inFlight>>
       \/ /\ pc[r] = "increment" /\ MoveTo(r, "commit")
          /\ RowFree /\ inFlight < cap
          /\ UNCHANGED <<row, inFlight>>
       \/ pc[r] \in InTransaction /\ MoveTo(r, "unlock")

LEMMA StepsMove ==
    ASSUME AdmissionInv, [AdmissionNext]_admissionVars
    PROVE  \/ Crash \/ UNCHANGED <<pc, lock>>
           \/ \E r \in Requests : TryLock(r) \/ Unlock(r) \/ Moves(r)
  <1>0. Active \in Nat /\ BindingLimit \in Nat /\ inFlight \in Nat /\ cap \in Nat
    BY AdmissionAssumption, CountsTyped DEF AdmissionAssumption, AdmissionInv, AdmissionTypeOK
  <1>1. ASSUME NEW r \in Requests, Select(r) PROVE Moves(r)
    BY <1>1 DEF Select, Moves, Answer, At, Held, InTransaction
  <1>2. ASSUME NEW r \in Requests, LockFails(r) \/ Rollback(r) PROVE Moves(r)
    BY <1>2 DEF LockFails, Rollback, Moves, Answer, At, Held, InTransaction
  <1>3. ASSUME NEW r \in Requests, CountInTransaction(r) PROVE Moves(r)
    <2>1. /\ pc[r] = "count" /\ lock' = lock /\ UNCHANGED <<row, inFlight>>
          /\ MoveTo(r, "unlock") \/ (MoveTo(r, "increment") /\ ~(r \in Limited /\ Active >= BindingLimit))
      BY <1>3 DEF CountInTransaction, Answer, At
    <2> QED BY <1>0, <2>1 DEF Moves, InTransaction
  <1>4. ASSUME NEW r \in Requests, IncrementInFlight(r) PROVE Moves(r)
    <2>1. /\ pc[r] = "increment" /\ RowFree /\ lock' = lock /\ UNCHANGED <<row, inFlight>>
          /\ MoveTo(r, "unlock") \/ (MoveTo(r, "commit") /\ ~(inFlight >= cap))
      BY <1>4 DEF IncrementInFlight, Answer, At, slotVars
    <2> QED BY <1>0, <2>1 DEF Moves, InTransaction
  <1>5. ASSUME NEW r \in Requests, CommitSlot(r) PROVE Moves(r)
    BY <1>5 DEF CommitSlot, Moves, Answer, At, InTransaction
  <1>6. ASSUME NEW r \in Requests, DecideFirst(r) \/ DecideWaiting(r) PROVE Moves(r)
    <2>1. /\ pc[r] = "decide" /\ lock' = lock
          /\ \E p \in {"reselect", "write", "running", "failing"} : MoveTo(r, p)
      BY <1>6 DEF DecideFirst, DecideWaiting, At
    <2> QED BY <2>1 DEF Moves, Held, InTransaction
  <1>7. ASSUME NEW r \in Requests, WriteAcquisition(r) \/ Finish(r) \/ Fail(r) PROVE Moves(r)
    BY <1>7 DEF WriteAcquisition, Finish, Fail, Moves, At, Held, InTransaction
  <1>8. ASSUME NEW r \in Requests,
               \/ LeaseExpires(r) \/ MarkDelivering(r) \/ SettleLater(r)
               \/ SweepClaimOfSlot(r) \/ SweepOrphanedSlot(r)
        PROVE  UNCHANGED <<pc, lock>>
    BY <1>8
       DEF LeaseExpires, MarkDelivering, SettleLater, SweepClaimOfSlot, SweepOrphanedSlot, reqVars
  <1>9. UNCHANGED admissionVars => UNCHANGED <<pc, lock>>
    BY DEF admissionVars, reqVars
  <1> QED BY <1>1, <1>2, <1>3, <1>4, <1>5, <1>6, <1>7, <1>8, <1>9 DEF AdmissionNext, Progress, Sweeps

(* The lock is on the connection of a request that uses it, and a request   *)
(* of the binding is in its transaction only under the lock.                *)
LEMMA LocksStay ==
    ASSUME AdmissionInv, [AdmissionNext]_admissionVars
    PROVE  Locked' /\ LockIsInUse'
  <1>0. /\ NoRequest \notin Requests /\ pc \in [Requests -> PCs] /\ lock \in Requests \cup {NoRequest}
        /\ \A q \in Limited : pc[q] \in Held => lock = q
        /\ lock # NoRequest => pc[lock] \in Held
        /\ Limited \subseteq Requests
    BY AdmissionAssumption
       DEF AdmissionAssumption, AdmissionInv, AdmissionTypeOK, PCs, Locked, LockIsInUse, Held, Limited
  <1>1. /\ \A q \in Limited : pc'[q] \in Held => lock' = q
        /\ lock' # NoRequest => pc'[lock'] \in Held
        => Locked' /\ LockIsInUse'
    BY DEF Locked, LockIsInUse, Held, Limited
  <1>2. CASE Crash
    BY <1>0, <1>1, <1>2 DEF Crash, Held, InTransaction, Over
  <1>3. CASE UNCHANGED <<pc, lock>>
    BY <1>0, <1>1, <1>3
  <1>4. ASSUME NEW r \in Requests, TryLock(r) PROVE Locked' /\ LockIsInUse'
    BY <1>0, <1>1, <1>4 DEF TryLock, MoveTo, At, Held, InTransaction
  <1>5. ASSUME NEW r \in Requests, Unlock(r) PROVE Locked' /\ LockIsInUse'
    <2>1. /\ pc[r] = "unlock" /\ lock' = (IF lock = r THEN NoRequest ELSE lock)
          /\ MoveTo(r, "lock") \/ MoveTo(r, "decide") \/ (r \notin Limited /\ MoveTo(r, "count"))
      BY <1>5 DEF Unlock, At
    <2>2. lock' # r
      BY <1>0, <2>1
    <2>3. \A q \in Requests : q # r => pc'[q] = pc[q]
      BY <1>0, <2>1 DEF MoveTo
    <2>4. r \in Limited => pc'[r] \notin Held
      BY <1>0, <2>1 DEF MoveTo, Held, InTransaction
    <2>5. \A q \in Limited : pc'[q] \in Held => lock' = q
      BY <1>0, <2>1, <2>3, <2>4
    <2>6. lock' # NoRequest => pc'[lock'] \in Held
      BY <1>0, <2>1, <2>2, <2>3
    <2> QED BY <1>1, <2>5, <2>6
  <1>6. ASSUME NEW r \in Requests, Moves(r) PROVE Locked' /\ LockIsInUse'
    BY <1>0, <1>1, <1>6 DEF Moves, MoveTo, Held, InTransaction
  <1> QED BY <1>2, <1>3, <1>4, <1>5, <1>6, StepsMove

(* Only a commit of the binding adds to its acquired slots, and adds one.   *)
LEMMA ActiveMoves ==
    ASSUME AdmissionInv, [AdmissionNext]_admissionVars
    PROVE  /\ Active \in Nat /\ Active' \in Nat
           /\ Active' <= Active \/ \E r \in Limited : CommitSlot(r) /\ Active' = Active + 1
  <1> DEFINE Mine == {r \in Limited : row[r] = "acquired"}
  <1>0. /\ row \in [Requests -> {"none", "acquired", "released", "swept"}]
        /\ Limited \subseteq Requests /\ IsFiniteSet(Acquired)
    BY DEF AdmissionInv, AdmissionTypeOK, Counted, Limited
  <1>1. IsFiniteSet(Mine) /\ Active = Cardinality(Mine) /\ Active \in Nat
    <2>1. Mine \in SUBSET Acquired
      BY <1>0 DEF Acquired
    <2>2. IsFiniteSet(Mine)
      BY <1>0, <2>1, FS_Subset
    <2>3. Active = Cardinality(Mine)
      BY DEF Active
    <2> QED BY <2>2, <2>3, FS_CardinalityType
  <1>2. Active' = Cardinality(Mine')
    BY DEF Active
  <1> HIDE DEF Mine
  <1>3. ASSUME Mine' \subseteq Mine PROVE Active' \in Nat /\ Active' <= Active
    <2>1. Mine' \in SUBSET Mine
      BY <1>3
    <2>2. IsFiniteSet(Mine') /\ Cardinality(Mine') <= Cardinality(Mine)
      BY <1>1, <2>1, FS_Subset
    <2> QED BY <1>1, <1>2, <2>2, FS_CardinalityType
  <1>4. CASE UNCHANGED <<row, inFlight>>
    <2>1. Mine' = Mine
      BY <1>4 DEF Mine
    <2> QED BY <1>1, <1>3, <2>1
  <1>5. ASSUME NEW r \in Requests, Gives(r) PROVE Active' \in Nat /\ Active' <= Active
    <2>1. Mine' \subseteq Mine
      BY <1>0, <1>5 DEF Gives, Mine
    <2> QED BY <1>3, <2>1
  <1>6. ASSUME NEW r \in Requests, CommitSlot(r), r \notin Limited
        PROVE  Active' \in Nat /\ Active' <= Active
    <2>1. Mine' = Mine
      BY <1>0, <1>6 DEF CommitSlot, Mine
    <2> QED BY <1>3, <2>1
  <1>7. ASSUME NEW r \in Limited, CommitSlot(r) PROVE Active' \in Nat /\ Active' = Active + 1
    <2>1. row[r] = "none"
      BY <1>0, <1>7 DEF AdmissionInv, RowsFollow, Unslotted, CommitSlot, At
    <2>2. Mine' = Mine \cup {r} /\ r \notin Mine
      BY <1>0, <1>7, <2>1 DEF CommitSlot, Mine
    <2>3. Cardinality(Mine') = Cardinality(Mine) + 1
      BY <1>1, <2>2, FS_AddElement
    <2> QED BY <1>1, <1>2, <2>3
  <1> QED BY <1>1, <1>4, <1>5, <1>6, <1>7, RowsMove

(* The room a request found is still there when it commits.                 *)
LEMMA RoomsStay ==
    ASSUME AdmissionInv, [AdmissionNext]_admissionVars
    PROVE  BindingRoom' /\ BindingWithinLimit' /\ AccountRoom'
  <1>0. /\ pc \in [Requests -> PCs] /\ inFlight \in Nat /\ BindingLimit \in Nat /\ cap \in Nat
        /\ cap' = cap
        /\ Limited \subseteq Requests /\ Active <= BindingLimit
        /\ \A q \in Limited : pc[q] \in {"increment", "commit"} => Active < BindingLimit
        /\ \A q \in Limited : pc[q] \in Held => lock = q
        /\ \A q \in Requests : pc[q] = "commit" => inFlight < cap
        /\ \A q, o \in Requests : pc[q] = "commit" /\ pc[o] = "commit" => o = q
    BY CapStays, AdmissionAssumption
       DEF AdmissionAssumption, AdmissionInv, AdmissionTypeOK, PCs, Locked, BindingRoom, AccountRoom,
       BindingWithinLimit, Held, Limited, At
  <1>1. /\ Active \in Nat /\ Active' \in Nat
        /\ Active' <= Active \/ \E r \in Limited : CommitSlot(r) /\ Active' = Active + 1
    BY ActiveMoves
  <1>2. /\ \A q \in Limited : pc'[q] \in {"increment", "commit"} => Active' < BindingLimit
        /\ Active' <= BindingLimit
        /\ \A q \in Requests : pc'[q] = "commit" => inFlight' < cap
        /\ \A q, o \in Requests : pc'[q] = "commit" /\ pc'[o] = "commit" => o = q
        => BindingRoom' /\ BindingWithinLimit' /\ AccountRoom'
    BY <1>0 DEF BindingRoom, AccountRoom, BindingWithinLimit, At, Limited
  <1>3. ASSUME NEW q \in Requests, pc'[q] \in {"increment", "commit"}
        PROVE  \/ pc[q] = pc'[q]
               \/ /\ pc[q] = "count" /\ pc'[q] = "increment" /\ row' = row
                  /\ q \in Limited => Active < BindingLimit
               \/ /\ pc[q] = "increment" /\ pc'[q] = "commit" /\ UNCHANGED <<row, inFlight>>
                  /\ RowFree /\ inFlight < cap /\ \A o \in Requests : o # q => pc'[o] = pc[o]
    <2>1. CASE Crash
      BY <1>0, <1>3, <2>1 DEF Crash
    <2>2. ASSUME NEW r \in Requests, TryLock(r) \/ Unlock(r) PROVE pc[q] = pc'[q]
      BY <1>0, <1>3, <2>2 DEF TryLock, Unlock, MoveTo
    <2>3. ASSUME NEW r \in Requests, Moves(r), q # r PROVE pc[q] = pc'[q]
      BY <1>0, <1>3, <2>3 DEF Moves, MoveTo
    <2>4. ASSUME Moves(q)
          PROVE  \/ /\ pc[q] = "count" /\ MoveTo(q, "increment") /\ row' = row
                    /\ q \in Limited => Active < BindingLimit
                 \/ /\ pc[q] = "increment" /\ MoveTo(q, "commit") /\ UNCHANGED <<row, inFlight>>
                    /\ RowFree /\ inFlight < cap
      BY <1>0, <1>3, <2>4 DEF Moves, MoveTo
    <2>5. ASSUME Moves(q)
          PROVE  \/ /\ pc[q] = "count" /\ pc'[q] = "increment" /\ row' = row
                    /\ q \in Limited => Active < BindingLimit
                 \/ /\ pc[q] = "increment" /\ pc'[q] = "commit" /\ UNCHANGED <<row, inFlight>>
                    /\ RowFree /\ inFlight < cap /\ \A o \in Requests : o # q => pc'[o] = pc[o]
      BY <1>0, <2>4, <2>5 DEF MoveTo
    <2> QED BY <2>1, <2>2, <2>3, <2>5, StepsMove
  <1>4. ASSUME NEW q \in Limited, pc'[q] \in {"increment", "commit"} PROVE Active' < BindingLimit
    <2>1. Active < BindingLimit
      BY <1>0, <1>3, <1>4
    <2>2. ASSUME NEW r \in Limited, CommitSlot(r) PROVE FALSE
      <3>1. pc[r] = "commit" /\ pc'[r] = "unlock" /\ q # r /\ pc[q] = pc'[q]
        BY <1>0, <1>4, <2>2 DEF CommitSlot, Answer, MoveTo, At
      <3> QED BY <1>0, <1>4, <3>1 DEF Held, InTransaction
    <2> QED BY <1>0, <1>1, <2>1, <2>2
  <1>5. Active' <= BindingLimit
    <2>1. ASSUME NEW r \in Limited, CommitSlot(r) PROVE Active < BindingLimit
      BY <1>0, <2>1 DEF CommitSlot, At
    <2> QED BY <1>0, <1>1, <2>1
  <1>6. ASSUME NEW q \in Requests, NEW o \in Requests, pc'[q] = "commit", pc'[o] = "commit"
        PROVE  o = q
    <2>1. pc[q] = "commit" \/ \A s \in Requests : pc[s] # "commit" /\ (s # q => pc'[s] = pc[s])
      BY <1>3, <1>6 DEF RowFree, At
    <2>2. pc[o] = "commit" \/ \A s \in Requests : pc[s] # "commit" /\ (s # o => pc'[s] = pc[s])
      BY <1>3, <1>6 DEF RowFree, At
    <2> QED BY <1>0, <1>6, <2>1, <2>2
  <1>7. ASSUME NEW q \in Requests, pc'[q] = "commit" PROVE inFlight' < cap
    <2>1. CASE pc[q] # "commit"
      BY <1>0, <1>3, <1>7, <2>1
    <2>2. CASE pc[q] = "commit"
      <3>1. inFlight < cap
        BY <1>0, <2>2
      <3>2. ASSUME NEW r \in Requests, CommitSlot(r) PROVE FALSE
        <4>1. r = q
          BY <1>0, <2>2, <3>2 DEF CommitSlot, At
        <4> QED BY <1>0, <1>7, <3>2, <4>1 DEF CommitSlot, Answer, MoveTo
      <3>3. ASSUME NEW r \in Requests, Gives(r) PROVE FALSE
        BY <2>2, <3>3 DEF Gives, RowFree, At
      <3> QED BY <3>1, <3>2, <3>3, RowsMove
    <2> QED BY <2>1, <2>2
  <1> QED BY <1>2, <1>4, <1>5, <1>6, <1>7

-----------------------------------------------------------------------------
(* Places are taken one at a time, while there are some, and are given back *)
(* by whoever leaves: no request leaves the wait with its place.            *)
Quiet(q) == pc[q] \notin Over \cup {"new", "running", "failing"}
Joins(r) ==
    /\ ~place[r] /\ depth + 1 <= MaxWaiting
    /\ place' = [place EXCEPT ![r] = TRUE] /\ depth' = depth + 1

LEMMA PlacesMove ==
    ASSUME AdmissionInv, [AdmissionNext]_admissionVars
    PROVE  \/ place' = [r \in Requests |-> FALSE] /\ depth' = 0
           \/ UNCHANGED queueVars
           \/ \E r \in Requests : Joins(r) \/ GiveBackPlace(r)
  <1>1. ASSUME NEW r \in Requests, DecideFirst(r) PROVE UNCHANGED queueVars \/ Joins(r)
    BY <1>1 DEF DecideFirst, Joins
  <1>2. ASSUME NEW r \in Requests, DecideWaiting(r) \/ WriteAcquisition(r)
        PROVE  UNCHANGED queueVars \/ GiveBackPlace(r)
    BY <1>2 DEF DecideWaiting, WriteAcquisition, queueVars
  <1>3. ASSUME NEW r \in Requests,
               \/ Select(r) \/ TryLock(r) \/ LockFails(r) \/ CountInTransaction(r) \/ IncrementInFlight(r)
               \/ CommitSlot(r) \/ Rollback(r) \/ Unlock(r) \/ Finish(r) \/ Fail(r) \/ LeaseExpires(r)
               \/ MarkDelivering(r) \/ SettleLater(r) \/ SweepClaimOfSlot(r) \/ SweepOrphanedSlot(r)
        PROVE  UNCHANGED queueVars
    BY <1>3 DEF Select, TryLock, LockFails, CountInTransaction, IncrementInFlight, CommitSlot, Rollback,
       Unlock, Finish, Fail, LeaseExpires, MarkDelivering, SettleLater, SweepClaimOfSlot,
       SweepOrphanedSlot, queueVars
  <1>4. Crash => place' = [r \in Requests |-> FALSE] /\ depth' = 0
    BY DEF Crash
  <1>5. UNCHANGED admissionVars => UNCHANGED queueVars
    BY DEF admissionVars, queueVars
  <1> QED BY <1>1, <1>2, <1>3, <1>4, <1>5 DEF AdmissionNext, Progress, Sweeps

LEMMA PlacesStay ==
    ASSUME AdmissionInv, [AdmissionNext]_admissionVars
    PROVE  Queued'
  <1>0. /\ IsFiniteSet(Waiters) /\ depth = Cardinality(Waiters) /\ depth <= MaxWaiting
        /\ depth \in Nat /\ place \in [Requests -> BOOLEAN] /\ MaxWaiting \in Nat
        /\ pc \in [Requests -> PCs]
        /\ \A q \in Requests : place[q] => Quiet(q)
    BY AdmissionAssumption
       DEF AdmissionAssumption, AdmissionInv, AdmissionTypeOK, PCs, Queued, PlacesAreWaiters, Waiters,
           Quiet
  <1>1. /\ IsFiniteSet(Waiters') /\ depth' = Cardinality(Waiters') /\ depth' <= MaxWaiting
        /\ \A q \in Requests : place'[q] => Quiet(q)'
        => Queued'
    BY DEF Queued, PlacesAreWaiters, Waiters, Quiet
  <1>2. IsFiniteSet(Waiters') /\ depth' = Cardinality(Waiters') /\ depth' <= MaxWaiting
    <2>1. CASE place' = [r \in Requests |-> FALSE] /\ depth' = 0
      <3>1. Waiters' = {}
        BY <2>1 DEF Waiters
      <3>2. IsFiniteSet(Waiters') /\ Cardinality(Waiters') = 0
        BY <3>1, FS_EmptySet
      <3> QED BY <1>0, <2>1, <3>2
    <2>2. CASE UNCHANGED queueVars
      <3>1. Waiters' = Waiters
        BY <2>2 DEF Waiters, queueVars
      <3> QED BY <1>0, <2>2, <3>1 DEF queueVars
    <2>3. ASSUME NEW r \in Requests, Joins(r)
          PROVE  IsFiniteSet(Waiters') /\ depth' = Cardinality(Waiters') /\ depth' <= MaxWaiting
      <3>1. Waiters' = Waiters \cup {r} /\ r \notin Waiters
        BY <1>0, <2>3 DEF Joins, Waiters
      <3>2. IsFiniteSet(Waiters') /\ Cardinality(Waiters') = depth + 1
        BY <1>0, <3>1, FS_AddElement
      <3> QED BY <2>3, <3>2 DEF Joins
    <2>4. ASSUME NEW r \in Requests, GiveBackPlace(r)
          PROVE  IsFiniteSet(Waiters') /\ depth' = Cardinality(Waiters') /\ depth' <= MaxWaiting
      <3>1. CASE place[r]
        <4>1. Waiters' = Waiters \ {r} /\ r \in Waiters
          BY <1>0, <2>4, <3>1 DEF GiveBackPlace, Waiters
        <4>2. IsFiniteSet(Waiters') /\ Cardinality(Waiters') = depth - 1
          BY <1>0, <4>1, FS_RemoveElement
        <4>3. depth' = depth - 1
          BY <2>4, <3>1 DEF GiveBackPlace
        <4> QED BY <1>0, <4>2, <4>3
      <3>2. CASE ~place[r]
        <4>1. Waiters' = Waiters
          BY <1>0, <2>4, <3>2 DEF GiveBackPlace, Waiters
        <4>2. depth' = depth
          BY <2>4, <3>2 DEF GiveBackPlace
        <4> QED BY <1>0, <4>1, <4>2
      <3> QED BY <3>1, <3>2
    <2> QED BY <2>1, <2>2, <2>3, <2>4, PlacesMove
  <1>3. ASSUME NEW q \in Requests, place'[q] PROVE Quiet(q)'
    <2>1. ASSUME NEW r \in Requests, pc'[r] \in {"lock", "count", "increment", "commit", "unlock", "decide",
                                                 "reselect", "write"},
                 \A o \in Requests : o # r => pc'[o] = pc[o],
                 q = r \/ place[q]
          PROVE  Quiet(q)'
      BY <1>0, <2>1 DEF Quiet, Over
    <2>2. ASSUME pc' = pc, place[q] PROVE Quiet(q)'
      BY <1>0, <2>2 DEF Quiet
    <2>3. ASSUME NEW r \in Requests, NEW p \in PCs, MoveTo(r, p)
          PROVE  pc'[r] = p /\ \A o \in Requests : o # r => pc'[o] = pc[o]
      BY <1>0, <2>3 DEF MoveTo
    <2>4. ASSUME NEW r \in Requests,
                 \/ Select(r) \/ TryLock(r) \/ LockFails(r) \/ CountInTransaction(r)
                 \/ IncrementInFlight(r) \/ CommitSlot(r) \/ Rollback(r) \/ Unlock(r)
          PROVE  Quiet(q)'
      <3>1. \E p \in {"lock", "count", "increment", "commit", "unlock", "decide"} : MoveTo(r, p)
        BY <2>4 DEF Select, TryLock, LockFails, CountInTransaction, IncrementInFlight, CommitSlot, Rollback,
           Unlock, Answer
      <3>2. place' = place
        BY <2>4 DEF Select, TryLock, LockFails, CountInTransaction, IncrementInFlight, CommitSlot, Rollback,
           Unlock, queueVars
      <3> QED BY <1>3, <2>1, <2>3, <3>1, <3>2 DEF PCs
    <2>5. ASSUME NEW r \in Requests, DecideFirst(r) PROVE Quiet(q)'
      <3>1. CASE q = r
        <4>1. MoveTo(r, "reselect")
          BY <1>3, <2>5, <3>1 DEF DecideFirst, queueVars
        <4> QED BY <2>1, <2>3, <3>1, <4>1 DEF PCs
      <3>2. CASE q # r
        <4>1. place[q] /\ \E p \in {"write", "running", "reselect", "failing"} : MoveTo(r, p)
          BY <1>0, <1>3, <2>5, <3>2 DEF DecideFirst, queueVars
        <4>2. pc'[q] = pc[q]
          BY <1>0, <3>2, <4>1 DEF MoveTo
        <4> QED BY <1>0, <4>1, <4>2 DEF Quiet
      <3> QED BY <3>1, <3>2
    <2>6. ASSUME NEW r \in Requests, DecideWaiting(r) PROVE Quiet(q)'
      <3>1. \/ (\E p \in {"write", "reselect"} : MoveTo(r, p)) /\ UNCHANGED queueVars
            \/ MoveTo(r, "failing") /\ GiveBackPlace(r)
        BY <2>6 DEF DecideWaiting
      <3>2. CASE (\E p \in {"write", "reselect"} : MoveTo(r, p)) /\ UNCHANGED queueVars
        BY <1>3, <2>1, <2>3, <3>2 DEF PCs, queueVars
      <3>3. CASE MoveTo(r, "failing") /\ GiveBackPlace(r)
        <4>1. q # r /\ place[q]
          BY <1>0, <1>3, <3>3 DEF GiveBackPlace
        <4>2. pc'[q] = pc[q]
          BY <1>0, <3>3, <4>1 DEF MoveTo
        <4> QED BY <1>0, <4>1, <4>2 DEF Quiet
      <3> QED BY <3>1, <3>2, <3>3
    <2>7. ASSUME NEW r \in Requests, WriteAcquisition(r) PROVE Quiet(q)'
      <3>1. GiveBackPlace(r) /\ (MoveTo(r, "running") \/ MoveTo(r, "failing"))
        BY <2>7 DEF WriteAcquisition
      <3>2. q # r /\ place[q]
        BY <1>0, <1>3, <3>1 DEF GiveBackPlace
      <3>3. pc'[q] = pc[q]
        BY <1>0, <3>1, <3>2 DEF MoveTo
      <3> QED BY <1>0, <3>2, <3>3 DEF Quiet
    <2>8. ASSUME NEW r \in Requests, Finish(r) \/ Fail(r) PROVE Quiet(q)'
      <3>1. /\ pc[r] \in {"running", "failing"} /\ place' = place
            /\ MoveTo(r, "done") \/ MoveTo(r, "failed")
        BY <2>8 DEF Finish, Fail, At, queueVars
      <3>2. q # r
        BY <1>0, <1>3, <3>1 DEF Quiet
      <3>3. pc'[q] = pc[q]
        BY <1>0, <3>1, <3>2 DEF MoveTo
      <3> QED BY <1>0, <1>3, <3>1, <3>3 DEF Quiet
    <2>9. ASSUME NEW r \in Requests,
                 \/ LeaseExpires(r) \/ MarkDelivering(r) \/ SettleLater(r)
                 \/ SweepClaimOfSlot(r) \/ SweepOrphanedSlot(r)
          PROVE  Quiet(q)'
      BY <1>3, <2>2, <2>9 DEF LeaseExpires, MarkDelivering, SettleLater, SweepClaimOfSlot,
         SweepOrphanedSlot, reqVars, queueVars
    <2>10. CASE Crash
      BY <1>3, <2>10 DEF Crash
    <2>11. CASE UNCHANGED admissionVars
      BY <1>3, <2>2, <2>11 DEF admissionVars, reqVars, queueVars
    <2> QED BY <2>4, <2>5, <2>6, <2>7, <2>8, <2>9, <2>10, <2>11 DEF AdmissionNext, Progress, Sweeps
  <1> QED BY <1>1, <1>2, <1>3

-----------------------------------------------------------------------------
(* Pool slots and the queue for them: whatever the requests read before     *)
(* they had a lock, and with commits of unknown outcome, crashes, expired   *)
(* leases and two sweepers giving slots back, a binding is within its limit *)
(* and an account within its cap, the session lock is never left on a       *)
(* pooled connection, the Tracker counts its waiters, and a request that    *)
(* runs under an open claim has its slot.                                   *)
THEOREM AdmissionIsSafe == AdmissionSpec => []AdmissionSafety
  <1>1. AdmissionInit => AdmissionInv
    BY InitAdmission
  <1>2. AdmissionInv /\ [AdmissionNext]_admissionVars => AdmissionInv'
    BY TypesStay, CountsStay, PlacesStay, RowsStay, LocksStay, RoomsStay DEF AdmissionInv
  <1>3. AdmissionInv => AdmissionSafety
    <2> SUFFICES ASSUME AdmissionInv PROVE ClaimKeepsItsSlot
      BY DEF AdmissionInv, Counted, Queued, AdmissionSafety
    <2> QED BY DEF AdmissionInv, RowsFollow, Slotted, ClaimKeepsItsSlot, At, Claimed
  <1> QED BY <1>1, <1>2, <1>3, PTL DEF AdmissionSpec

===============================================================================
