--------------------------- MODULE CredentialRefresh ---------------------------
(***************************************************************************)
(* The refresh of one upstream account's credential: workers on several     *)
(* servers, a persistent slot counter with a reaper, a session lock, a      *)
(* provider whose refresh tokens rotate, a versioned credential row, the    *)
(* account's health, and an operator.                                       *)
(***************************************************************************)
EXTENDS Integers, FiniteSets

CONSTANTS
    Refreshers,                \* refreshes that can be under way, on any server
    Cap,                       \* cap_concurrent_refreshes of the account
    MaxTries,                  \* attempts of one refresh
    MaxVersion, MaxToken,      \* bounds on credential versions and tokens issued
    MaxRefreshFaults,
    NoRefresher

ASSUME RefreshAssumption ==
    /\ Cap \in Nat \ {0} /\ MaxTries \in Nat \ {0}
    /\ MaxVersion \in Nat \ {0} /\ MaxToken \in Nat \ {0} /\ MaxRefreshFaults \in Nat
    /\ NoRefresher \notin Refreshers

VARIABLES
    cred,                      \* the account_credentials row
    health,                    \* its account's health
    slots, aged,               \* current_in_flight, and whether it was left alone for long
    refreshLock,               \* holder of the account's advisory lock
    refresher,
    live,                      \* the refresh token the provider accepts
    uncertain,                 \* history: tokens exchanged, the result of which was not stored
    broken,                    \* history: sessions lost while holding the lock
    refreshFaults

refreshVars == <<cred, health, slots, aged, refreshLock, refresher, live, uncertain,
                 broken, refreshFaults>>

NoRefresh == [pc |-> "idle", v |-> 0, token |-> 0, new |-> 0, tries |-> 0, out |-> "none"]

RefreshInit ==
    /\ cred = [state |-> "active", version |-> 1, token |-> 1, due |-> FALSE, held |-> FALSE]
    /\ health = "healthy"
    /\ slots = 0 /\ aged = FALSE /\ refreshLock = NoRefresher
    /\ refresher = [w \in Refreshers |-> NoRefresh]
    /\ live = 1 /\ uncertain = {} /\ broken = 0 /\ refreshFaults = 0

-----------------------------------------------------------------------------
(* What the scan and the load ask of the rows. *)
Refreshable == health \in {"healthy", "cooled"} /\ cred.state \in {"active", "temp"}

Listed == Refreshable /\ cred.due /\ ~cred.held

(* Where a refresh stands.                                                  *)
MoveOn(w, pc) == refresher' = [refresher EXCEPT ![w].pc = pc]
Leave(w, pc) == refresher' = [refresher EXCEPT ![w] = [NoRefresh EXCEPT !.pc = pc]]
Done(w) == Leave(w, "idle")
RefreshFault == refreshFaults < MaxRefreshFaults /\ refreshFaults' = refreshFaults + 1

(* The scan finds the account, or a refused request asks for it.            *)
StartRefresh(w, hot) ==
    /\ refresher[w].pc = "idle" /\ (hot \/ Listed)
    /\ MoveOn(w, "slot")
    /\ UNCHANGED <<cred, health, slots, aged, refreshLock, live, uncertain, broken,
                   refreshFaults>>

(* Fault: the count is read first and written later. *)
TakeSlot_Unchecked(w) ==
    /\ refresher[w].pc = "slot"
    /\ slots' = slots + 1 /\ aged' = FALSE
    /\ refresher' = [refresher EXCEPT ![w].pc = "lock"]
    /\ UNCHANGED <<cred, health, refreshLock, live, uncertain, broken, refreshFaults>>

TakeSlot(w) ==
    /\ refresher[w].pc = "slot" /\ slots < Cap
    /\ slots' = slots + 1 /\ aged' = FALSE
    /\ MoveOn(w, "lock")
    /\ UNCHANGED <<cred, health, refreshLock, live, uncertain, broken, refreshFaults>>

NoSlot(w) ==
    /\ refresher[w].pc = "slot" /\ slots >= Cap
    /\ Done(w)
    /\ UNCHANGED <<cred, health, slots, aged, refreshLock, live, uncertain, broken,
                   refreshFaults>>

(* Fault: the account's lock is not asked for.                              *)
TakeLock_SlotOnly(w) ==
    /\ refresher[w].pc = "lock"
    /\ refreshLock' = w
    /\ refresher' = [refresher EXCEPT ![w].pc = "admit"]
    /\ UNCHANGED <<cred, health, slots, aged, live, uncertain, broken, refreshFaults>>

TakeLock(w) ==
    /\ refresher[w].pc = "lock"
    /\ IF refreshLock = NoRefresher
       THEN refreshLock' = w /\ MoveOn(w, "admit")
       ELSE UNCHANGED refreshLock /\ Leave(w, "unslot")
    /\ UNCHANGED <<cred, health, slots, aged, live, uncertain, broken, refreshFaults>>

(* The budgets of the provider's endpoint and of the process group.         *)
Admit(w) ==
    /\ refresher[w].pc = "admit" /\ refresher' = [refresher EXCEPT ![w].pc = "load", ![w].tries = 1]
    /\ UNCHANGED <<cred, health, slots, aged, refreshLock, live, uncertain, broken,
                   refreshFaults>>

Defer(w) ==
    /\ refresher[w].pc = "admit" /\ Leave(w, "unlock")
    /\ UNCHANGED <<cred, health, slots, aged, refreshLock, live, uncertain, broken,
                   refreshFaults>>

(* Every attempt reads the credential anew.                                 *)
Load(w) ==
    /\ refresher[w].pc = "load"
    /\ IF Refreshable
       THEN refresher' = [refresher EXCEPT ![w].pc = "call", ![w].v = cred.version,
                                           ![w].token = cred.token]
       ELSE IF refresher[w].tries < MaxTries
       THEN refresher' = [refresher EXCEPT ![w].tries = @ + 1]
       ELSE Leave(w, "unlock")
    /\ UNCHANGED <<cred, health, slots, aged, refreshLock, live, uncertain, broken,
                   refreshFaults>>

-----------------------------------------------------------------------------
(* The provider exchanges the token it accepts and refuses any other.       *)
Exchange(w) ==
    /\ refresher[w].pc = "call"
    /\ IF refresher[w].token = live
       THEN /\ live < MaxToken /\ refresher[w].v < MaxVersion /\ live' = live + 1
            /\ refresher' = [refresher EXCEPT ![w].pc = "save", ![w].new = live + 1]
       ELSE /\ refresher' = [refresher EXCEPT ![w].pc = "fail", ![w].out = "expired"]
            /\ UNCHANGED live
    /\ UNCHANGED <<cred, health, slots, aged, refreshLock, uncertain, broken,
                   refreshFaults>>

(* It is down, limits the rate, suspects a risk, or answers nonsense.       *)
CallFails(w) ==
    /\ refresher[w].pc = "call"
    /\ \E out \in {"temporary", "limited", "risk", "malformed"} :
         refresher' = [refresher EXCEPT ![w].pc = "fail", ![w].out = out]
    /\ UNCHANGED <<cred, health, slots, aged, refreshLock, live, uncertain, broken,
                   refreshFaults>>

(* The exchange happens and its answer is lost.                             *)
AnswerLost(w) ==
    /\ refresher[w].pc = "call" /\ refresher[w].token = live /\ live < MaxToken /\ RefreshFault
    /\ live' = live + 1
    /\ refresher' = [refresher EXCEPT ![w].pc = "fail", ![w].out = "temporary"]
    /\ UNCHANGED <<cred, health, slots, aged, refreshLock, uncertain, broken>>

(* Fault: the version read is not compared when the result is stored.       *)
Save_NoVersion(w) ==
    /\ refresher[w].pc = "save" /\ cred.version < MaxVersion
    /\ \E short \in BOOLEAN :
         cred' = [state |-> "active", version |-> cred.version + 1, token |-> refresher[w].new,
                  due |-> short, held |-> short]
    /\ refresher' = [refresher EXCEPT ![w].pc = "audit", ![w].out = "success"]
    /\ UNCHANGED <<health, slots, aged, refreshLock, live, uncertain, broken,
                   refreshFaults>>

(* A token that is due again at once is held back for a while.              *)
Save(w) ==
    /\ refresher[w].pc = "save" /\ cred.version = refresher[w].v
    /\ \E short \in BOOLEAN :
         cred' = [state |-> "active", version |-> cred.version + 1, token |-> refresher[w].new,
                  due |-> short, held |-> short]
    /\ refresher' = [refresher EXCEPT ![w].pc = "audit", ![w].out = "success"]
    /\ UNCHANGED <<health, slots, aged, refreshLock, live, uncertain, broken,
                   refreshFaults>>

(* The row was replaced meanwhile, or the database fails: the result is     *)
(* dropped, and this refresh calls the provider no more.                    *)
SaveFails(w) ==
    /\ refresher[w].pc = "save"
    /\ IF cred.version # refresher[w].v THEN UNCHANGED <<uncertain, refreshFaults>>
       ELSE RefreshFault /\ uncertain' = uncertain \cup {refresher[w].token}
    /\ Leave(w, "unlock")
    /\ UNCHANGED <<cred, health, slots, aged, refreshLock, live, broken>>

FailureState(out) ==
    IF out = "expired" THEN "revoked" ELSE IF out = "malformed" THEN "attention" ELSE "temp"

(* What the failure leaves on the credential.  Only a temporary one is      *)
(* tried again, and only if it could be stored.                             *)
SaveFailure(w, stored) ==
    /\ refresher[w].pc = "fail"
    /\ IF stored
       THEN /\ cred.version = refresher[w].v
            /\ cred' = [cred EXCEPT !.state = FailureState(refresher[w].out), !.held = TRUE]
            /\ UNCHANGED refreshFaults
       ELSE /\ UNCHANGED cred
            /\ IF cred.version = refresher[w].v THEN RefreshFault ELSE UNCHANGED refreshFaults
    /\ IF stored /\ refresher[w].out = "temporary" /\ refresher[w].tries < MaxTries
       THEN refresher' = [refresher EXCEPT ![w].pc = "load", ![w].tries = @ + 1, ![w].out = "none"]
       ELSE MoveOn(w, "audit")
    /\ UNCHANGED <<health, slots, aged, refreshLock, live, uncertain, broken>>

(* Fault: a cooldown replaces whatever the account's health was.            *)
Health_CooldownWins(out) ==
    CASE out = "success" -> "healthy"
      [] out \in {"expired", "risk"} -> "revoked"
      [] out = "limited" -> "throttled"
      [] OTHER -> health

(* The health an outcome gives the account; a cooldown does not replace a   *)
(* revocation.                                                              *)
Health(out) ==
    CASE out = "success" -> "healthy"
      [] out \in {"expired", "risk"} -> "revoked"
      [] out = "limited" -> IF health = "revoked" THEN health ELSE "throttled"
      [] OTHER -> health

(* Audit row and health in one transaction. *)
Audit(w) ==
    /\ refresher[w].pc = "audit"
    /\ health' = Health(refresher[w].out)
    /\ Leave(w, "unlock")
    /\ UNCHANGED <<cred, slots, aged, refreshLock, live, uncertain, broken,
                   refreshFaults>>

AuditFails(w) ==
    /\ refresher[w].pc = "audit" /\ RefreshFault
    /\ Leave(w, "unlock")
    /\ UNCHANGED <<cred, health, slots, aged, refreshLock, live, uncertain, broken>>

Unlock(w) ==
    /\ refresher[w].pc = "unlock"
    /\ refreshLock' = IF refreshLock = w THEN NoRefresher ELSE refreshLock
    /\ Leave(w, "unslot")
    /\ UNCHANGED <<cred, health, slots, aged, live, uncertain, broken, refreshFaults>>

Unslot(w) ==
    /\ refresher[w].pc = "unslot"
    /\ slots' = (IF slots > 0 THEN slots - 1 ELSE 0) /\ aged' = FALSE
    /\ Done(w)
    /\ UNCHANGED <<cred, health, refreshLock, live, uncertain, broken, refreshFaults>>

-----------------------------------------------------------------------------
(* All three tries to release the slot fail. *)
UnslotFails(w) ==
    /\ refresher[w].pc = "unslot" /\ RefreshFault
    /\ Done(w)
    /\ UNCHANGED <<cred, health, slots, aged, refreshLock, live, uncertain, broken>>

(* Fault: the lock is a row, which nobody deletes.                          *)
Die_KeepsLock(w) ==
    /\ refresher[w].pc # "idle" /\ RefreshFault
    /\ UNCHANGED refreshLock
    /\ refresher' = [refresher EXCEPT ![w] = NoRefresh]
    /\ UNCHANGED <<cred, health, slots, aged, live, uncertain, broken>>

(* The process dies: its session lock goes with it, its slot does not.      *)
Die(w) ==
    /\ refresher[w].pc # "idle" /\ RefreshFault
    /\ refreshLock' = IF refreshLock = w THEN NoRefresher ELSE refreshLock
    /\ Done(w)
    /\ UNCHANGED <<cred, health, slots, aged, live, uncertain, broken>>

(* The lock's session breaks and the refresh goes on. *)
Break(w) ==
    /\ refreshLock = w /\ RefreshFault
    /\ refreshLock' = NoRefresher /\ broken' = broken + 1
    /\ UNCHANGED <<cred, health, slots, aged, refresher, live, uncertain>>

(* A quarter of an hour without an acquire or a release.                    *)
Age ==
    /\ slots > 0 /\ ~aged /\ aged' = TRUE
    /\ UNCHANGED <<cred, health, slots, refreshLock, refresher, live, uncertain,
                   broken, refreshFaults>>

(* Fault: a count at its limit is left to its holders.                      *)
ReapStaleSlots_BelowCap ==
    /\ aged /\ slots > 0 /\ slots < Cap /\ slots' = 0 /\ aged' = FALSE
    /\ UNCHANGED <<cred, health, refreshLock, refresher, live, uncertain, broken,
                   refreshFaults>>

ReapStaleSlots ==
    /\ aged /\ slots > 0 /\ slots' = 0 /\ aged' = FALSE
    /\ UNCHANGED <<cred, health, refreshLock, refresher, live, uncertain, broken,
                   refreshFaults>>

(* Time passes for the credential and the account. *)
FallDue ==
    /\ ~cred.due /\ cred' = [cred EXCEPT !.due = TRUE]
    /\ UNCHANGED <<health, slots, aged, refreshLock, refresher, live, uncertain,
                   broken, refreshFaults>>

WaitOver ==
    /\ cred.held /\ cred' = [cred EXCEPT !.held = FALSE]
    /\ UNCHANGED <<health, slots, aged, refreshLock, refresher, live, uncertain,
                   broken, refreshFaults>>

CooldownOver ==
    /\ health = "throttled" /\ health' = "cooled"
    /\ UNCHANGED <<cred, slots, aged, refreshLock, refresher, live, uncertain,
                   broken, refreshFaults>>

(* The operator logs in at the provider again and stores the new token.     *)
RotateByOperator ==
    /\ cred.version < MaxVersion /\ live < MaxToken
    /\ live' = live + 1
    /\ cred' = [state |-> "active", version |-> cred.version + 1, token |-> live + 1,
                due |-> FALSE, held |-> FALSE]
    /\ UNCHANGED <<health, slots, aged, refreshLock, refresher, uncertain, broken,
                   refreshFaults>>

(* The operator sets the credential's state, or clears the account's health. *)
SetState ==
    /\ \E s \in {"active", "revoked"} \ {cred.state} : cred' = [cred EXCEPT !.state = s]
    /\ UNCHANGED <<health, slots, aged, refreshLock, refresher, live, uncertain,
                   broken, refreshFaults>>

Recover ==
    /\ health # "healthy" /\ health' = "healthy"
    /\ UNCHANGED <<cred, slots, aged, refreshLock, refresher, live, uncertain,
                   broken, refreshFaults>>

RefreshNext ==
    \/ \E w \in Refreshers :
         \/ (\E hot \in BOOLEAN : StartRefresh(w, hot)) \/ TakeSlot(w) \/ NoSlot(w) \/ TakeLock(w)
         \/ Admit(w) \/ Defer(w) \/ Load(w)
         \/ Exchange(w) \/ CallFails(w) \/ AnswerLost(w) \/ Save(w) \/ SaveFails(w)
         \/ (\E stored \in BOOLEAN : SaveFailure(w, stored))
         \/ Audit(w) \/ AuditFails(w) \/ Unlock(w) \/ Unslot(w)
         \/ UnslotFails(w) \/ Die(w) \/ Break(w)
    \/ Age \/ ReapStaleSlots \/ FallDue \/ WaitOver \/ CooldownOver
    \/ RotateByOperator \/ SetState \/ Recover

RefreshSpec == RefreshInit /\ [][RefreshNext]_refreshVars

(* What a worker does next once it has begun; every answer is as good.      *)
RefreshStep(w) ==
    \/ NoSlot(w) \/ TakeSlot(w) \/ TakeLock(w) \/ Admit(w) \/ Defer(w) \/ Load(w)
    \/ Exchange(w) \/ CallFails(w) \/ Save(w) \/ SaveFails(w)
    \/ (\E stored \in BOOLEAN : SaveFailure(w, stored)) \/ Audit(w) \/ Unlock(w) \/ Unslot(w)

(* Workers go on, the scan ticks, the reaper runs with it, time passes, and *)
(* the budgets do not defer an account for ever.                            *)
RefreshFairness ==
    /\ \A w \in Refreshers :
         /\ WF_refreshVars(RefreshStep(w)) /\ WF_refreshVars(StartRefresh(w, FALSE))
         /\ SF_refreshVars(TakeSlot(w)) /\ SF_refreshVars(Admit(w))
    /\ WF_refreshVars(Age) /\ WF_refreshVars(ReapStaleSlots)
    /\ WF_refreshVars(WaitOver) /\ WF_refreshVars(CooldownOver)

FairRefreshSpec == RefreshSpec /\ RefreshFairness

-----------------------------------------------------------------------------
(* Types of the rows, the lock and the workers.                             *)
RefreshTypeOK ==
    /\ cred \in [state : {"active", "temp", "attention", "revoked"}, version : 1..MaxVersion,
                 token : 1..MaxToken, due : BOOLEAN, held : BOOLEAN]
    /\ health \in {"healthy", "throttled", "cooled", "revoked"}
    /\ slots \in 0..Cap /\ aged \in BOOLEAN /\ refreshLock \in Refreshers \cup {NoRefresher}
    /\ live \in 1..MaxToken /\ uncertain \subseteq 1..MaxToken
    /\ broken \in 0..MaxRefreshFaults /\ refreshFaults \in 0..MaxRefreshFaults

Calling == {w \in Refreshers : refresher[w].pc \in {"load", "call", "save", "fail", "audit"}}

(* One refresh of the account at a time, whatever the reaper does to the    *)
(* slot of one that is slow: as many more as lock sessions broke.           *)
OneRefreshAtATime == Cardinality(Calling) <= 1 + broken

(* Without a failure the stored token is the one the provider accepts:      *)
(* neither a second worker nor an operator's rotation loses it.             *)
TokenKept ==
    refreshFaults = 0 /\ (\A w \in Refreshers : refresher[w].pc # "save") => cred.token = live

(* A cooldown never reopens a revoked account (updateProviderAccountHealth). *)
RevocationHolds == [][health = "revoked" => health' \in {"revoked", "healthy"}]_refreshVars

(* A slot whose holder died is free again some time.                        *)
SlotHeals == slots >= Cap ~> slots < Cap

(* A credential that is due is taken to the provider, although workers die  *)
(* with the slot and the lock.                                              *)
DueIsCalled == Listed ~> (~Listed \/ \E w \in Refreshers : refresher[w].pc = "call")

(* What the comment in Transition says: the scan does not ask for the       *)
(* health of the account, and still tries a revoked one.                    *)
(* Violated: both queries of the scan leave a revoked account out.          *)
RevokedIsRetried ==
    health = "revoked" /\ cred.state = "temp" /\ cred.due ~>
        (health # "revoked" \/ cred.state # "temp" \/ \E w \in Refreshers : refresher[w].pc = "call")

(* What RefreshPersistenceError says of the scheduler: a token whose        *)
(* exchange could not be stored is not presented again.                     *)
(* Violated: the row stays due and the next tick presents the token again.  *)
NoSecondExchange ==
    [][\A w \in Refreshers : refresher[w].pc = "call" /\ refresher'[w].pc \in {"save", "fail"} =>
          refresher[w].token \notin uncertain]_refreshVars

(* What Rotate says of the failures of the credential it replaces: they     *)
(* count no more.                                                           *)
(* Violated: the outcome is recorded without a look at the version.         *)
OldFailuresAreVoid ==
    [][health # "revoked" /\ health' = "revoked" =>
          \E w \in Refreshers : refresher[w].pc = "audit" /\ refresher[w].v = cred.version]_refreshVars

(* One refresh of an account at a time, and the token that is stored is the *)
(* one the provider accepts.                                                *)
RefreshSafety == RefreshTypeOK /\ OneRefreshAtATime /\ TokenKept
=============================================================================
