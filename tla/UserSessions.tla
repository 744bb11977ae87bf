----------------------------- MODULE UserSessions -----------------------------
(***************************************************************************)
(* The sessions of one user: families of one-time refresh tokens and of     *)
(* session tokens, rotated under the user's advisory lock, revoked by three *)
(* statements without it, next to password changes, password resets and an  *)
(* administrator.                                                           *)
(***************************************************************************)
EXTENDS Integers, FiniteSets

CONSTANTS
    Families,                  \* families that may be created
    Workers,                   \* requests being served
    MaxFamilies,               \* MaxActiveFamilies of the device policy
    RevokeOldest,              \* its mode: make room, or refuse
    MaxGen, MaxVersion,        \* bounds on rotations and password changes
    MaxFaults,
    None

ASSUME SessionAssumption ==
    /\ MaxFamilies \in Nat \ {0} /\ RevokeOldest \in BOOLEAN
    /\ MaxGen \in Nat \ {0} /\ MaxVersion \in Nat \ {0} /\ MaxFaults \in Nat
    /\ None \notin Families

Gens == 1..MaxGen

VARIABLES
    user,                      \* [status, version] of the users row
    family,                    \* [status, gen, auth] of each family row
    refresh, session,          \* status of a family's tokens, by generation
    worker,
    rotated,                   \* history: exchanges of each refresh token
    replayed,                  \* history: families told of a replay
    unrevoked,                 \* history: of those, where revoking them failed
    faults

rows == <<user, family, refresh, session>>
vars == <<user, family, refresh, session, worker, rotated, replayed, unrevoked, faults>>

Idle == [pc |-> "idle", f |-> None, g |-> 0, auth |-> 0, replay |-> FALSE]

Init ==
    /\ user = [status |-> "active", version |-> 1]
    /\ family = [f \in Families |-> [status |-> "none", gen |-> 0, auth |-> 0]]
    /\ refresh = [f \in Families |-> [g \in Gens |-> "none"]]
    /\ session = [f \in Families |-> [g \in Gens |-> "none"]]
    /\ worker = [w \in Workers |-> Idle]
    /\ rotated = [f \in Families |-> [g \in Gens |-> 0]]
    /\ replayed = {} /\ unrevoked = {} /\ faults = 0

-----------------------------------------------------------------------------
Live == {f \in Families : family[f].status = "live"}

Goto(w, pc) == worker' = [worker EXCEPT ![w].pc = pc]
Done(w) == worker' = [worker EXCEPT ![w] = Idle]
History == <<rotated, replayed, unrevoked, faults>>

(* Fault: every kind of token is marked as a used refresh token is.         *)
Ended_AsConsumed(tokens, active, ended) ==
    [g \in Gens |-> IF tokens[g] = active THEN "consumed" ELSE tokens[g]]

Ended(tokens, active, ended) ==
    [g \in Gens |-> IF tokens[g] = active THEN ended ELSE tokens[g]]

(* What one transaction writes to revoke a set of families. *)
Revoked(fs) ==
    /\ family' = [f \in Families |->
                    IF f \in fs /\ f \in Live THEN [family[f] EXCEPT !.status = "revoked"] ELSE family[f]]
    /\ refresh' = [f \in Families |->
                    IF f \in fs THEN Ended(refresh[f], "active", "revoked") ELSE refresh[f]]
    /\ session' = [f \in Families |->
                    IF f \in fs THEN Ended(session[f], "live", "revoked") ELSE session[f]]

(* The user's password is checked against the row as it is now.             *)
Login(w) ==
    /\ worker[w].pc = "idle" /\ user.status = "active"
    /\ worker' = [worker EXCEPT ![w] = [Idle EXCEPT !.pc = "login", !.auth = user.version]]
    /\ UNCHANGED <<rows, History>>

(* Fault: the version the password was checked at is not compared.          *)
Current_Active(w) == user.status = "active"

(* The transaction holds the users row: still active, same version.         *)
Current(w) == user.status = "active" /\ user.version = worker[w].auth

(* Fault: one family too many.                                              *)
Room_OffByOne(fs) == Cardinality(fs) <= MaxFamilies

Room(fs) == Cardinality(fs) < MaxFamilies

Create(w) ==
    /\ worker[w].pc = "login" /\ Current(w)
    /\ \E f \in Families, out \in SUBSET Live :
         /\ family[f].status = "none"
         /\ IF Room(Live) THEN out = {} ELSE RevokeOldest /\ Cardinality(out) = 1
         /\ family' = [h \in Families |->
              IF h = f THEN [status |-> "live", gen |-> 1, auth |-> worker[w].auth]
              ELSE IF h \in out THEN [family[h] EXCEPT !.status = "revoked"] ELSE family[h]]
         /\ refresh' = [h \in Families |->
              IF h = f THEN [refresh[h] EXCEPT ![1] = "active"]
              ELSE IF h \in out THEN Ended(refresh[h], "active", "revoked") ELSE refresh[h]]
         /\ session' = [h \in Families |->
              IF h = f THEN [session[h] EXCEPT ![1] = "live"]
              ELSE IF h \in out THEN Ended(session[h], "live", "revoked") ELSE session[h]]
    /\ Done(w)
    /\ UNCHANGED <<user, History>>

(* A request that can no longer be served as it was begun. *)
Refuse(w) ==
    /\ \/ worker[w].pc = "login" /\ (~Current(w) \/ (~Room(Live) /\ ~RevokeOldest))
       \/ worker[w].pc = "rotate" /\ ~Current(w)
       \/ worker[w].pc = "rotate" /\ refresh[worker[w].f][worker[w].g] = "active"
          /\ (worker[w].f \notin Live \/ family[worker[w].f].auth # worker[w].auth)
       \/ worker[w].pc = "change" /\ (worker[w].f \notin Live \/ user.version # worker[w].auth)
       \/ worker[w].pc = "reset2" /\ user.version # worker[w].auth
    /\ Done(w)
    /\ UNCHANGED <<rows, History>>

-----------------------------------------------------------------------------
(* Any tab that was ever given the token sends it.  A token that was used   *)
(* is a replay; an active one goes on to the rotation.                      *)
Lookup(w) ==
    /\ worker[w].pc = "idle"
    /\ \E f \in Live, g \in Gens \ {MaxGen} :
         /\ refresh[f][g] # "none"
         /\ worker' = [worker EXCEPT ![w] =
              [pc |-> IF refresh[f][g] = "active" THEN "rotate" ELSE "revoke1",
               f |-> f, g |-> g, auth |-> family[f].auth, replay |-> refresh[f][g] # "active"]]
    /\ UNCHANGED <<rows, History>>

(* The database does not answer the lookup: this process's copy does, as    *)
(* old as it may be.                                                        *)
LookupCached(w) ==
    /\ worker[w].pc = "idle" /\ faults < MaxFaults
    /\ \E f \in Families, g \in Gens \ {MaxGen}, auth \in 1..user.version :
         /\ refresh[f][g] # "none"
         /\ worker' = [worker EXCEPT ![w] =
              [pc |-> "rotate", f |-> f, g |-> g, auth |-> auth, replay |-> FALSE]]
    /\ faults' = faults + 1
    /\ UNCHANGED <<rows, rotated, replayed, unrevoked>>

Rotated(f, g, old) ==
    /\ family' = [family EXCEPT ![f].gen = g + 1]
    /\ refresh' = [refresh EXCEPT ![f][g] = old, ![f][g + 1] = "active"]
    /\ session' = [session EXCEPT ![f][g + 1] = "live"]
    /\ rotated' = [rotated EXCEPT ![f][g] = @ + 1]

(* Fault: the old token is not consumed.                                    *)
Rotate_KeepsOld(w) ==
    LET f == worker[w].f  g == worker[w].g IN
    /\ worker[w].pc = "rotate" /\ Current(w)
    /\ refresh[f][g] = "active" /\ f \in Live /\ family[f].auth = worker[w].auth
    /\ Rotated(f, g, "active")
    /\ Done(w)
    /\ UNCHANGED <<user, replayed, unrevoked, faults>>

(* Fault: the status found at the lookup is trusted.                        *)
Rotate_TrustsLookup(w) ==
    LET f == worker[w].f  g == worker[w].g IN
    /\ worker[w].pc = "rotate" /\ Current(w)
    /\ f \in Live /\ family[f].auth = worker[w].auth
    /\ Rotated(f, g, "consumed")
    /\ Done(w)
    /\ UNCHANGED <<user, replayed, unrevoked, faults>>

(* Fault: the family's status is not part of its update.                    *)
Rotate_AnyFamily(w) ==
    LET f == worker[w].f  g == worker[w].g IN
    /\ worker[w].pc = "rotate" /\ Current(w)
    /\ refresh[f][g] = "active" /\ family[f].auth = worker[w].auth
    /\ Rotated(f, g, "consumed")
    /\ Done(w)
    /\ UNCHANGED <<user, replayed, unrevoked, faults>>

(* The rotation is one transaction: it consumes the token, adds its         *)
(* successor and moves the family on.                                       *)
Rotate(w) ==
    LET f == worker[w].f  g == worker[w].g IN
    /\ worker[w].pc = "rotate" /\ Current(w)
    /\ refresh[f][g] = "active" /\ f \in Live /\ family[f].auth = worker[w].auth
    /\ Rotated(f, g, "consumed")
    /\ Done(w)
    /\ UNCHANGED <<user, replayed, unrevoked, faults>>

(* Another tab was faster, or the token was stolen: the family goes.        *)
RotateReplay(w) ==
    /\ worker[w].pc = "rotate" /\ Current(w)
    /\ refresh[worker[w].f][worker[w].g] # "active"
    /\ worker' = [worker EXCEPT ![w].pc = "revoke1", ![w].replay = TRUE]
    /\ UNCHANGED <<rows, History>>

-----------------------------------------------------------------------------
(* Fault: only the family's tokens are revoked.                             *)
RevokeFamily1_TokensOnly(w) ==
    /\ worker[w].pc = "revoke1" /\ Goto(w, "revoke2")
    /\ UNCHANGED <<rows, History>>

(* Revoking a family is three statements, each committed by itself.         *)
RevokeFamily1(w) ==
    /\ worker[w].pc = "revoke1"
    /\ family' = [family EXCEPT ![worker[w].f].status = "revoked"]
    /\ Goto(w, "revoke2")
    /\ UNCHANGED <<user, refresh, session, History>>

RevokeFamily2(w) ==
    /\ worker[w].pc = "revoke2"
    /\ refresh' = [refresh EXCEPT ![worker[w].f] = Ended(@, "active", "revoked")]
    /\ Goto(w, "revoke3")
    /\ UNCHANGED <<user, family, session, History>>

RevokeFamily3(w) ==
    /\ worker[w].pc = "revoke3"
    /\ session' = [session EXCEPT ![worker[w].f] = Ended(@, "live", "revoked")]
    /\ replayed' = IF worker[w].replay THEN replayed \cup {worker[w].f} ELSE replayed
    /\ Done(w)
    /\ UNCHANGED <<user, family, refresh, rotated, unrevoked, faults>>

(* A statement fails: a refresh ignores it and answers the replay anyway.   *)
RevokeFails(w) ==
    /\ worker[w].pc \in {"revoke1", "revoke2", "revoke3"} /\ faults < MaxFaults
    /\ replayed' = IF worker[w].replay THEN replayed \cup {worker[w].f} ELSE replayed
    /\ unrevoked' = IF worker[w].pc = "revoke1" THEN unrevoked \cup {worker[w].f} ELSE unrevoked
    /\ faults' = faults + 1
    /\ Done(w)
    /\ UNCHANGED <<rows, rotated>>

(* A user, an expired token or a strange device asks for a family's end.    *)
StartRevoke(w) ==
    /\ worker[w].pc = "idle"
    /\ \E f \in Live : worker' = [worker EXCEPT ![w] = [Idle EXCEPT !.pc = "revoke1", !.f = f]]
    /\ UNCHANGED <<rows, History>>

(* Logging out ends one token of either kind.                               *)
RevokeToken(f, g) ==
    /\ \/ refresh[f][g] = "active" /\ refresh' = [refresh EXCEPT ![f][g] = "revoked"] /\ UNCHANGED session
       \/ session[f][g] = "live" /\ session' = [session EXCEPT ![f][g] = "revoked"] /\ UNCHANGED refresh
    /\ UNCHANGED <<user, family, worker, History>>

-----------------------------------------------------------------------------
(* A user changes the password from a session it keeps.                     *)
StartChange(w) ==
    /\ worker[w].pc = "idle" /\ user.status = "active" /\ user.version < MaxVersion
    /\ \E f \in Live : worker' = [worker EXCEPT ![w] =
                          [Idle EXCEPT !.pc = "change", !.f = f, !.auth = user.version]]
    /\ UNCHANGED <<rows, History>>

ChangePassword(w) ==
    LET f == worker[w].f IN
    /\ worker[w].pc = "change" /\ f \in Live /\ user.version = worker[w].auth
    /\ user' = [user EXCEPT !.version = @ + 1]
    /\ family' = [h \in Families |->
         IF h = f THEN [family[h] EXCEPT !.auth = user.version + 1]
         ELSE IF h \in Live THEN [family[h] EXCEPT !.status = "revoked"] ELSE family[h]]
    /\ refresh' = [h \in Families |-> IF h = f THEN refresh[h] ELSE Ended(refresh[h], "active", "revoked")]
    /\ session' = [h \in Families |-> IF h = f THEN session[h] ELSE Ended(session[h], "live", "revoked")]
    /\ Done(w)
    /\ UNCHANGED History

(* A reset token is good for the version it was asked for.  The status      *)
(* that keeps logins out replaces only an active one.                       *)
PrepareReset(w) ==
    /\ worker[w].pc = "idle" /\ user.version < MaxVersion
    /\ user' = [user EXCEPT !.status = IF @ = "active" THEN "reset_required" ELSE @]
    /\ worker' = [worker EXCEPT ![w] = [Idle EXCEPT !.pc = "reset1", !.auth = user.version]]
    /\ UNCHANGED <<family, refresh, session, History>>

ResetRevoke(w) ==
    /\ worker[w].pc \in {"reset1", "reset3"}
    /\ Revoked(Families)
    /\ IF worker[w].pc = "reset1" THEN Goto(w, "reset2") ELSE Done(w)
    /\ UNCHANGED <<user, History>>

ResetPassword(w) ==
    /\ worker[w].pc = "reset2" /\ user.version = worker[w].auth
    /\ user' = [status |-> IF user.status = "reset_required" THEN "active" ELSE user.status,
                version |-> user.version + 1]
    /\ Goto(w, "reset3")
    /\ UNCHANGED <<family, refresh, session, History>>

(* The administrator disables the user, or enables a disabled one.          *)
AdminDisable ==
    /\ user.status \in {"active", "disabled"} /\ user.version < MaxVersion
    /\ user' = [status |-> "disabled", version |-> user.version + 1]
    /\ Revoked(Families)
    /\ UNCHANGED <<worker, History>>

AdminEnable ==
    /\ user.status = "disabled" /\ user' = [user EXCEPT !.status = "active"]
    /\ UNCHANGED <<family, refresh, session, worker, History>>

Die(w) ==
    /\ worker[w].pc # "idle" /\ faults < MaxFaults
    /\ Done(w) /\ faults' = faults + 1
    /\ UNCHANGED <<rows, rotated, replayed, unrevoked>>

Next ==
    \/ \E w \in Workers :
         \/ Login(w) \/ Create(w) \/ Refuse(w)
         \/ Lookup(w) \/ LookupCached(w) \/ Rotate(w) \/ RotateReplay(w)
         \/ RevokeFamily1(w) \/ RevokeFamily2(w) \/ RevokeFamily3(w)
         \/ RevokeFails(w) \/ StartRevoke(w)
         \/ StartChange(w) \/ ChangePassword(w)
         \/ PrepareReset(w) \/ ResetRevoke(w) \/ ResetPassword(w) \/ Die(w)
    \/ \E f \in Families, g \in Gens : RevokeToken(f, g)
    \/ AdminDisable \/ AdminEnable

SessionSpec == Init /\ [][Next]_vars

-----------------------------------------------------------------------------
(* Types of the variables (users, session_families and the token tables).   *)
SessionTypeOK ==
    /\ user \in [status : {"active", "reset_required", "disabled"}, version : 1..MaxVersion]
    /\ family \in [Families -> [status : {"none", "live", "revoked"}, gen : 0..MaxGen, auth : 0..MaxVersion]]
    /\ refresh \in [Families -> [Gens -> {"none", "active", "consumed", "revoked"}]]
    /\ session \in [Families -> [Gens -> {"none", "live", "revoked"}]]
    /\ rotated \in [Families -> [Gens -> Nat]]
    /\ replayed \subseteq Families /\ unrevoked \subseteq Families /\ faults \in 0..MaxFaults

(* Only a family's newest generation can be exchanged: whoever holds an     *)
(* older token holds nothing (rotateSessionWithDB).                         *)
OnlyNewestRefreshes ==
    \A f \in Families, g \in Gens : refresh[f][g] = "active" => g = family[f].gen

(* A refresh token is exchanged at most once, whatever tabs, servers and    *)
(* stale lookups do.                                                        *)
ExchangedOnce == \A f \in Families, g \in Gens : rotated[f][g] <= 1

(* A family whose token was answered as replayed is revoked, for both       *)
(* holders, unless revoking it failed.                                      *)
ReplayEndsFamily == \A f \in replayed \ unrevoked : family[f].status = "revoked"

(* Concurrent logins do not pass the device limit.                          *)
DeviceLimit == Cardinality(Live) <= MaxFamilies

(* No family lives on from before the last change of the password, except   *)
(* for what a reset has yet to revoke a second time, or could not.          *)
NoSessionOutlivesPassword ==
    (\A w \in Workers : worker[w].pc # "reset3") /\ faults = 0 =>
        \A f \in Live : family[f].auth = user.version

(* A revoked family stays revoked and is given no token, although its three *)
(* statements interleave with a rotation.                                   *)
RevokedFamilyIsDead ==
    [][\A f \in Families : family[f].status = "revoked" =>
          /\ family'[f] = family[f]
          /\ \A g \in Gens : /\ refresh'[f][g] = "active" => refresh[f][g] = "active"
                             /\ session'[f][g] = "live" => session[f][g] = "live"]_vars

(* Between the revocation and the commit of a reset no login with the old   *)
(* password gets a session: what the handler's comment says of the status   *)
(* PreparePasswordReset sets.                                               *)
(* Violated: the account was disabled and is enabled in between.            *)
NoLoginInsideReset ==
    [][\A w \in Workers : worker[w].pc = "reset2" =>
          \A f \in Families : family[f].status = "none" /\ family'[f].status = "live" =>
                family'[f].auth # worker[w].auth]_vars

(* Rotations, replays, logins, resets and revocations, however they         *)
(* interleave: one live token, exchanged once, a replay ends its family,    *)
(* devices stay within their limit and no login outlives the password.      *)
SessionSafety ==
    /\ SessionTypeOK
    /\ OnlyNewestRefreshes /\ ExchangedOnce /\ ReplayEndsFamily
    /\ DeviceLimit /\ NoSessionOutlivesPassword
=============================================================================
