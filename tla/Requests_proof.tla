------------------------- MODULE Requests_proof -------------------------
(***************************************************************************)
(* What a request meets before it is served.  UserSessions, for any number  *)
(* of families, requests, generations and password versions: whatever tabs, *)
(* stale lookups, half-done revocations, password changes and               *)
(* administrators do, a family has one exchangeable refresh token, every    *)
(* token is exchanged at most once, a replay ends its family, and a revoked *)
(* family stays dead.  QuotaReservations, for any claims, attempts, windows *)
(* and costs.  They share no state.                                         *)
(***************************************************************************)
EXTENDS UserSessions, QuotaReservations, Sums_proof

PCs == {"idle", "login", "rotate", "revoke1", "revoke2", "revoke3",
        "change", "reset1", "reset2", "reset3"}
WorkerRec == [pc : PCs, f : Families \cup {None}, g : 0..MaxGen,
              auth : 0..MaxVersion, replay : BOOLEAN]
FamilyRec == [status : {"none", "live", "revoked"}, gen : 0..MaxGen, auth : 0..MaxVersion]

(* What a request that is under way holds: a family, a token that has room  *)
(* for a successor, a version that may still be followed.                   *)
Holds(r) ==
    /\ r.pc \in {"rotate", "revoke1", "revoke2", "revoke3", "change"} => r.f \in Families
    /\ r.pc = "rotate" => r.g \in Gens /\ r.g + 1 \in Gens
    /\ r.pc \in {"change", "reset1", "reset2"} => r.auth + 1 \in 1..MaxVersion

Busy == worker \in [Workers -> WorkerRec] /\ \A w \in Workers : Holds(worker[w])

Shapes == SessionTypeOK /\ Busy

(* Past its newest generation a family has no token, and none before it is  *)
(* created; an exchanged token is neither active nor free.                  *)
Beyond == \A f \in Families, g \in Gens : g > family[f].gen => refresh[f][g] = "none"
Unborn == \A f \in Families : family[f].status = "none" => family[f].gen = 0
Spent == \A f \in Families, g \in Gens :
            rotated[f][g] > 0 => refresh[f][g] \notin {"none", "active"}

Lineage == Beyond /\ Unborn /\ Spent /\ OnlyNewestRefreshes /\ ExchangedOnce

(* The second and third statement of a revocation follow the first.         *)
Ending == \A w \in Workers : worker[w].pc \in {"revoke2", "revoke3"} =>
                                family[worker[w].f].status = "revoked"

Few == IsFiniteSet(Live) /\ DeviceLimit

SessionInv ==
    Shapes /\ Lineage /\ Ending /\ ReplayEndsFamily /\ Few /\ NoSessionOutlivesPassword

-----------------------------------------------------------------------------
(***************************************************************************)
(* Types, and what a request holds.                                         *)
(***************************************************************************)
LEMMA WorkerMoves ==
    ASSUME Busy, NEW w \in Workers, NEW r \in WorkerRec, Holds(r),
           worker' = [worker EXCEPT ![w] = r]
    PROVE  Busy'
BY DEF Busy, Holds

LEMMA IdleIsHarmless == Idle \in WorkerRec /\ Holds(Idle)
BY SessionAssumption DEF SessionAssumption, Idle, WorkerRec, PCs, Holds

LEMMA Rests == ASSUME Busy, NEW w \in Workers, Done(w) PROVE Busy'
BY IdleIsHarmless, WorkerMoves DEF Done

LEMMA GoesOn ==
    ASSUME Busy, NEW w \in Workers, NEW pc \in PCs, Goto(w, pc),
           pc \in {"revoke2", "revoke3"} => worker[w].f \in Families,
           pc \notin {"rotate", "revoke1", "change", "reset1"},
           pc = "reset2" => worker[w].pc = "reset1"
    PROVE  Busy'
<1> DEFINE r == [worker[w] EXCEPT !.pc = pc]
<1>1. worker' = [worker EXCEPT ![w] = r]
    BY DEF Goto, Busy
<1>2. r \in WorkerRec
    BY DEF Busy, WorkerRec
<1>3. Holds(r)
    BY DEF Busy, WorkerRec, Holds
<1> HIDE DEF r
<1> QED
    BY <1>1, <1>2, <1>3, WorkerMoves

(* Ended only ends: an active token becomes whatever it is told to be.      *)
LEMMA EndedTokens ==
    ASSUME NEW S, NEW t \in [Gens -> S], NEW x, NEW y \in S
    PROVE  /\ Ended(t, x, y) \in [Gens -> S]
           /\ \A g \in Gens : \/ Ended(t, x, y)[g] = t[g]
                              \/ t[g] = x /\ Ended(t, x, y)[g] = y
BY DEF Ended

RefreshStates == {"none", "active", "consumed", "revoked"}
SessionStates == {"none", "live", "revoked"}

LEMMA EndedRefresh ==
    \A t \in [Gens -> RefreshStates] :
        /\ Ended(t, "active", "revoked") \in [Gens -> RefreshStates]
        /\ \A g \in Gens : Ended(t, "active", "revoked")[g] # t[g] =>
                             t[g] = "active" /\ Ended(t, "active", "revoked")[g] = "revoked"
<1>1. "revoked" \in RefreshStates
    BY DEF RefreshStates
<1> QED
    BY <1>1, EndedTokens

LEMMA EndedSession ==
    \A t \in [Gens -> SessionStates] :
        /\ Ended(t, "live", "revoked") \in [Gens -> SessionStates]
        /\ \A g \in Gens : Ended(t, "live", "revoked")[g] # t[g] =>
                             Ended(t, "live", "revoked")[g] = "revoked"
BY DEF Ended, SessionStates

(* SessionTypeOK, one fact for each variable.                               *)
LEMMA Types ==
    SessionTypeOK <=>
        /\ user \in [status : {"active", "reset_required", "disabled"}, version : 1..MaxVersion]
        /\ family \in [Families -> FamilyRec]
        /\ refresh \in [Families -> [Gens -> RefreshStates]]
        /\ session \in [Families -> [Gens -> SessionStates]]
        /\ rotated \in [Families -> [Gens -> Nat]]
        /\ replayed \subseteq Families /\ unrevoked \subseteq Families /\ faults \in 0..MaxFaults
BY DEF SessionTypeOK, FamilyRec, RefreshStates, SessionStates

-----------------------------------------------------------------------------
(***************************************************************************)
(* Most steps only end things: no family is created or moves on, and no     *)
(* token becomes active.                                                    *)
(***************************************************************************)
EndsFamilies ==
    /\ family' \in [Families -> FamilyRec]
    /\ \A f \in Families : /\ family'[f].gen = family[f].gen
                           /\ family'[f].status \in {family[f].status, "revoked"}
                           /\ family[f].status = "revoked" => family'[f] = family[f]

EndsTokens ==
    /\ refresh' \in [Families -> [Gens -> RefreshStates]]
    /\ session' \in [Families -> [Gens -> SessionStates]]
    /\ \A f \in Families, g \in Gens :
          /\ refresh'[f][g] # refresh[f][g] => refresh[f][g] = "active" /\ refresh'[f][g] = "revoked"
          /\ session'[f][g] # session[f][g] => session'[f][g] = "revoked"

OnlyEnds == EndsFamilies /\ EndsTokens /\ UNCHANGED rotated

(* What RevokedFamilyIsDead says of one step.                               *)
DeadStays ==
    \A f \in Families : family[f].status = "revoked" =>
        /\ family'[f] = family[f]
        /\ \A g \in Gens : /\ refresh'[f][g] = "active" => refresh[f][g] = "active"
                           /\ session'[f][g] = "live" => session[f][g] = "live"

LEMMA RevokedEnds ==
    ASSUME SessionTypeOK, NEW fs, Revoked(fs)
    PROVE  EndsFamilies /\ EndsTokens
<1>1. EndsFamilies
    BY Types DEF Revoked, EndsFamilies, Live, FamilyRec
<1>2. EndsTokens
    <2>1. "revoked" \in RefreshStates /\ "revoked" \in SessionStates
        BY DEF RefreshStates, SessionStates
    <2>2. refresh' \in [Families -> [Gens -> RefreshStates]]
        BY <2>1, Types, EndedRefresh, EndedSession DEF Revoked
    <2>3. session' \in [Families -> [Gens -> SessionStates]]
        BY <2>1, Types, EndedRefresh, EndedSession DEF Revoked
    <2> QED
        BY <2>1, <2>2, <2>3, Types, EndedRefresh, EndedSession DEF Revoked, EndsTokens
<1> QED
    BY <1>1, <1>2

(* The steps that change no row of a family or a token.                     *)
StillRows == UNCHANGED <<family, refresh, session, rotated>>

LEMMA StillEnds == ASSUME SessionTypeOK, StillRows PROVE OnlyEnds
BY Types DEF StillRows, OnlyEnds, EndsFamilies, EndsTokens

(* Every step ends things, but for a login and a rotation.                  *)
LEMMA KindsOfSteps ==
    ASSUME Shapes, [Next]_vars,
           \A w \in Workers : ~Create(w) /\ ~Rotate(w)
    PROVE  OnlyEnds
<1>0. "revoked" \in RefreshStates /\ "revoked" \in SessionStates
    BY DEF RefreshStates, SessionStates
<1>1. ASSUME NEW w \in Workers,
             \/ Login(w) \/ Refuse(w) \/ Lookup(w) \/ LookupCached(w) \/ RotateReplay(w)
             \/ RevokeFails(w) \/ StartRevoke(w) \/ StartChange(w)
             \/ PrepareReset(w) \/ ResetPassword(w) \/ Die(w)
      PROVE  StillRows
    BY <1>1 DEF Login, Refuse, Lookup, LookupCached, RotateReplay, RevokeFails, StartRevoke,
                StartChange, PrepareReset, ResetPassword, Die, rows, History, StillRows
<1>2. ASSUME NEW w \in Workers, RevokeFamily1(w) PROVE OnlyEnds
    <2>1. EndsFamilies
        <3> DEFINE f == worker[w].f
        <3>1. f \in Families
            BY <1>2 DEF Shapes, Busy, Holds, RevokeFamily1
        <3>2. family' = [family EXCEPT ![f] = [family[f] EXCEPT !.status = "revoked"]]
            BY <1>2, <3>1, Types DEF RevokeFamily1, Shapes
        <3> HIDE DEF f
        <3> QED
            BY <3>1, <3>2, Types DEF EndsFamilies, FamilyRec, Shapes
    <2>2. EndsTokens /\ UNCHANGED rotated
        BY <1>2, Types DEF RevokeFamily1, EndsTokens, History, Shapes
    <2> QED
        BY <2>1, <2>2 DEF OnlyEnds
<1>3. ASSUME NEW w \in Workers, RevokeFamily2(w) PROVE OnlyEnds
    <2> DEFINE f == worker[w].f
               t == Ended(refresh[f], "active", "revoked")
    <2>1. EndsFamilies /\ UNCHANGED <<session, rotated>>
        BY <1>3, Types DEF RevokeFamily2, EndsFamilies, History, Shapes
    <2>2. f \in Families /\ refresh' = [refresh EXCEPT ![f] = t]
        BY <1>3 DEF RevokeFamily2, Shapes, Busy, Holds
    <2>3. /\ t \in [Gens -> RefreshStates]
          /\ \A g \in Gens : t[g] # refresh[f][g] => refresh[f][g] = "active" /\ t[g] = "revoked"
        BY <2>2, Types, EndedRefresh DEF Shapes
    <2> HIDE DEF f, t
    <2>4. EndsTokens
        BY <2>1, <2>2, <2>3, Types DEF EndsTokens, Shapes
    <2> QED
        BY <2>1, <2>4 DEF OnlyEnds
<1>4. ASSUME NEW w \in Workers, RevokeFamily3(w) PROVE OnlyEnds
    <2> DEFINE f == worker[w].f
               t == Ended(session[f], "live", "revoked")
    <2>1. EndsFamilies /\ UNCHANGED <<refresh, rotated>>
        BY <1>4, Types DEF RevokeFamily3, EndsFamilies, Shapes
    <2>2. f \in Families /\ session' = [session EXCEPT ![f] = t]
        BY <1>4 DEF RevokeFamily3, Shapes, Busy, Holds
    <2>3. /\ t \in [Gens -> SessionStates]
          /\ \A g \in Gens : t[g] # session[f][g] => t[g] = "revoked"
        BY <2>2, Types, EndedSession DEF Shapes
    <2> HIDE DEF f, t
    <2>4. EndsTokens
        BY <2>1, <2>2, <2>3, Types DEF EndsTokens, Shapes
    <2> QED
        BY <2>1, <2>4 DEF OnlyEnds
<1>5. ASSUME NEW w \in Workers, ChangePassword(w) PROVE OnlyEnds
    <2> DEFINE f == worker[w].f
    <2>1. EndsFamilies
        <3>1. user.version + 1 \in 0..MaxVersion
            BY <1>5, Types DEF ChangePassword, Shapes, Busy, Holds
        <3> QED
            BY <1>5, <3>1, Types DEF ChangePassword, EndsFamilies, Live, FamilyRec, Shapes
    <2>2. /\ refresh' \in [Families -> [Gens -> RefreshStates]]
          /\ \A h \in Families : refresh'[h] \in {refresh[h], Ended(refresh[h], "active", "revoked")}
        BY <1>5, Types, EndedRefresh DEF ChangePassword, Shapes
    <2>3. /\ session' \in [Families -> [Gens -> SessionStates]]
          /\ \A h \in Families : session'[h] \in {session[h], Ended(session[h], "live", "revoked")}
        BY <1>5, Types, EndedSession DEF ChangePassword, Shapes
    <2>4. ASSUME NEW h \in Families, NEW g \in Gens, refresh'[h][g] # refresh[h][g]
          PROVE  refresh[h][g] = "active" /\ refresh'[h][g] = "revoked"
        <3>1. refresh[h] \in [Gens -> RefreshStates]
            BY Types DEF Shapes
        <3> QED
            BY <2>2, <2>4, <3>1, EndedRefresh
    <2>5. ASSUME NEW h \in Families, NEW g \in Gens, session'[h][g] # session[h][g]
          PROVE  session'[h][g] = "revoked"
        <3>1. session[h] \in [Gens -> SessionStates]
            BY Types DEF Shapes
        <3> QED
            BY <2>3, <2>5, <3>1, EndedSession
    <2> QED
        BY <1>5, <2>1, <2>2, <2>3, <2>4, <2>5 DEF OnlyEnds, EndsTokens, ChangePassword, History
<1>6. ASSUME NEW w \in Workers, ResetRevoke(w) PROVE OnlyEnds
    BY <1>6, RevokedEnds DEF ResetRevoke, OnlyEnds, History, Shapes
<1>7. ASSUME NEW f \in Families, NEW g \in Gens, RevokeToken(f, g) PROVE OnlyEnds
    <2>1. EndsFamilies /\ UNCHANGED rotated
        BY <1>7, Types DEF RevokeToken, EndsFamilies, History, Shapes
    <2>2. CASE refresh[f][g] = "active" /\ refresh' = [refresh EXCEPT ![f][g] = "revoked"] /\ UNCHANGED session
        <3>1. refresh' = [refresh EXCEPT ![f] = [refresh[f] EXCEPT ![g] = "revoked"]]
            BY <2>2
        <3>2. refresh[f] \in [Gens -> RefreshStates]
            BY Types DEF Shapes
        <3>3. [refresh[f] EXCEPT ![g] = "revoked"] \in [Gens -> RefreshStates]
            BY <1>0, <3>2
        <3> QED
            BY <2>1, <2>2, <3>1, <3>2, <3>3, Types DEF OnlyEnds, EndsTokens, Shapes
    <2>3. CASE session' = [session EXCEPT ![f][g] = "revoked"] /\ UNCHANGED refresh
        <3>1. session' = [session EXCEPT ![f] = [session[f] EXCEPT ![g] = "revoked"]]
            BY <2>3
        <3>2. session[f] \in [Gens -> SessionStates]
            BY Types DEF Shapes
        <3>3. [session[f] EXCEPT ![g] = "revoked"] \in [Gens -> SessionStates]
            BY <1>0, <3>2
        <3> QED
            BY <2>1, <2>3, <3>1, <3>2, <3>3, Types DEF OnlyEnds, EndsTokens, Shapes
    <2> QED
        BY <1>7, <2>2, <2>3 DEF RevokeToken
<1>8. CASE AdminDisable
    BY <1>8, RevokedEnds DEF AdminDisable, OnlyEnds, History, Shapes
<1>9. CASE AdminEnable \/ UNCHANGED vars
    BY <1>9, StillEnds DEF AdminEnable, StillRows, History, vars, Shapes
<1> QED
    BY <1>1, <1>2, <1>3, <1>4, <1>5, <1>6, <1>7, <1>8, <1>9, StillEnds DEF Next, Shapes

-----------------------------------------------------------------------------
(***************************************************************************)
(* A login and a rotation, in terms of the rows they write.                 *)
(***************************************************************************)
Login1(f, out, auth) ==
    /\ family[f].status = "none" /\ out \subseteq Live
    /\ family'[f] = [status |-> "live", gen |-> 1, auth |-> auth]
    /\ \A h \in Families \ {f} :
          family'[h] = IF h \in out THEN [family[h] EXCEPT !.status = "revoked"] ELSE family[h]
    /\ refresh'[f] = [refresh[f] EXCEPT ![1] = "active"]
    /\ session'[f] = [session[f] EXCEPT ![1] = "live"]
    /\ \A h \in Families \ {f}, g \in Gens :
          /\ refresh'[h][g] # refresh[h][g] => refresh[h][g] = "active" /\ refresh'[h][g] = "revoked"
          /\ session'[h][g] # session[h][g] => session'[h][g] = "revoked"

(* The rows keep their types, whatever a step does to them.                 *)
RowTypes ==
    /\ user' \in [status : {"active", "reset_required", "disabled"}, version : 1..MaxVersion]
    /\ family' \in [Families -> FamilyRec]
    /\ refresh' \in [Families -> [Gens -> RefreshStates]]
    /\ session' \in [Families -> [Gens -> SessionStates]]

LEMMA CreateRows ==
    ASSUME Shapes, NEW w \in Workers, Create(w)
    PROVE  /\ \E f \in Families, out \in SUBSET Live :
                /\ Login1(f, out, user.version)
                /\ IF Room(Live) THEN out = {} ELSE Cardinality(out) = 1
           /\ RowTypes /\ UNCHANGED <<user, rotated>>
<1>1. PICK f \in Families, out \in SUBSET Live :
         /\ family[f].status = "none"
         /\ IF Room(Live) THEN out = {} ELSE RevokeOldest /\ Cardinality(out) = 1
         /\ family' = [h \in Families |->
              IF h = f THEN [status |-> "live", gen |-> 1, auth |-> worker[w].auth]
              ELSE IF h \in out THEN [family[h] EXCEPT !.status = "revoked"] ELSE family[h]]
         /\ refresh' = [h \in Families |->
              IF h = f THEN [refresh[h] EXCEPT ![1] = "active"]
              ELSE IF h \in out THEN Ended(refresh[h], "active", "revoked") ELSE refresh[h]]
         /\ session' = [h \in Families |->
              IF h = f THEN [session[h] EXCEPT ![1] = "live"]
              ELSE IF h \in out THEN Ended(session[h], "live", "revoked") ELSE session[h]]
    BY DEF Create
<1>2. worker[w].auth = user.version /\ UNCHANGED <<user, rotated>>
    BY DEF Create, Current, History
<1>3. /\ "active" \in RefreshStates /\ "live" \in SessionStates /\ 1 \in 0..MaxGen
      /\ user.version \in 0..MaxVersion
    BY SessionAssumption, Types DEF SessionAssumption, RefreshStates, SessionStates, Shapes
<1>4. family' \in [Families -> FamilyRec]
    BY <1>1, <1>2, <1>3, Types DEF FamilyRec, Shapes
<1>5. ASSUME NEW h \in Families
      PROVE  refresh'[h] \in [Gens -> RefreshStates] /\ session'[h] \in [Gens -> SessionStates]
    <2>1. refresh[h] \in [Gens -> RefreshStates] /\ session[h] \in [Gens -> SessionStates]
        BY Types DEF Shapes
    <2>2. /\ [refresh[h] EXCEPT ![1] = "active"] \in [Gens -> RefreshStates]
          /\ [session[h] EXCEPT ![1] = "live"] \in [Gens -> SessionStates]
        BY <1>3, <2>1
    <2>3. /\ Ended(refresh[h], "active", "revoked") \in [Gens -> RefreshStates]
          /\ Ended(session[h], "live", "revoked") \in [Gens -> SessionStates]
        BY <2>1, EndedRefresh, EndedSession
    <2>4. /\ refresh'[h] = IF h = f THEN [refresh[h] EXCEPT ![1] = "active"]
              ELSE IF h \in out THEN Ended(refresh[h], "active", "revoked") ELSE refresh[h]
          /\ session'[h] = IF h = f THEN [session[h] EXCEPT ![1] = "live"]
              ELSE IF h \in out THEN Ended(session[h], "live", "revoked") ELSE session[h]
        BY <1>1
    <2> QED
        BY <2>1, <2>2, <2>3, <2>4
<1>6. RowTypes
    <2>1. refresh' \in [Families -> [Gens -> RefreshStates]]
        BY <1>1, <1>5
    <2>2. session' \in [Families -> [Gens -> SessionStates]]
        BY <1>1, <1>5
    <2> QED
        BY <1>2, <1>4, <2>1, <2>2, Types DEF RowTypes, Shapes
<1>7. ASSUME NEW h \in Families \ {f}, NEW g \in Gens
      PROVE  /\ refresh'[h][g] # refresh[h][g] => refresh[h][g] = "active" /\ refresh'[h][g] = "revoked"
             /\ session'[h][g] # session[h][g] => session'[h][g] = "revoked"
    <2>1. refresh[h] \in [Gens -> RefreshStates] /\ session[h] \in [Gens -> SessionStates]
        BY Types DEF Shapes
    <2>2. /\ refresh'[h] \in {refresh[h], Ended(refresh[h], "active", "revoked")}
          /\ session'[h] \in {session[h], Ended(session[h], "live", "revoked")}
        BY <1>1
    <2> QED
        BY <2>1, <2>2, EndedRefresh, EndedSession
<1>8. Login1(f, out, user.version)
    BY <1>1, <1>2, <1>7 DEF Login1
<1> QED
    BY <1>1, <1>2, <1>6, <1>8

LEMMA RotateRows ==
    ASSUME Shapes, NEW w \in Workers, Rotate(w)
    PROVE  \E f \in Families, g \in Gens :
              /\ refresh[f][g] = "active" /\ family[f].status = "live" /\ g + 1 \in Gens
              /\ family' = [family EXCEPT ![f] = [family[f] EXCEPT !.gen = g + 1]]
              /\ refresh' = [refresh EXCEPT ![f] = [refresh[f] EXCEPT ![g] = "consumed", ![g + 1] = "active"]]
              /\ session' = [session EXCEPT ![f] = [session[f] EXCEPT ![g + 1] = "live"]]
              /\ rotated' = [rotated EXCEPT ![f] = [rotated[f] EXCEPT ![g] = rotated[f][g] + 1]]
              /\ UNCHANGED user
<1> DEFINE f == worker[w].f
           g == worker[w].g
<1>1. f \in Families /\ g \in Gens /\ g + 1 \in Gens
    BY DEF Rotate, Shapes, Busy, Holds
<1>2. /\ refresh[f][g] = "active" /\ f \in Live /\ Rotated(f, g, "consumed") /\ UNCHANGED user
    BY DEF Rotate
<1>3. family[f].status = "live"
    BY <1>2 DEF Live
<1> HIDE DEF f, g
<1>4. family' = [family EXCEPT ![f] = [family[f] EXCEPT !.gen = g + 1]]
    BY <1>1, <1>2, Types DEF Rotated, Shapes
<1>5. refresh' = [refresh EXCEPT ![f] = [refresh[f] EXCEPT ![g] = "consumed", ![g + 1] = "active"]]
    BY <1>1, <1>2, Types DEF Rotated, Shapes
<1>6. session' = [session EXCEPT ![f] = [session[f] EXCEPT ![g + 1] = "live"]]
    BY <1>1, <1>2, Types DEF Rotated, Shapes
<1>7. rotated' = [rotated EXCEPT ![f] = [rotated[f] EXCEPT ![g] = rotated[f][g] + 1]]
    BY <1>1, <1>2, Types DEF Rotated, Shapes
<1> QED
    BY <1>1, <1>2, <1>3, <1>4, <1>5, <1>6, <1>7

-----------------------------------------------------------------------------
(***************************************************************************)
(* Every step keeps the types and what requests hold.                       *)
(***************************************************************************)
LEMMA StepBusy == ASSUME Shapes, [Next]_vars PROVE Busy'
<1> USE DEF Shapes
<1>0. /\ user.version \in 1..MaxVersion /\ None \notin Families
      /\ \A f \in Families : family[f].auth \in 0..MaxVersion
    BY Types, SessionAssumption DEF SessionAssumption, FamilyRec
<1>1. ASSUME NEW w \in Workers, Login(w) PROVE Busy'
    <2> DEFINE r == [Idle EXCEPT !.pc = "login", !.auth = user.version]
    <2>1. worker' = [worker EXCEPT ![w] = r]
        BY <1>1 DEF Login
    <2>2. Idle \in WorkerRec /\ user.version \in 0..MaxVersion
        BY <1>0, IdleIsHarmless
    <2>4. r \in WorkerRec /\ Holds(r)
        BY <2>2 DEF WorkerRec, PCs, Holds
    <2> HIDE DEF r
    <2> QED
        BY <2>1, <2>4, WorkerMoves
<1>2. ASSUME NEW w \in Workers,
             Create(w) \/ Refuse(w) \/ Rotate(w) \/ RevokeFamily3(w) \/ RevokeFails(w)
             \/ ChangePassword(w) \/ Die(w)
      PROVE  Busy'
    <2>1. Done(w)
        BY <1>2 DEF Create, Refuse, Rotate, RevokeFamily3, RevokeFails, ChangePassword, Die
    <2> QED
        BY <2>1, Rests
<1>3. ASSUME NEW w \in Workers, Lookup(w) PROVE Busy'
    <2>1. PICK f \in Live, g \in Gens \ {MaxGen} :
             worker' = [worker EXCEPT ![w] =
              [pc |-> IF refresh[f][g] = "active" THEN "rotate" ELSE "revoke1",
               f |-> f, g |-> g, auth |-> family[f].auth, replay |-> refresh[f][g] # "active"]]
        BY <1>3 DEF Lookup
    <2> DEFINE r == [pc |-> IF refresh[f][g] = "active" THEN "rotate" ELSE "revoke1",
                     f |-> f, g |-> g, auth |-> family[f].auth, replay |-> refresh[f][g] # "active"]
    <2>2. f \in Families /\ g \in 0..MaxGen /\ g \in Gens /\ g + 1 \in Gens
        BY SessionAssumption DEF SessionAssumption, Live, Gens
    <2>3. (refresh[f][g] # "active") \in BOOLEAN /\ (IF refresh[f][g] = "active" THEN "rotate" ELSE "revoke1") \in PCs
        BY DEF PCs
    <2>4. r \in WorkerRec /\ Holds(r)
        BY <1>0, <2>2, <2>3 DEF WorkerRec, Holds
    <2> HIDE DEF r
    <2> QED
        BY <2>1, <2>4, WorkerMoves DEF r
<1>4. ASSUME NEW w \in Workers, LookupCached(w) PROVE Busy'
    <2>1. PICK f \in Families, g \in Gens \ {MaxGen}, auth \in 1..user.version :
             worker' = [worker EXCEPT ![w] =
                 [pc |-> "rotate", f |-> f, g |-> g, auth |-> auth, replay |-> FALSE]]
        BY <1>4 DEF LookupCached
    <2> DEFINE r == [pc |-> "rotate", f |-> f, g |-> g, auth |-> auth, replay |-> FALSE]
    <2>2. g \in 0..MaxGen /\ g \in Gens /\ g + 1 \in Gens /\ auth \in 0..MaxVersion
        BY <1>0, SessionAssumption DEF SessionAssumption, Gens
    <2>3. r \in WorkerRec /\ Holds(r)
        BY <2>2 DEF WorkerRec, Holds, PCs
    <2> HIDE DEF r
    <2> QED
        BY <2>1, <2>3, WorkerMoves DEF r
<1>5. ASSUME NEW w \in Workers, RotateReplay(w) PROVE Busy'
    <2> DEFINE r == [worker[w] EXCEPT !.pc = "revoke1", !.replay = TRUE]
    <2>1. worker' = [worker EXCEPT ![w] = r] /\ worker[w].pc = "rotate"
        BY <1>5 DEF RotateReplay, Busy
    <2>2. r \in WorkerRec /\ Holds(r)
        BY <2>1 DEF Busy, WorkerRec, Holds, PCs
    <2> HIDE DEF r
    <2> QED
        BY <2>1, <2>2, WorkerMoves
<1>6. ASSUME NEW w \in Workers, RevokeFamily1(w) PROVE Busy'
    <2>1. Goto(w, "revoke2") /\ worker[w].f \in Families
        BY <1>6 DEF RevokeFamily1, Busy, Holds
    <2> QED
        BY <2>1, GoesOn DEF PCs
<1>7. ASSUME NEW w \in Workers, RevokeFamily2(w) PROVE Busy'
    <2>1. Goto(w, "revoke3") /\ worker[w].f \in Families
        BY <1>7 DEF RevokeFamily2, Busy, Holds
    <2> QED
        BY <2>1, GoesOn DEF PCs
<1>8. ASSUME NEW w \in Workers, StartRevoke(w) PROVE Busy'
    <2>1. PICK f \in Live :
             worker' = [worker EXCEPT ![w] = [pc |-> "revoke1", f |-> f, g |-> 0, auth |-> 0, replay |-> FALSE]]
        BY <1>8 DEF StartRevoke, Idle
    <2> DEFINE r == [pc |-> "revoke1", f |-> f, g |-> 0, auth |-> 0, replay |-> FALSE]
    <2>2. r \in WorkerRec /\ Holds(r)
        BY SessionAssumption DEF SessionAssumption, WorkerRec, Holds, PCs, Live
    <2> HIDE DEF r
    <2> QED
        BY <2>1, <2>2, WorkerMoves DEF r
<1>9. ASSUME NEW w \in Workers, StartChange(w) PROVE Busy'
    <2>1. PICK f \in Live :
             worker' = [worker EXCEPT ![w] = [pc |-> "change", f |-> f, g |-> 0, auth |-> user.version, replay |-> FALSE]]
        BY <1>9 DEF StartChange, Idle
    <2> DEFINE r == [pc |-> "change", f |-> f, g |-> 0, auth |-> user.version, replay |-> FALSE]
    <2>2. user.version + 1 \in 1..MaxVersion
        BY <1>0, <1>9, SessionAssumption DEF SessionAssumption, StartChange
    <2>3. r \in WorkerRec /\ Holds(r)
        BY <1>0, <2>2, SessionAssumption DEF SessionAssumption, WorkerRec, Holds, PCs, Live
    <2> HIDE DEF r
    <2> QED
        BY <2>1, <2>3, WorkerMoves DEF r
<1>10. ASSUME NEW w \in Workers, PrepareReset(w) PROVE Busy'
    <2> DEFINE r == [Idle EXCEPT !.pc = "reset1", !.auth = user.version]
    <2>1. worker' = [worker EXCEPT ![w] = r]
        BY <1>10 DEF PrepareReset
    <2>2. Idle \in WorkerRec /\ user.version \in 0..MaxVersion
        BY <1>0, IdleIsHarmless
    <2>3. user.version + 1 \in 1..MaxVersion
        BY <1>0, <1>10, SessionAssumption DEF SessionAssumption, PrepareReset
    <2>4. r \in WorkerRec /\ Holds(r)
        BY <2>2, <2>3 DEF WorkerRec, PCs, Holds
    <2> HIDE DEF r
    <2> QED
        BY <2>1, <2>4, WorkerMoves
<1>11. ASSUME NEW w \in Workers, ResetRevoke(w) PROVE Busy'
    <2>1. CASE worker[w].pc = "reset1"
        BY <1>11, <2>1, GoesOn DEF ResetRevoke, PCs
    <2>2. CASE worker[w].pc # "reset1"
        BY <1>11, <2>2, Rests DEF ResetRevoke
    <2> QED
        BY <2>1, <2>2
<1>12. ASSUME NEW w \in Workers, ResetPassword(w) PROVE Busy'
    BY <1>12, GoesOn DEF ResetPassword, PCs
<1>13. CASE (\E f \in Families, g \in Gens : RevokeToken(f, g)) \/ AdminDisable \/ AdminEnable \/ UNCHANGED vars
    <2>1. UNCHANGED worker
        BY <1>13 DEF RevokeToken, AdminDisable, AdminEnable, vars
    <2> QED
        BY <2>1 DEF Busy
<1> QED
    BY <1>1, <1>2, <1>3, <1>4, <1>5, <1>6, <1>7, <1>8, <1>9, <1>10, <1>11, <1>12, <1>13 DEF Next

LEMMA StepUser ==
    ASSUME Shapes, [Next]_vars
    PROVE  user' \in [status : {"active", "reset_required", "disabled"}, version : 1..MaxVersion]
<1> DEFINE Users == [status : {"active", "reset_required", "disabled"}, version : 1..MaxVersion]
<1>0. user \in Users /\ MaxVersion \in Nat
    BY Types, SessionAssumption DEF Shapes, SessionAssumption
<1>1. ASSUME NEW w \in Workers, ChangePassword(w) PROVE user' \in Users
    <2>1. user.version + 1 \in 1..MaxVersion
        BY <1>1 DEF ChangePassword, Shapes, Busy, Holds
    <2> QED
        BY <1>0, <1>1, <2>1 DEF ChangePassword
<1>2. ASSUME NEW w \in Workers, PrepareReset(w) PROVE user' \in Users
    BY <1>0, <1>2 DEF PrepareReset
<1>3. ASSUME NEW w \in Workers, ResetPassword(w) PROVE user' \in Users
    <2>1. user.version + 1 \in 1..MaxVersion
        BY <1>3 DEF ResetPassword, Shapes, Busy, Holds
    <2> QED
        BY <1>0, <1>3, <2>1 DEF ResetPassword
<1>4. CASE AdminDisable \/ AdminEnable
    BY <1>0, <1>4 DEF AdminDisable, AdminEnable
<1>5. ASSUME UNCHANGED user PROVE user' \in Users
    BY <1>0, <1>5
<1>6. ASSUME NEW w \in Workers,
             \/ Login(w) \/ Create(w) \/ Refuse(w) \/ Lookup(w) \/ LookupCached(w) \/ Rotate(w)
             \/ RotateReplay(w) \/ RevokeFamily1(w) \/ RevokeFamily2(w) \/ RevokeFamily3(w)
             \/ RevokeFails(w) \/ StartRevoke(w) \/ StartChange(w) \/ ResetRevoke(w) \/ Die(w)
      PROVE  UNCHANGED user
    BY <1>6 DEF Login, Create, Refuse, Lookup, LookupCached, Rotate, RotateReplay, RevokeFamily1,
                RevokeFamily2, RevokeFamily3, RevokeFails, StartRevoke, StartChange, ResetRevoke, Die, rows
<1>7. CASE (\E f \in Families, g \in Gens : RevokeToken(f, g)) \/ UNCHANGED vars
    BY <1>0, <1>7 DEF RevokeToken, vars
<1> HIDE DEF Users
<1> QED
    BY <1>1, <1>2, <1>3, <1>4, <1>5, <1>6, <1>7 DEF Next, Users

(* What the histories say of a step: a family is added to those replayed    *)
(* only by the request that revoked it, or failed to.                       *)
Recorded ==
    \/ UNCHANGED <<replayed, unrevoked>>
    \/ \E w \in Workers : /\ worker[w].f \in Families
                           /\ replayed' \in {replayed, replayed \cup {worker[w].f}}
                           /\ worker[w].pc \in {"revoke2", "revoke3"} /\ UNCHANGED unrevoked
    \/ \E w \in Workers : /\ worker[w].f \in Families
                           /\ replayed' \in {replayed, replayed \cup {worker[w].f}}
                           /\ unrevoked' = unrevoked \cup {worker[w].f}

LEMMA StepHistory ==
    ASSUME Shapes, [Next]_vars
    PROVE  Recorded /\ faults' \in 0..MaxFaults /\ faults' >= faults
<1>0. faults \in 0..MaxFaults /\ MaxFaults \in Nat
    BY Types, SessionAssumption DEF Shapes, SessionAssumption
<1>1. ASSUME NEW w \in Workers, RevokeFamily3(w) PROVE Recorded /\ UNCHANGED faults
    BY <1>1 DEF RevokeFamily3, Recorded, Shapes, Busy, Holds
<1>2. ASSUME NEW w \in Workers, RevokeFails(w) PROVE Recorded /\ faults' = faults + 1 /\ faults < MaxFaults
    <2>1. worker[w].f \in Families /\ worker[w].pc \in {"revoke1", "revoke2", "revoke3"}
        BY <1>2 DEF RevokeFails, Shapes, Busy, Holds
    <2>2. /\ replayed' \in {replayed, replayed \cup {worker[w].f}}
          /\ unrevoked' = IF worker[w].pc = "revoke1" THEN unrevoked \cup {worker[w].f} ELSE unrevoked
          /\ faults' = faults + 1 /\ faults < MaxFaults
        BY <1>2 DEF RevokeFails
    <2> QED
        BY <2>1, <2>2 DEF Recorded
<1>3. ASSUME NEW w \in Workers, LookupCached(w) \/ Die(w)
      PROVE  UNCHANGED <<replayed, unrevoked>> /\ faults' = faults + 1 /\ faults < MaxFaults
    BY <1>3 DEF LookupCached, Die
<1>4. ASSUME NEW w \in Workers,
             \/ Login(w) \/ Create(w) \/ Refuse(w) \/ Lookup(w) \/ Rotate(w)
             \/ RotateReplay(w) \/ RevokeFamily1(w) \/ RevokeFamily2(w)
             \/ StartRevoke(w) \/ StartChange(w) \/ ChangePassword(w)
             \/ PrepareReset(w) \/ ResetRevoke(w) \/ ResetPassword(w)
      PROVE  UNCHANGED <<replayed, unrevoked, faults>>
    BY <1>4 DEF Login, Create, Refuse, Lookup, Rotate, RotateReplay, RevokeFamily1, RevokeFamily2,
                StartRevoke, StartChange, ChangePassword, PrepareReset, ResetRevoke, ResetPassword, History
<1>5. CASE (\E f \in Families, g \in Gens : RevokeToken(f, g)) \/ AdminDisable \/ AdminEnable \/ UNCHANGED vars
    BY <1>0, <1>5 DEF RevokeToken, AdminDisable, AdminEnable, vars, History, Recorded
<1> QED
    BY <1>0, <1>1, <1>2, <1>3, <1>4, <1>5 DEF Next, Recorded

(* A login or a rotation, or a step that only ends things.                  *)
LEMMA ThreeKinds ==
    ASSUME Shapes, [Next]_vars
    PROVE  OnlyEnds \/ (\E w \in Workers : Create(w)) \/ (\E w \in Workers : Rotate(w))
BY KindsOfSteps

LEMMA StepShapes == ASSUME Shapes, [Next]_vars PROVE Shapes'
<1>1. /\ family' \in [Families -> FamilyRec]
      /\ refresh' \in [Families -> [Gens -> RefreshStates]]
      /\ session' \in [Families -> [Gens -> SessionStates]]
      /\ rotated' \in [Families -> [Gens -> Nat]]
    <2>1. CASE OnlyEnds
        BY <2>1, Types DEF OnlyEnds, EndsFamilies, EndsTokens, Shapes
    <2>2. ASSUME NEW w \in Workers, Create(w)
          PROVE  RowTypes /\ UNCHANGED rotated
        BY <2>2, CreateRows
    <2>3. ASSUME NEW w \in Workers, Rotate(w) PROVE <1>1
        <3>1. PICK f \in Families, g \in Gens :
              /\ g + 1 \in Gens
              /\ family' = [family EXCEPT ![f] = [family[f] EXCEPT !.gen = g + 1]]
              /\ refresh' = [refresh EXCEPT ![f] = [refresh[f] EXCEPT ![g] = "consumed", ![g + 1] = "active"]]
              /\ session' = [session EXCEPT ![f] = [session[f] EXCEPT ![g + 1] = "live"]]
              /\ rotated' = [rotated EXCEPT ![f] = [rotated[f] EXCEPT ![g] = rotated[f][g] + 1]]
            BY <2>3, RotateRows
        <3>2. g + 1 \in 0..MaxGen
            BY <3>1 DEF Gens
        <3>3. /\ [family[f] EXCEPT !.gen = g + 1] \in FamilyRec
            BY <3>2, Types DEF FamilyRec, Shapes
        <3>4. [refresh[f] EXCEPT ![g] = "consumed", ![g + 1] = "active"] \in [Gens -> RefreshStates]
            BY <3>1, Types DEF RefreshStates, Shapes
        <3>5. [session[f] EXCEPT ![g + 1] = "live"] \in [Gens -> SessionStates]
            BY <3>1, Types DEF SessionStates, Shapes
        <3>6. [rotated[f] EXCEPT ![g] = rotated[f][g] + 1] \in [Gens -> Nat]
            BY <3>1, Types DEF Shapes
        <3> QED
            BY <3>1, <3>3, <3>4, <3>5, <3>6, Types DEF Shapes
    <2> QED
        BY <2>1, <2>2, <2>3, ThreeKinds, Types DEF RowTypes, Shapes
<1>2. replayed' \subseteq Families /\ unrevoked' \subseteq Families /\ faults' \in 0..MaxFaults
    BY StepHistory, Types DEF Recorded, Shapes
<1>3. user' \in [status : {"active", "reset_required", "disabled"}, version : 1..MaxVersion]
    BY StepUser
<1>4. SessionTypeOK'
    BY <1>1, <1>2, <1>3 DEF SessionTypeOK, FamilyRec, RefreshStates, SessionStates
<1> QED
    BY <1>4, StepBusy DEF Shapes

LEMMA InitShapes == ASSUME Init PROVE Shapes
<1>1. SessionTypeOK
    BY SessionAssumption DEF SessionAssumption, Init, SessionTypeOK, Gens
<1>2. Busy
    BY IdleIsHarmless DEF Init, Busy
<1> QED
    BY <1>1, <1>2 DEF Shapes

-----------------------------------------------------------------------------
(***************************************************************************)
(* The dead stay dead, and a family's tokens are a line of generations.     *)
(***************************************************************************)
LEMMA StepDead == ASSUME Shapes, [Next]_vars PROVE DeadStays
<1>1. CASE OnlyEnds
    BY <1>1 DEF OnlyEnds, EndsFamilies, EndsTokens, DeadStays
<1>2. ASSUME NEW w \in Workers, Create(w) PROVE DeadStays
    <2>1. PICK f \in Families, out \in SUBSET Live : Login1(f, out, user.version)
        BY <1>2, CreateRows
    <2>2. ASSUME NEW h \in Families, family[h].status = "revoked"
          PROVE  h # f /\ h \notin out
        BY <2>1, <2>2 DEF Login1, Live
    <2> QED
        BY <2>1, <2>2 DEF Login1, DeadStays
<1>3. ASSUME NEW w \in Workers, Rotate(w) PROVE DeadStays
    <2>1. PICK f \in Families, g \in Gens :
              /\ family[f].status = "live"
              /\ family' = [family EXCEPT ![f] = [family[f] EXCEPT !.gen = g + 1]]
              /\ refresh' = [refresh EXCEPT ![f] = [refresh[f] EXCEPT ![g] = "consumed", ![g + 1] = "active"]]
              /\ session' = [session EXCEPT ![f] = [session[f] EXCEPT ![g + 1] = "live"]]
        BY <1>3, RotateRows
    <2> QED
        BY <2>1, Types DEF DeadStays, Shapes
<1> QED
    BY <1>1, <1>2, <1>3, ThreeKinds

LEMMA EndsKeepLineage == ASSUME Shapes, Lineage, OnlyEnds PROVE Lineage'
<1>1. /\ \A f \in Families : family'[f].gen = family[f].gen
      /\ \A f \in Families : family'[f].status = "none" => family[f].status = "none"
      /\ \A f \in Families, g \in Gens :
            refresh'[f][g] # refresh[f][g] => refresh[f][g] = "active" /\ refresh'[f][g] = "revoked"
      /\ rotated' = rotated
    BY DEF OnlyEnds, EndsFamilies, EndsTokens
<1> QED
    BY <1>1 DEF Lineage, Beyond, Unborn, Spent, OnlyNewestRefreshes, ExchangedOnce

LEMMA StepLineage == ASSUME Shapes, Lineage, [Next]_vars PROVE Lineage'
<1>0. /\ rotated \in [Families -> [Gens -> Nat]]
      /\ \A f \in Families : family[f] \in FamilyRec /\ refresh[f] \in [Gens -> RefreshStates]
    BY Types DEF Shapes
<1>1. ASSUME NEW w \in Workers, Create(w) PROVE Lineage'
    <2>1. PICK f \in Families, out \in SUBSET Live : Login1(f, out, user.version)
        BY <1>1, CreateRows
    <2>2. rotated' = rotated
        BY <1>1, CreateRows
    <2>3. \A g \in Gens : refresh[f][g] = "none" /\ rotated[f][g] = 0
        <3>1. \A g \in Gens : g > family[f].gen
            BY <2>1 DEF Login1, Lineage, Unborn, Gens
        <3> QED
            BY <1>0, <3>1 DEF Lineage, Beyond, Spent
    <2>4. 1 \in Gens /\ refresh'[f] = [refresh[f] EXCEPT ![1] = "active"] /\ family'[f].gen = 1
          /\ family'[f].status = "live"
        BY <2>1, SessionAssumption DEF SessionAssumption, Login1, Gens
    <2>5. ASSUME NEW h \in Families, h # f
          PROVE  /\ family'[h].gen = family[h].gen
                 /\ family'[h].status = "none" => family[h].status = "none"
                 /\ \A g \in Gens : refresh'[h][g] # refresh[h][g] => refresh[h][g] = "active" /\ refresh'[h][g] = "revoked"
        <3>1. family'[h] \in {family[h], [family[h] EXCEPT !.status = "revoked"]}
            BY <2>1, <2>5 DEF Login1
        <3>2. /\ family'[h].gen = family[h].gen
              /\ family'[h].status = "none" => family[h].status = "none"
            BY <1>0, <3>1 DEF FamilyRec
        <3>3. \A g \in Gens : refresh'[h][g] # refresh[h][g] =>
                                  refresh[h][g] = "active" /\ refresh'[h][g] = "revoked"
            BY <2>1, <2>5 DEF Login1
        <3> QED
            BY <3>2, <3>3
    <2>6. ASSUME NEW h \in Families, NEW g \in Gens
          PROVE  /\ g > family'[h].gen => refresh'[h][g] = "none"
                 /\ refresh'[h][g] = "active" => g = family'[h].gen
        <3>1. CASE h # f
            BY <2>5, <3>1 DEF Lineage, Beyond, OnlyNewestRefreshes
        <3>2. CASE h = f /\ g = 1
            BY <2>4, <3>2
        <3>3. CASE h = f /\ g # 1
            BY <1>0, <2>3, <2>4, <3>3
        <3> QED
            BY <3>1, <3>2, <3>3
    <2>7. Unborn'
        BY <2>4, <2>5 DEF Lineage, Unborn
    <2>8. Spent' /\ ExchangedOnce'
        BY <1>0, <2>2, <2>3, <2>5 DEF Lineage, Spent, ExchangedOnce
    <2> QED
        BY <2>6, <2>7, <2>8 DEF Lineage, Beyond, OnlyNewestRefreshes
<1>2. ASSUME NEW w \in Workers, Rotate(w) PROVE Lineage'
    <2>1. PICK f \in Families, g \in Gens :
              /\ refresh[f][g] = "active" /\ family[f].status = "live" /\ g + 1 \in Gens
              /\ family' = [family EXCEPT ![f] = [family[f] EXCEPT !.gen = g + 1]]
              /\ refresh' = [refresh EXCEPT ![f] = [refresh[f] EXCEPT ![g] = "consumed", ![g + 1] = "active"]]
              /\ rotated' = [rotated EXCEPT ![f] = [rotated[f] EXCEPT ![g] = rotated[f][g] + 1]]
        BY <1>2, RotateRows
    <2>2. g = family[f].gen /\ refresh[f][g + 1] = "none" /\ rotated[f][g] = 0 /\ rotated[f][g + 1] = 0
        <3>1. g = family[f].gen
            BY <2>1 DEF Lineage, OnlyNewestRefreshes
        <3>2. refresh[f][g + 1] = "none"
            BY <2>1, <3>1 DEF Lineage, Beyond, Gens
        <3>3. ~(rotated[f][g] > 0) /\ ~(rotated[f][g + 1] > 0)
            BY <2>1, <3>2 DEF Lineage, Spent
        <3>4. rotated[f][g] \in Nat /\ rotated[f][g + 1] \in Nat
            BY <1>0, <2>1
        <3> QED
            BY <3>1, <3>2, <3>3, <3>4
    <2>3. /\ family'[f].gen = g + 1 /\ family'[f].status = "live"
          /\ refresh'[f][g] = "consumed" /\ refresh'[f][g + 1] = "active"
          /\ rotated'[f][g] = 1 /\ rotated'[f][g + 1] = 0
        <3>1. g # g + 1
            BY DEF Gens
        <3> QED
            BY <1>0, <2>1, <2>2, <3>1, Types DEF FamilyRec, Shapes
    <2>4. \A k \in Gens \ {g, g + 1} : refresh'[f][k] = refresh[f][k] /\ rotated'[f][k] = rotated[f][k]
        BY <1>0, <2>1, Types DEF Shapes
    <2>5. \A h \in Families \ {f} : family'[h] = family[h] /\ refresh'[h] = refresh[h] /\ rotated'[h] = rotated[h]
        BY <1>0, <2>1, Types DEF Shapes
    <2>6. ASSUME NEW h \in Families, NEW k \in Gens
          PROVE  /\ k > family'[h].gen => refresh'[h][k] = "none"
                 /\ rotated'[h][k] > 0 => refresh'[h][k] \notin {"none", "active"}
                 /\ refresh'[h][k] = "active" => k = family'[h].gen
                 /\ rotated'[h][k] <= 1
        <3>1. CASE h # f
            BY <2>5, <3>1 DEF Lineage, Beyond, Spent, OnlyNewestRefreshes, ExchangedOnce
        <3>2. CASE h = f /\ k \in {g, g + 1}
            BY <2>3, <3>2 DEF Gens
        <3>3. CASE h = f /\ k \notin {g, g + 1}
            BY <2>2, <2>3, <2>4, <3>3 DEF Lineage, Beyond, Spent, OnlyNewestRefreshes, ExchangedOnce, Gens
        <3> QED
            BY <3>1, <3>2, <3>3
    <2>7. Unborn'
        BY <2>3, <2>5 DEF Lineage, Unborn
    <2> QED
        BY <2>6, <2>7 DEF Lineage, Beyond, Spent, OnlyNewestRefreshes, ExchangedOnce
<1> QED
    BY <1>1, <1>2, EndsKeepLineage, ThreeKinds

-----------------------------------------------------------------------------
(***************************************************************************)
(* A revocation that has begun has revoked its family.                      *)
(***************************************************************************)
LEMMA StepEnding == ASSUME Shapes, Ending, [Next]_vars PROVE Ending'
<1> DEFINE Still(v) == worker'[v] = worker[v] \/ worker'[v].pc \notin {"revoke2", "revoke3"}
<1>0. \A v \in Workers : worker[v].pc \in {"revoke1", "revoke2", "revoke3"} => worker[v].f \in Families
    BY DEF Shapes, Busy, Holds
<1>1. ASSUME NEW w \in Workers, RevokeFamily1(w) PROVE Ending'
    <2>1. /\ family'[worker[w].f].status = "revoked"
          /\ worker'[w].f = worker[w].f
          /\ \A v \in Workers \ {w} : worker'[v] = worker[v]
        BY <1>0, <1>1, Types DEF RevokeFamily1, Goto, Shapes, Busy, WorkerRec, FamilyRec
    <2> QED
        BY <1>0, <2>1, StepDead DEF Ending, DeadStays
<1>2. ASSUME NEW w \in Workers, RevokeFamily2(w) PROVE Ending'
    <2>1. /\ worker[w].pc = "revoke2" /\ worker'[w].f = worker[w].f
          /\ \A v \in Workers \ {w} : worker'[v] = worker[v]
          /\ UNCHANGED family
        BY <1>2 DEF RevokeFamily2, Goto, Shapes, Busy, WorkerRec
    <2> QED
        BY <2>1 DEF Ending
<1>3. ASSUME NEW w \in Workers,
             Create(w) \/ Refuse(w) \/ Rotate(w) \/ RevokeFamily3(w) \/ RevokeFails(w)
             \/ ChangePassword(w) \/ Die(w)
      PROVE  \A v \in Workers : Still(v)
    <2>1. Done(w)
        BY <1>3 DEF Create, Refuse, Rotate, RevokeFamily3, RevokeFails, ChangePassword, Die
    <2> QED
        BY <2>1 DEF Done, Idle, Shapes, Busy
<1>4. ASSUME NEW w \in Workers,
             Login(w) \/ StartRevoke(w) \/ StartChange(w) \/ PrepareReset(w)
      PROVE  \A v \in Workers : Still(v)
    BY <1>4 DEF Login, StartRevoke, StartChange, PrepareReset, Idle, Shapes, Busy
<1>5. ASSUME NEW w \in Workers, Lookup(w) \/ LookupCached(w) \/ RotateReplay(w)
      PROVE  \A v \in Workers : Still(v)
    BY <1>5 DEF Lookup, LookupCached, RotateReplay, Shapes, Busy, WorkerRec
<1>6. ASSUME NEW w \in Workers, ResetRevoke(w) \/ ResetPassword(w)
      PROVE  \A v \in Workers : Still(v)
    <2>1. Goto(w, "reset2") \/ Goto(w, "reset3") \/ Done(w)
        BY <1>6 DEF ResetRevoke, ResetPassword
    <2>2. ASSUME NEW pc \in {"reset2", "reset3"}, Goto(w, pc) PROVE \A v \in Workers : Still(v)
        BY <2>2 DEF Goto, Shapes, Busy, WorkerRec
    <2>3. CASE Done(w)
        BY <2>3 DEF Done, Idle, Shapes, Busy
    <2> QED
        BY <2>1, <2>2, <2>3
<1>7. ASSUME (\E f \in Families, g \in Gens : RevokeToken(f, g)) \/ AdminDisable \/ AdminEnable \/ UNCHANGED vars
      PROVE  UNCHANGED worker
    BY <1>7 DEF RevokeToken, AdminDisable, AdminEnable, vars
<1>8. ASSUME \A v \in Workers : Still(v) PROVE Ending'
    <2>1. DeadStays
        BY StepDead
    <2>2. ASSUME NEW v \in Workers, worker'[v].pc \in {"revoke2", "revoke3"}
          PROVE  family'[worker'[v].f].status = "revoked"
        <3>1. worker'[v] = worker[v]
            BY <1>8, <2>2
        <3>2. worker[v].f \in Families /\ family[worker[v].f].status = "revoked"
            BY <1>0, <2>2, <3>1 DEF Ending
        <3> QED
            BY <2>1, <3>1, <3>2 DEF DeadStays
    <2> QED
        BY <2>2 DEF Ending
<1>9. (\A v \in Workers : Still(v)) \/ (\E w \in Workers : RevokeFamily1(w) \/ RevokeFamily2(w))
    BY <1>3, <1>4, <1>5, <1>6, <1>7 DEF Next
<1> HIDE DEF Still
<1> QED
    BY <1>1, <1>2, <1>8, <1>9

LEMMA StepReplay ==
    ASSUME Shapes, Ending, ReplayEndsFamily, [Next]_vars
    PROVE  ReplayEndsFamily'
<1>1. Recorded /\ DeadStays /\ replayed \subseteq Families
    BY StepHistory, StepDead, Types DEF Shapes
<1> QED
    BY <1>1 DEF Recorded, DeadStays, Ending, ReplayEndsFamily

-----------------------------------------------------------------------------
(***************************************************************************)
(* The device limit: a login takes a free place, or that of one family.     *)
(***************************************************************************)
LEMMA StepFew == ASSUME Shapes, Few, [Next]_vars PROVE Few'
<1>0. IsFiniteSet(Live) /\ Cardinality(Live) \in Nat /\ Cardinality(Live) <= MaxFamilies /\ MaxFamilies \in Nat \ {0}
    BY FS_CardinalityType, SessionAssumption DEF Few, DeviceLimit, SessionAssumption
<1>1. ASSUME Live' \subseteq Live PROVE Few'
    <2>1. IsFiniteSet(Live') /\ Cardinality(Live') <= Cardinality(Live) /\ Cardinality(Live') \in Nat
        BY <1>0, <1>1, FS_Subset, FS_CardinalityType
    <2> QED
        BY <1>0, <2>1 DEF Few, DeviceLimit
<1>2. CASE OnlyEnds
    BY <1>1, <1>2 DEF OnlyEnds, EndsFamilies, Live
<1>3. ASSUME NEW w \in Workers, Rotate(w) PROVE Few'
    <2>1. PICK f \in Families, g \in Gens :
              family' = [family EXCEPT ![f] = [family[f] EXCEPT !.gen = g + 1]]
        BY <1>3, RotateRows
    <2>2. Live' \subseteq Live
        BY <2>1, Types DEF Live, Shapes, FamilyRec
    <2> QED
        BY <1>1, <2>2
<1>4. ASSUME NEW w \in Workers, Create(w) PROVE Few'
    <2>1. PICK f \in Families, out \in SUBSET Live :
              /\ Login1(f, out, user.version)
              /\ IF Room(Live) THEN out = {} ELSE Cardinality(out) = 1
        BY <1>4, CreateRows
    <2>2. f \notin Live /\ Live' \subseteq (Live \ out) \cup {f}
        <3>1. ASSUME NEW h \in Live', h # f PROVE h \in Live \ out
            <4>1. h \in Families /\ family'[h].status = "live"
                BY <3>1 DEF Live
            <4>2. family'[h] = IF h \in out THEN [family[h] EXCEPT !.status = "revoked"] ELSE family[h]
                BY <2>1, <3>1, <4>1 DEF Login1
            <4>3. family[h] \in FamilyRec
                BY <4>1, Types DEF Shapes
            <4>4. h \notin out
                BY <4>1, <4>2, <4>3 DEF FamilyRec
            <4> QED
                BY <4>1, <4>2, <4>4 DEF Live
        <3> QED
            BY <2>1, <3>1 DEF Login1, Live
    <2> DEFINE Rest == Live \ out
    <2>3. IsFiniteSet(Rest) /\ Cardinality(Rest) \in Nat /\ Cardinality(Rest) < MaxFamilies
        <3>1. CASE Room(Live)
            <4>1. Rest = Live
                BY <2>1, <3>1
            <4> QED
                BY <1>0, <3>1, <4>1 DEF Room
        <3>2. CASE ~Room(Live)
            <4>1. IsFiniteSet(out) /\ Cardinality(out) = 1
                BY <1>0, <2>1, <3>2, FS_Subset
            <4>2. PICK x : out = {x}
                BY <4>1, FS_Singleton
            <4>3. x \in Live /\ Rest = Live \ {x}
                BY <4>2
            <4> HIDE DEF Rest
            <4>4. IsFiniteSet(Rest) /\ Cardinality(Rest) = Cardinality(Live) - 1
                BY <1>0, <4>3, FS_RemoveElement
            <4>5. Cardinality(Rest) \in Nat
                BY <4>4, FS_CardinalityType
            <4> QED
                BY <1>0, <4>4, <4>5
        <3> QED
            BY <3>1, <3>2
    <2>4. f \notin Rest
        BY <2>2
    <2> HIDE DEF Rest
    <2>5. IsFiniteSet(Rest \cup {f}) /\ Cardinality(Rest \cup {f}) = Cardinality(Rest) + 1
        BY <2>3, <2>4, FS_AddElement
    <2>6. Live' \subseteq Rest \cup {f}
        BY <2>2 DEF Rest
    <2>7. IsFiniteSet(Live') /\ Cardinality(Live') <= Cardinality(Rest \cup {f}) /\ Cardinality(Live') \in Nat
        BY <2>5, <2>6, FS_Subset, FS_CardinalityType
    <2> QED
        BY <1>0, <2>3, <2>5, <2>7 DEF Few, DeviceLimit
<1> QED
    BY <1>2, <1>3, <1>4, ThreeKinds

-----------------------------------------------------------------------------
(***************************************************************************)
(* No session outlives the password: while no reset is before its second    *)
(* revocation, what is live was created, or kept, at the current version.   *)
(***************************************************************************)
LEMMA ResetsStay ==
    ASSUME Shapes, [Next]_vars,
           \A w \in Workers : ~ResetRevoke(w) /\ ~Die(w),
           NEW v \in Workers, worker[v].pc = "reset3"
    PROVE  worker'[v].pc = "reset3"
<1> DEFINE Moved(w) == \A u \in Workers \ {w} : worker'[u] = worker[u]
<1>1. ASSUME NEW w \in Workers,
             Create(w) \/ Refuse(w) \/ Rotate(w) \/ RevokeFamily3(w) \/ RevokeFails(w)
             \/ ChangePassword(w)
      PROVE  worker[w].pc # "reset3" /\ Moved(w)
    <2>1. Done(w) /\ worker[w].pc # "reset3"
        BY <1>1 DEF Create, Refuse, Rotate, RevokeFamily3, RevokeFails, ChangePassword
    <2> QED
        BY <2>1 DEF Done, Shapes, Busy
<1>2. ASSUME NEW w \in Workers,
             Login(w) \/ StartRevoke(w) \/ StartChange(w) \/ PrepareReset(w)
      PROVE  worker[w].pc # "reset3" /\ Moved(w)
    BY <1>2 DEF Login, StartRevoke, StartChange, PrepareReset, Shapes, Busy
<1>3. ASSUME NEW w \in Workers, Lookup(w) \/ LookupCached(w) \/ RotateReplay(w)
      PROVE  worker[w].pc # "reset3" /\ Moved(w)
    BY <1>3 DEF Lookup, LookupCached, RotateReplay, Shapes, Busy
<1>4. ASSUME NEW w \in Workers, RevokeFamily1(w) \/ RevokeFamily2(w) \/ ResetPassword(w)
      PROVE  worker[w].pc # "reset3" /\ Moved(w)
    BY <1>4 DEF RevokeFamily1, RevokeFamily2, ResetPassword, Goto, Shapes, Busy
<1>5. ASSUME (\E f \in Families, g \in Gens : RevokeToken(f, g)) \/ AdminDisable \/ AdminEnable \/ UNCHANGED vars
      PROVE  UNCHANGED worker
    BY <1>5 DEF RevokeToken, AdminDisable, AdminEnable, vars
<1>6. UNCHANGED worker \/ \E w \in Workers : worker[w].pc # "reset3" /\ Moved(w)
    BY <1>1, <1>2, <1>3, <1>4, <1>5 DEF Next
<1> QED
    BY <1>6

(* What is live was live at the same version of the password.               *)
KeepsAuths ==
    /\ user'.version = user.version
    /\ \A f \in Live' : f \in Live /\ family'[f].auth = family[f].auth

LEMMA StepFresh ==
    ASSUME Shapes, NoSessionOutlivesPassword, [Next]_vars,
           \A w \in Workers : worker'[w].pc # "reset3", faults' = 0
    PROVE  \A f \in Live' : family'[f].auth = user'.version
<1> DEFINE Goal == \A f \in Live' : family'[f].auth = user'.version
<1>0. /\ faults = 0 /\ user.version \in Nat
      /\ \A f \in Families : family[f] \in FamilyRec
    BY StepHistory, Types DEF Shapes
<1>1. ASSUME NEW w \in Workers, ResetRevoke(w) PROVE Goal
    <2>1. Live' = {}
        BY <1>0, <1>1 DEF ResetRevoke, Revoked, Live, FamilyRec
    <2> QED
        BY <2>1
<1>2. CASE AdminDisable
    <2>1. Live' = {}
        BY <1>0, <1>2 DEF AdminDisable, Revoked, Live, FamilyRec
    <2> QED
        BY <2>1
<1>3. ASSUME NEW w \in Workers, Die(w) PROVE FALSE
    BY <1>0, <1>3 DEF Die
<1>4. ASSUME NEW w \in Workers, ResetPassword(w) PROVE FALSE
    BY <1>4 DEF ResetPassword, Goto, Shapes, Busy, WorkerRec
<1>5. ASSUME NEW w \in Workers, ChangePassword(w) PROVE Goal
    <2>1. user'.version = user.version + 1
        BY <1>5, Types DEF ChangePassword, Shapes
    <2>2. ASSUME NEW f \in Live' PROVE family'[f].auth = user.version + 1
        BY <1>0, <1>5, <2>2 DEF ChangePassword, Live, FamilyRec
    <2> QED
        BY <2>1, <2>2
<1>6. ASSUME \A w \in Workers : ~ResetRevoke(w) /\ ~Die(w)
      PROVE  \A f \in Live : family[f].auth = user.version
    BY <1>0, <1>6, ResetsStay DEF NoSessionOutlivesPassword
<1>7. ASSUME NEW w \in Workers, Create(w), \A f \in Live : family[f].auth = user.version PROVE Goal
    <2>1. PICK f \in Families, out \in SUBSET Live : Login1(f, out, user.version)
        BY <1>7, CreateRows
    <2>2. user' = user
        BY <1>7, CreateRows
    <2>3. ASSUME NEW h \in Live', h # f PROVE family'[h].auth = user.version
        <3>1. h \in Families /\ family'[h].status = "live" /\ family[h] \in FamilyRec
            BY <1>0, <2>3 DEF Live
        <3>2. family'[h] = IF h \in out THEN [family[h] EXCEPT !.status = "revoked"] ELSE family[h]
            BY <2>1, <2>3, <3>1 DEF Login1
        <3>3. h \in Live /\ family'[h] = family[h]
            BY <3>1, <3>2 DEF FamilyRec, Live
        <3> QED
            BY <1>7, <3>3
    <2>4. family'[f].auth = user.version
        BY <2>1 DEF Login1
    <2> QED
        BY <2>2, <2>3, <2>4
<1>8. ASSUME NEW w \in Workers, Rotate(w) PROVE KeepsAuths
    <2>1. PICK f \in Families, g \in Gens :
              family' = [family EXCEPT ![f] = [family[f] EXCEPT !.gen = g + 1]] /\ UNCHANGED user
        BY <1>8, RotateRows
    <2> QED
        BY <1>0, <2>1, Types DEF KeepsAuths, Live, FamilyRec, Shapes
<1>9. ASSUME NEW w \in Workers, RevokeFamily1(w) PROVE KeepsAuths
    BY <1>0, <1>9, Types DEF RevokeFamily1, KeepsAuths, Live, FamilyRec, Shapes
<1>10. ASSUME NEW w \in Workers,
             \/ Login(w) \/ Refuse(w) \/ Lookup(w) \/ LookupCached(w) \/ RotateReplay(w)
             \/ RevokeFamily2(w) \/ RevokeFamily3(w) \/ RevokeFails(w) \/ StartRevoke(w)
             \/ StartChange(w) \/ PrepareReset(w)
       PROVE  KeepsAuths
    <2>1. UNCHANGED family
        BY <1>10 DEF Login, Refuse, Lookup, LookupCached, RotateReplay, RevokeFamily2,
                     RevokeFamily3, RevokeFails, StartRevoke, StartChange, PrepareReset, rows
    <2>2. user'.version = user.version
        BY <1>10, Types DEF Login, Refuse, Lookup, LookupCached, RotateReplay, RevokeFamily2,
                     RevokeFamily3, RevokeFails, StartRevoke, StartChange, PrepareReset, rows, Shapes
    <2> QED
        BY <2>1, <2>2 DEF KeepsAuths, Live
<1>11. ASSUME (\E f \in Families, g \in Gens : RevokeToken(f, g)) \/ AdminEnable \/ UNCHANGED vars
       PROVE  KeepsAuths
    <2>1. UNCHANGED family /\ user'.version = user.version
        BY <1>11, Types DEF RevokeToken, AdminEnable, vars, Shapes
    <2> QED
        BY <2>1 DEF KeepsAuths, Live
<1>12. ASSUME KeepsAuths, \A f \in Live : family[f].auth = user.version PROVE Goal
    BY <1>12 DEF KeepsAuths
<1>13. \/ Goal
       \/ KeepsAuths \/ (\E w \in Workers : Create(w))
    BY <1>1, <1>2, <1>3, <1>4, <1>5, <1>8, <1>9, <1>10, <1>11 DEF Next
<1> HIDE DEF Goal
<1>14. Goal \/ \A f \in Live : family[f].auth = user.version
    BY <1>1, <1>3, <1>6
<1>15. Goal
    BY <1>7, <1>12, <1>13, <1>14
<1> QED
    BY <1>15 DEF Goal

-----------------------------------------------------------------------------
(***************************************************************************)
(* The inductive invariant, and what follows from it.                       *)
(***************************************************************************)
LEMMA InitSessions == ASSUME Init PROVE SessionInv
<1>1. Shapes
    BY InitShapes
<1>2. Lineage
    BY DEF Init, Lineage, Beyond, Unborn, Spent, OnlyNewestRefreshes, ExchangedOnce
<1>3. Ending /\ ReplayEndsFamily
    BY DEF Init, Ending, ReplayEndsFamily, Idle
<1>4. Live = {}
    BY DEF Init, Live
<1>5. Few
    BY <1>4, FS_EmptySet, SessionAssumption DEF Few, DeviceLimit, SessionAssumption
<1>6. NoSessionOutlivesPassword
    BY <1>4 DEF NoSessionOutlivesPassword
<1> QED
    BY <1>1, <1>2, <1>3, <1>5, <1>6 DEF SessionInv

LEMMA StepSessions == ASSUME SessionInv, [Next]_vars PROVE SessionInv'
<1>1. Shapes' /\ Lineage' /\ Ending' /\ ReplayEndsFamily' /\ Few'
    BY StepShapes, StepLineage, StepEnding, StepReplay, StepFew DEF SessionInv
<1>2. NoSessionOutlivesPassword'
    BY StepFresh DEF SessionInv, NoSessionOutlivesPassword
<1> QED
    BY <1>1, <1>2 DEF SessionInv

LEMMA SessionSteps == SessionSpec => []SessionInv
<1>1. Init => SessionInv
    BY InitSessions
<1>2. SessionInv /\ [Next]_vars => SessionInv'
    BY StepSessions
<1> QED
    BY <1>1, <1>2, PTL DEF SessionSpec

(* Whatever tabs, stale lookups, resets and administrators do, a family has *)
(* one token to exchange, each is exchanged once, a replay ends its family, *)
(* the device limit holds and no session outlives the password.             *)
THEOREM SessionsAreSafe == SessionSpec => []SessionSafety
<1>1. SessionInv => SessionSafety
    BY DEF SessionInv, Shapes, Lineage, Few, SessionSafety
<1> QED
    BY <1>1, SessionSteps, PTL

(* A revoked family is never revived nor given a token, although rotations  *)
(* run between the three statements that revoke it.                         *)
THEOREM RevokedStayDead == SessionSpec => RevokedFamilyIsDead
<1>1. SessionInv /\ [Next]_vars => DeadStays
    BY StepDead DEF SessionInv
<1>2. SessionInv /\ [Next]_vars =>
        [\A f \in Families : family[f].status = "revoked" =>
          /\ family'[f] = family[f]
          /\ \A g \in Gens : /\ refresh'[f][g] = "active" => refresh[f][g] = "active"
                             /\ session'[f][g] = "live" => session[f][g] = "live"]_vars
    BY <1>1 DEF DeadStays
<1> QED
    BY <1>2, SessionSteps, PTL DEF SessionSpec, RevokedFamilyIsDead

-----------------------------------------------------------------------------
(* Quota.  What is proved of the tables is proved of the few transactions   *)
(* that change them, whoever runs them: an attempt, its job or the sweep.   *)

Resv == [status : {"none", "reserved", "recon", "settled", "released"}, cost : Costs \cup {0},
         actual : Costs \cup {0}, at : Periods, live : BOOLEAN, by : 0..MaxAttempts]
Window == [reserved : Nat, settled : Nat, overage : Nat]
SlotStatus == {"none", "held", "over", "released"}

(* The tables a closing touches, and what is to hold of them.               *)
Tables ==
    resv \in [Claims -> Resv] /\ slot \in [Claims -> SlotStatus] /\ win \in [Periods -> Window]
Countable ==
    \A p \in Periods : IsFiniteSet(Coins(Reserved(p), Claims)) /\ IsFiniteSet(Coins(Settled(p), Claims))
QuotaBooks ==
    /\ Tables /\ Countable /\ WindowsAgree /\ OverrunIsRecorded
    /\ SlotLimit /\ SlotFollowsReservation

(* The attempt that has the claim is its latest, and only while the claim   *)
(* is reserving.  What is on its way to be settled is of a committed claim. *)
Engaged == {"quota", "run", "open", "abort", "orphan"}
AttemptsFollow ==
    \A c \in Claims, a \in Attempts :
        /\ att[c][a] \in Engaged => a = claim[c].seq /\ claim[c].status = "reserving"
        /\ att[c][a] \in {"settle", "enqueue_settle"} => claim[c].status = "committed"
SettledIsCommitted ==
    \A c \in Claims :
        \/ resv[c].status = "settled" \/ sweep[c] = "settle" \/ job[c]["settle"].state # "none"
        => claim[c].status = "committed"

QuotaInv ==
    QuotaTypeOK /\ QuotaBooks /\ AttemptsFollow /\ SettledIsCommitted /\ AdmittedIsCounted

LEMMA QuotaFacts ==
    ASSUME QuotaAssumption
    PROVE  /\ \A n \in Costs \cup {0} : n \in Nat
           /\ Limit \in Nat /\ Burst \in Nat /\ Slots \in Nat /\ IsFiniteSet(Claims)
           /\ 0 \in Periods /\ MaxAttempts \in Nat /\ MaxTries \in Nat /\ MaxQuotaFaults \in Nat
  BY DEF QuotaAssumption

LEMMA PosIs == ASSUME NEW n \in Int PROVE Pos(n) \in Nat /\ (n >= 0 => Pos(n) = n) /\ (n < 0 => Pos(n) = 0)
  BY DEF Pos

-----------------------------------------------------------------------------
(* What a reservation adds to its window, and to none else.                 *)
HeldIn(r, p) == IF r.status \in {"reserved", "recon"} /\ r.at = p THEN r.cost ELSE 0
SettledIn(r, p) == IF r.status = "settled" /\ r.at = p THEN r.actual ELSE 0

LEMMA WindowRows ==
    ASSUME NEW p \in Periods
    PROVE  /\ Reserved(p) = [c \in Claims |-> HeldIn(resv[c], p)]
           /\ Settled(p) = [c \in Claims |-> SettledIn(resv[c], p)]
           /\ Reserved(p)' = [c \in Claims |-> HeldIn(resv'[c], p)]
           /\ Settled(p)' = [c \in Claims |-> SettledIn(resv'[c], p)]
  BY DEF Reserved, Settled, Held, HeldIn, SettledIn

(* The sums of a window follow the one reservation a step changes.          *)
LEMMA SumsFollow ==
    ASSUME QuotaAssumption, resv \in [Claims -> Resv], resv' \in [Claims -> Resv], Countable,
           NEW c \in Claims, \A d \in Claims \ {c} : resv'[d] = resv[d], NEW p \in Periods
    PROVE  /\ IsFiniteSet(Coins(Reserved(p), Claims)') /\ IsFiniteSet(Coins(Settled(p), Claims)')
           /\ SumOf(Reserved(p), Claims) \in Nat /\ SumOf(Settled(p), Claims) \in Nat
           /\ HeldIn(resv[c], p) \in Nat /\ HeldIn(resv'[c], p) \in Nat
           /\ SettledIn(resv[c], p) \in Nat /\ SettledIn(resv'[c], p) \in Nat
           /\ SumOf(Reserved(p), Claims)' =
                 SumOf(Reserved(p), Claims) + HeldIn(resv'[c], p) - HeldIn(resv[c], p)
           /\ SumOf(Settled(p), Claims)' =
                 SumOf(Settled(p), Claims) + SettledIn(resv'[c], p) - SettledIn(resv[c], p)
           /\ HeldIn(resv[c], p) <= SumOf(Reserved(p), Claims)
           /\ SettledIn(resv[c], p) <= SumOf(Settled(p), Claims)
  <1> DEFINE f == [d \in Claims |-> HeldIn(resv[d], p)]
             g == [d \in Claims |-> HeldIn(resv'[d], p)]
             h == [d \in Claims |-> SettledIn(resv[d], p)]
             k == [d \in Claims |-> SettledIn(resv'[d], p)]
  <1>1. \A r \in Resv : HeldIn(r, p) \in Nat /\ SettledIn(r, p) \in Nat
    BY QuotaFacts DEF HeldIn, SettledIn, Resv
  <1>2. /\ f[c] = HeldIn(resv[c], p) /\ g[c] = HeldIn(resv'[c], p)
        /\ h[c] = SettledIn(resv[c], p) /\ k[c] = SettledIn(resv'[c], p)
        /\ \A x \in Claims \ {c} : g[x] = f[x] /\ k[x] = h[x]
    OBVIOUS
  <1>3. f[c] \in Nat /\ g[c] \in Nat /\ h[c] \in Nat /\ k[c] \in Nat
    BY <1>1, <1>2
  <1>4. IsFiniteSet(Coins(f, Claims)) /\ IsFiniteSet(Coins(h, Claims))
    BY WindowRows DEF Countable
  <1>5. /\ Reserved(p) = f /\ Settled(p) = h
        /\ Coins(Reserved(p), Claims)' = Coins(g, Claims) /\ Coins(Settled(p), Claims)' = Coins(k, Claims)
        /\ SumOf(Reserved(p), Claims)' = SumOf(g, Claims) /\ SumOf(Settled(p), Claims)' = SumOf(k, Claims)
    <2>1. Reserved(p)' = g /\ Settled(p)' = k
      BY WindowRows
    <2> HIDE DEF g, k
    <2> QED BY <2>1, WindowRows DEF Coins, SumOf
  <1> HIDE DEF f, g, h, k
  <1>6. /\ IsFiniteSet(Coins(g, Claims)) /\ SumOf(g, Claims) = SumOf(f, Claims) + g[c] - f[c]
        /\ IsFiniteSet(Coins(k, Claims)) /\ SumOf(k, Claims) = SumOf(h, Claims) + k[c] - h[c]
    BY <1>2, <1>3, <1>4, SumFollows
  <1>7. /\ SumOf(f, Claims \ {c}) \in Nat /\ SumOf(f, Claims) = SumOf(f, Claims \ {c}) + f[c]
        /\ SumOf(h, Claims \ {c}) \in Nat /\ SumOf(h, Claims) = SumOf(h, Claims \ {c}) + h[c]
    BY <1>3, <1>4, SumSplit, SumType
  <1> QED BY <1>2, <1>3, <1>5, <1>6, <1>7

LEMMA WindowsFollow ==
    ASSUME QuotaAssumption, QuotaBooks, Tables', NEW c \in Claims,
           \A d \in Claims \ {c} : resv'[d] = resv[d],
           \A p \in Periods :
              /\ win'[p].reserved = win[p].reserved + HeldIn(resv'[c], p) - HeldIn(resv[c], p)
              /\ win'[p].settled = win[p].settled + SettledIn(resv'[c], p) - SettledIn(resv[c], p)
    PROVE  Countable' /\ WindowsAgree'
  <1>1. ASSUME NEW p \in Periods
        PROVE  /\ IsFiniteSet(Coins(Reserved(p), Claims)') /\ IsFiniteSet(Coins(Settled(p), Claims)')
               /\ win'[p].reserved = SumOf(Reserved(p), Claims)'
               /\ win'[p].settled = SumOf(Settled(p), Claims)'
    <2>1. win[p].reserved = SumOf(Reserved(p), Claims) /\ win[p].settled = SumOf(Settled(p), Claims)
      BY DEF QuotaBooks, WindowsAgree
    <2>2. resv \in [Claims -> Resv] /\ resv' \in [Claims -> Resv] /\ Countable
      BY DEF QuotaBooks, Tables
    <2> QED BY <2>1, <2>2, SumsFollow
  <1> QED BY <1>1 DEF Countable, WindowsAgree

(* No slot is taken where the slots held are some of those held before.     *)
LEMMA SlotsShrink ==
    ASSUME QuotaAssumption, SlotLimit, \A d \in Claims : slot'[d] = "held" => slot[d] = "held"
    PROVE  SlotLimit'
  <1> DEFINE H == {d \in Claims : slot[d] = "held"}
             J == {d \in Claims : slot'[d] = "held"}
  <1>1. J \subseteq H /\ H \subseteq Claims
    OBVIOUS
  <1>2. IsFiniteSet(H)
    BY <1>1, QuotaFacts, FS_Subset
  <1>3. Cardinality(J) <= Cardinality(H) /\ Cardinality(J) \in Nat /\ Cardinality(H) \in Nat
    BY <1>1, <1>2, FS_Subset, FS_CardinalityType
  <1>4. Cardinality(H) <= Slots
    BY DEF SlotLimit
  <1>5. SlotLimit' <=> Cardinality(J) <= Slots
    BY DEF SlotLimit
  <1> HIDE DEF H, J
  <1> QED BY <1>3, <1>4, <1>5, QuotaFacts

(* A mark: the reservation stays what it is, held or not, and at most loses *)
(* its lease and with it the slot.                                          *)
SameAmounts(x, r) ==
    /\ x.cost = r.cost /\ x.actual = r.actual /\ x.at = r.at
    /\ x.status = r.status \/ {x.status, r.status} = {"reserved", "recon"}
Marked(c) ==
    /\ \E x \in Resv : resv' = [resv EXCEPT ![c] = x] /\ SameAmounts(x, resv[c])
    /\ slot' = slot \/ slot' = [slot EXCEPT ![c] = IF @ = "held" THEN "over" ELSE @]
    /\ win' = win

LEMMA MarkKeepsBooks ==
    ASSUME QuotaAssumption, QuotaBooks, NEW c \in Claims, Marked(c)
    PROVE  QuotaBooks'
  <1>1. PICK x \in Resv : resv' = [resv EXCEPT ![c] = x] /\ SameAmounts(x, resv[c])
    BY DEF Marked
  <1>2. resv \in [Claims -> Resv] /\ slot \in [Claims -> SlotStatus] /\ win \in [Periods -> Window]
    BY DEF QuotaBooks, Tables
  <1>3. resv'[c] = x /\ (\A d \in Claims \ {c} : resv'[d] = resv[d]) /\ win' = win
    BY <1>1, <1>2 DEF Marked
  <1>4. /\ slot' \in [Claims -> SlotStatus]
        /\ \A d \in Claims : slot'[d] = "held" => slot[d] = "held"
        /\ \A d \in Claims : slot'[d] \in {"held", "over"} => slot[d] \in {"held", "over"}
    BY <1>2 DEF Marked, SlotStatus
  <1>5. Tables'
    BY <1>1, <1>2, <1>3, <1>4 DEF Tables
  <1>6. ASSUME NEW p \in Periods
        PROVE  /\ HeldIn(resv'[c], p) = HeldIn(resv[c], p) /\ SettledIn(resv'[c], p) = SettledIn(resv[c], p)
               /\ HeldIn(resv[c], p) \in Nat /\ SettledIn(resv[c], p) \in Nat
               /\ win[p].reserved \in Nat /\ win[p].settled \in Nat
    <2>1. resv[c] \in Resv /\ win[p] \in Window
      BY <1>2
    <2> QED BY <1>1, <1>3, <2>1, QuotaFacts DEF HeldIn, SettledIn, SameAmounts, Resv, Window
  <1>7. Countable' /\ WindowsAgree'
    BY <1>3, <1>5, <1>6, WindowsFollow
  <1>8. OverrunIsRecorded'
    BY <1>3 DEF OverrunIsRecorded, QuotaBooks
  <1>9. SlotLimit'
    BY <1>4, SlotsShrink DEF QuotaBooks
  <1>10. SlotFollowsReservation'
    <2>1. \A d \in Claims : Held(d) => Held(d)'
      BY <1>1, <1>3 DEF Held, SameAmounts
    <2> QED BY <1>4, <2>1 DEF SlotFollowsReservation, QuotaBooks
  <1> QED BY <1>5, <1>7, <1>8, <1>9, <1>10 DEF QuotaBooks

(* A reservation is made in the window of the present, which has room.      *)
LEMMA InsertKeepsBooks ==
    ASSUME QuotaAssumption, QuotaBooks, NEW c \in Claims, NEW a \in Attempts, NEW cost \in Costs,
           period \in Periods, resv[c].status \in {"none", "released"}, HasRoom(cost), SlotFree(c),
           Insert(c, a, cost)
    PROVE  QuotaBooks'
  <1> DEFINE x == [status |-> "reserved", cost |-> cost, actual |-> 0, at |-> period, live |-> TRUE, by |-> a]
             y == [win[period] EXCEPT !.reserved = @ + cost]
  <1>1. resv \in [Claims -> Resv] /\ slot \in [Claims -> SlotStatus] /\ win \in [Periods -> Window]
    BY DEF QuotaBooks, Tables
  <1>2. x \in Resv /\ cost \in Nat
    BY QuotaFacts DEF Resv, Attempts
  <1>3. /\ resv' = [resv EXCEPT ![c] = x] /\ slot' = [slot EXCEPT ![c] = "held"]
        /\ win' = [win EXCEPT ![period] = y]
    BY <1>1 DEF Insert
  <1>4. win[period] \in Window
    BY <1>1
  <1>5. /\ y \in Window /\ y.reserved = win[period].reserved + cost
        /\ y.settled = win[period].settled /\ y.overage = win[period].overage
    BY <1>2, <1>4 DEF Window
  <1>6. /\ resv'[c].status = "reserved" /\ resv'[c].cost = cost /\ resv'[c].at = period
        /\ \A d \in Claims \ {c} : resv'[d] = resv[d]
    BY <1>1, <1>3
  <1> HIDE DEF x, y
  <1>7. /\ win'[period] = y /\ (\A p \in Periods \ {period} : win'[p] = win[p])
        /\ slot'[c] = "held" /\ (\A d \in Claims \ {c} : slot'[d] = slot[d])
    BY <1>1, <1>3
  <1>8. Tables'
    BY <1>1, <1>2, <1>3, <1>5 DEF Tables, SlotStatus
  <1>9. ASSUME NEW p \in Periods
        PROVE  /\ win'[p].reserved = win[p].reserved + HeldIn(resv'[c], p) - HeldIn(resv[c], p)
               /\ win'[p].settled = win[p].settled + SettledIn(resv'[c], p) - SettledIn(resv[c], p)
    <2>1. HeldIn(resv[c], p) = 0 /\ SettledIn(resv[c], p) = 0 /\ SettledIn(resv'[c], p) = 0
      BY <1>6 DEF HeldIn, SettledIn
    <2>2. win[p] \in Window
      BY <1>1
    <2>3. win[p].reserved \in Nat /\ win[p].settled \in Nat
      BY <2>2 DEF Window
    <2>4. CASE p = period
      <3>1. HeldIn(resv'[c], p) = cost
        BY <1>6, <2>4 DEF HeldIn
      <3> QED BY <1>2, <1>5, <1>7, <2>1, <2>3, <2>4, <3>1
    <2>5. CASE p # period
      <3>1. HeldIn(resv'[c], p) = 0
        BY <1>6, <2>5 DEF HeldIn
      <3> QED BY <1>7, <2>1, <2>3, <2>5, <3>1
    <2> QED BY <2>4, <2>5
  <1>10. Countable' /\ WindowsAgree'
    BY <1>6, <1>8, <1>9, WindowsFollow
  <1>11. OverrunIsRecorded'
    <2>1. win[period].reserved + win[period].settled + cost <= Limit + Burst
      BY DEF HasRoom
    <2>2. /\ win[period].reserved \in Nat /\ win[period].settled \in Nat /\ win[period].overage \in Nat
          /\ Limit \in Nat /\ Burst \in Nat
      BY <1>4, QuotaFacts DEF Window
    <2>3. y.reserved + y.settled <= Limit + Burst + y.overage
      BY <1>2, <1>5, <2>1, <2>2
    <2> QED BY <1>7, <2>3 DEF OverrunIsRecorded, QuotaBooks
  <1>12. SlotLimit'
    <2> DEFINE H == {d \in Claims \ {c} : slot[d] = "held"}
    <2>1. {d \in Claims : slot'[d] = "held"} = H \cup {c}
      BY <1>7
    <2>2. H \subseteq Claims /\ c \notin H
      OBVIOUS
    <2>3. IsFiniteSet(H)
      BY <2>2, QuotaFacts, FS_Subset
    <2>4. Cardinality(H) < Slots
      BY DEF SlotFree
    <2> HIDE DEF H
    <2>5. Cardinality(H \cup {c}) = Cardinality(H) + 1 /\ Cardinality(H) \in Nat
      BY <2>2, <2>3, FS_AddElement, FS_CardinalityType
    <2>6. SlotLimit' <=> Cardinality(H \cup {c}) <= Slots
      BY <2>1 DEF SlotLimit
    <2> QED BY <2>4, <2>5, <2>6, QuotaFacts
  <1>13. SlotFollowsReservation'
    <2>1. Held(c)' /\ \A d \in Claims \ {c} : Held(d)' = Held(d)
      BY <1>6 DEF Held
    <2> QED BY <1>7, <2>1 DEF SlotFollowsReservation, QuotaBooks
  <1> QED BY <1>8, <1>10, <1>11, <1>12, <1>13 DEF QuotaBooks

(* A closing gives back what was held in the reservation's own window; what *)
(* it adds beyond the limit is overage.                                     *)
LEMMA SlotFreed ==
    ASSUME QuotaAssumption, QuotaBooks, NEW c \in Claims, FreeSlot(c),
           \A d \in Claims \ {c} : Held(d)' = Held(d)
    PROVE  slot' \in [Claims -> SlotStatus] /\ SlotLimit' /\ SlotFollowsReservation'
  <1>1. slot \in [Claims -> SlotStatus]
    BY DEF QuotaBooks, Tables
  <1>2. /\ slot' \in [Claims -> SlotStatus] /\ slot'[c] \notin {"held", "over"}
        /\ \A d \in Claims \ {c} : slot'[d] = slot[d]
    BY <1>1 DEF FreeSlot, SlotStatus
  <1>3. SlotLimit'
    BY <1>2, SlotsShrink DEF QuotaBooks
  <1> QED BY <1>2, <1>3 DEF SlotFollowsReservation, QuotaBooks

LEMMA OverageCovers ==
    ASSUME QuotaAssumption, NEW w \in Window, NEW cost \in Nat, NEW n \in Nat, cost <= w.reserved,
           w.reserved + w.settled <= Limit + Burst + w.overage
    PROVE  /\ Overage(w, cost, n) \in Nat
           /\ w.reserved - cost + w.settled + n <= Limit + Burst + w.overage + Overage(w, cost, n)
  <1> DEFINE before == w.reserved + w.settled
             over == Pos(before - cost + n - Limit)
             was == Pos(before - Limit)
  <1>1. w.reserved \in Nat /\ w.settled \in Nat /\ w.overage \in Nat /\ Limit \in Nat /\ Burst \in Nat
    BY QuotaFacts DEF Window
  <1>2. before \in Nat /\ before - cost + n \in Int /\ before - cost + n - Limit \in Int /\ before - Limit \in Int
    BY <1>1
  <1>3. /\ over \in Nat /\ over >= before - cost + n - Limit
        /\ was \in Nat /\ (before <= Limit => was = 0) /\ (before >= Limit => was = before - Limit)
    <2>1. over \in Nat /\ was \in Nat
      BY <1>2, PosIs
    <2>2. over >= before - cost + n - Limit
      BY <1>2, PosIs
    <2>3. before <= Limit => was = 0
      <3>1. CASE before < Limit
        BY <1>1, <1>2, <3>1, PosIs
      <3>2. CASE before = Limit
        BY <1>1, <1>2, <3>2, PosIs
      <3> QED BY <1>1, <1>2, <3>1, <3>2
    <2>4. before >= Limit => was = before - Limit
      BY <1>1, <1>2, PosIs
    <2> QED BY <2>1, <2>2, <2>3, <2>4
  <1>4. Overage(w, cost, n) = Pos(over - was)
    BY DEF Overage
  <1>5. Pos(over - was) \in Nat /\ Pos(over - was) >= over - was
    <2> HIDE DEF over, was
    <2> QED BY <1>3, PosIs
  <1>6. before <= Limit + Burst + w.overage
    OBVIOUS
  <1>7. w.reserved - cost + w.settled + n = before - cost + n
    BY <1>1
  <1> HIDE DEF before, over, was
  <1>8. before - cost + n <= Limit + Burst + w.overage + Pos(over - was)
    BY <1>1, <1>2, <1>3, <1>5, <1>6
  <1> QED BY <1>4, <1>5, <1>7, <1>8

(* A reservation that is held is in its window's sum.                       *)
LEMMA HeldIsReserved ==
    ASSUME QuotaAssumption, QuotaBooks, NEW c \in Claims
    PROVE  /\ resv[c] \in Resv /\ resv[c].at \in Periods /\ resv[c].cost \in Nat /\ resv[c].actual \in Nat
           /\ win[resv[c].at] \in Window
           /\ Held(c) => resv[c].cost <= win[resv[c].at].reserved
           /\ resv[c].status = "settled" => resv[c].actual <= win[resv[c].at].settled
  <1> DEFINE p == resv[c].at
  <1>1. resv \in [Claims -> Resv] /\ win \in [Periods -> Window] /\ Countable
    BY DEF QuotaBooks, Tables
  <1>2. resv[c] \in Resv /\ p \in Periods /\ resv[c].cost \in Nat /\ resv[c].actual \in Nat
    BY <1>1, QuotaFacts DEF Resv
  <1>3. win[p].reserved = SumOf(Reserved(p), Claims) /\ win[p].settled = SumOf(Settled(p), Claims)
    BY <1>2 DEF QuotaBooks, WindowsAgree
  <1>4. HeldIn(resv[c], p) <= SumOf(Reserved(p), Claims) /\ SettledIn(resv[c], p) <= SumOf(Settled(p), Claims)
    <2> DEFINE f == [d \in Claims |-> HeldIn(resv[d], p)]
               h == [d \in Claims |-> SettledIn(resv[d], p)]
    <2>1. \A r \in Resv : HeldIn(r, p) \in Nat /\ SettledIn(r, p) \in Nat
      BY QuotaFacts DEF HeldIn, SettledIn, Resv
    <2>2. f[c] = HeldIn(resv[c], p) /\ h[c] = SettledIn(resv[c], p) /\ f[c] \in Nat /\ h[c] \in Nat
      BY <1>1, <2>1
    <2>3. Reserved(p) = f /\ Settled(p) = h /\ IsFiniteSet(Coins(f, Claims)) /\ IsFiniteSet(Coins(h, Claims))
      BY <1>1, <1>2, WindowRows DEF Countable
    <2> HIDE DEF f, h
    <2>4. /\ SumOf(f, Claims \ {c}) \in Nat /\ SumOf(f, Claims) = SumOf(f, Claims \ {c}) + f[c]
          /\ SumOf(h, Claims \ {c}) \in Nat /\ SumOf(h, Claims) = SumOf(h, Claims \ {c}) + h[c]
      BY <2>2, <2>3, SumSplit, SumType
    <2> QED BY <2>2, <2>3, <2>4
  <1>5. win[p] \in Window
    BY <1>1, <1>2
  <1> QED BY <1>2, <1>3, <1>4, <1>5 DEF HeldIn, SettledIn, Held

(* How a row c and its window w may change together: nobody else's do.      *)
LEMMA RowAndWindow ==
    ASSUME QuotaAssumption, QuotaBooks, NEW c \in Claims, NEW x \in Resv, NEW w \in Window,
           resv' = [resv EXCEPT ![c] = x], win' = [win EXCEPT ![resv[c].at] = w],
           x.at = resv[c].at, slot' \in [Claims -> SlotStatus],
           w.reserved = win[resv[c].at].reserved + HeldIn(x, x.at) - HeldIn(resv[c], x.at),
           w.settled = win[resv[c].at].settled + SettledIn(x, x.at) - SettledIn(resv[c], x.at),
           w.reserved + w.settled <= Limit + Burst + w.overage
    PROVE  Tables' /\ Countable' /\ WindowsAgree' /\ OverrunIsRecorded'
  <1> DEFINE q == resv[c].at
  <1>1. resv \in [Claims -> Resv] /\ win \in [Periods -> Window] /\ q \in Periods
    BY HeldIsReserved DEF QuotaBooks, Tables
  <1>2. /\ resv'[c] = x /\ (\A d \in Claims \ {c} : resv'[d] = resv[d])
        /\ win'[q] = w /\ \A p \in Periods \ {q} : win'[p] = win[p]
    BY <1>1
  <1>3. Tables'
    BY <1>1 DEF Tables
  <1>4. ASSUME NEW p \in Periods
        PROVE  /\ win'[p].reserved = win[p].reserved + HeldIn(resv'[c], p) - HeldIn(resv[c], p)
               /\ win'[p].settled = win[p].settled + SettledIn(resv'[c], p) - SettledIn(resv[c], p)
    <2>1. CASE p = q
      BY <1>2, <2>1
    <2>2. CASE p # q
      <3>1. /\ HeldIn(resv'[c], p) = 0 /\ HeldIn(resv[c], p) = 0
            /\ SettledIn(resv'[c], p) = 0 /\ SettledIn(resv[c], p) = 0
        BY <1>2, <2>2 DEF HeldIn, SettledIn
      <3>2. win[p] \in Window
        BY <1>1
      <3>3. win[p].reserved \in Nat /\ win[p].settled \in Nat
        BY <3>2 DEF Window
      <3> QED BY <1>2, <2>2, <3>1, <3>3
    <2> QED BY <2>1, <2>2
  <1>5. Countable' /\ WindowsAgree'
    BY <1>2, <1>3, <1>4, WindowsFollow
  <1>6. OverrunIsRecorded'
    BY <1>1, <1>2 DEF OverrunIsRecorded, QuotaBooks
  <1> QED BY <1>3, <1>5, <1>6

LEMMA SettleKeepsBooks ==
    ASSUME QuotaAssumption, QuotaBooks, NEW c \in Claims, claim[c].actual \in Costs \cup {0},
           Held(c), CloseSettled(c)
    PROVE  QuotaBooks'
  <1> DEFINE n == claim[c].actual
             x == [resv[c] EXCEPT !.status = "settled", !.actual = n]
             o == win[resv[c].at]
             w == [reserved |-> Pos(o.reserved - resv[c].cost), settled |-> o.settled + n,
                   overage |-> o.overage + Overage(o, resv[c].cost, n)]
  <1>1. resv \in [Claims -> Resv] /\ win \in [Periods -> Window]
    BY DEF QuotaBooks, Tables
  <1>2. resv' = [resv EXCEPT ![c] = x] /\ win' = [win EXCEPT ![resv[c].at] = w] /\ FreeSlot(c)
    BY <1>1, HeldIsReserved DEF CloseSettled
  <1>3. /\ resv[c] \in Resv /\ resv[c].at \in Periods /\ resv[c].cost \in Nat
        /\ o \in Window /\ resv[c].cost <= o.reserved /\ n \in Nat
    BY HeldIsReserved, QuotaFacts
  <1>4. /\ x \in Resv /\ x.at = resv[c].at /\ x.status = "settled" /\ x.actual = n
    BY <1>3 DEF Resv
  <1>5. o.reserved \in Nat /\ o.settled \in Nat /\ o.overage \in Nat
    BY <1>3 DEF Window
  <1>6. o.reserved + o.settled <= Limit + Burst + o.overage
    BY <1>3 DEF QuotaBooks, OverrunIsRecorded
  <1>7. Pos(o.reserved - resv[c].cost) = o.reserved - resv[c].cost
    BY <1>3, <1>5, PosIs
  <1>8. /\ Overage(o, resv[c].cost, n) \in Nat
        /\ o.reserved - resv[c].cost + o.settled + n <= Limit + Burst + o.overage + Overage(o, resv[c].cost, n)
    BY <1>3, <1>6, OverageCovers
  <1>9. /\ w \in Window /\ w.reserved = o.reserved - resv[c].cost /\ w.settled = o.settled + n
        /\ w.overage = o.overage + Overage(o, resv[c].cost, n)
    BY <1>3, <1>5, <1>7, <1>8 DEF Window
  <1>10. /\ HeldIn(x, x.at) = 0 /\ HeldIn(resv[c], x.at) = resv[c].cost
         /\ SettledIn(x, x.at) = n /\ SettledIn(resv[c], x.at) = 0
    BY <1>4 DEF HeldIn, SettledIn, Held
  <1>11. w.reserved + w.settled <= Limit + Burst + w.overage
    BY <1>3, <1>5, <1>8, <1>9, QuotaFacts
  <1> HIDE DEF n, x, o, w
  <1>12. \A d \in Claims \ {c} : Held(d)' = Held(d)
    BY <1>1, <1>2 DEF Held
  <1>13. slot' \in [Claims -> SlotStatus] /\ SlotLimit' /\ SlotFollowsReservation'
    BY <1>2, <1>12, SlotFreed
  <1>14. /\ w.reserved = o.reserved + HeldIn(x, x.at) - HeldIn(resv[c], x.at)
         /\ w.settled = o.settled + SettledIn(x, x.at) - SettledIn(resv[c], x.at)
    BY <1>3, <1>5, <1>9, <1>10
  <1>15. Tables' /\ Countable' /\ WindowsAgree' /\ OverrunIsRecorded'
    BY <1>2, <1>4, <1>9, <1>11, <1>13, <1>14, RowAndWindow DEF o
  <1> QED BY <1>13, <1>15 DEF QuotaBooks

LEMMA ReleaseKeepsBooks ==
    ASSUME QuotaAssumption, QuotaBooks, NEW c \in Claims, Held(c), CloseReleased(c)
    PROVE  QuotaBooks'
  <1> DEFINE x == [resv[c] EXCEPT !.status = "released"]
             o == win[resv[c].at]
             w == [o EXCEPT !.reserved = Pos(@ - resv[c].cost)]
  <1>1. resv \in [Claims -> Resv] /\ win \in [Periods -> Window]
    BY DEF QuotaBooks, Tables
  <1>2. resv' = [resv EXCEPT ![c] = x] /\ win' = [win EXCEPT ![resv[c].at] = w] /\ FreeSlot(c)
    BY <1>1, HeldIsReserved DEF CloseReleased
  <1>3. /\ resv[c] \in Resv /\ resv[c].at \in Periods /\ resv[c].cost \in Nat
        /\ o \in Window /\ resv[c].cost <= o.reserved
    BY HeldIsReserved
  <1>4. /\ x \in Resv /\ x.at = resv[c].at /\ x.status = "released"
    BY <1>3 DEF Resv
  <1>5. o.reserved \in Nat /\ o.settled \in Nat /\ o.overage \in Nat
    BY <1>3 DEF Window
  <1>6. o.reserved + o.settled <= Limit + Burst + o.overage
    BY <1>3 DEF QuotaBooks, OverrunIsRecorded
  <1>7. Pos(o.reserved - resv[c].cost) = o.reserved - resv[c].cost
    BY <1>3, <1>5, PosIs
  <1>9. /\ w \in Window /\ w.reserved = o.reserved - resv[c].cost /\ w.settled = o.settled
        /\ w.overage = o.overage
    BY <1>3, <1>5, <1>7 DEF Window
  <1>10. /\ HeldIn(x, x.at) = 0 /\ HeldIn(resv[c], x.at) = resv[c].cost
         /\ SettledIn(x, x.at) = 0 /\ SettledIn(resv[c], x.at) = 0
    BY <1>4 DEF HeldIn, SettledIn, Held
  <1>11. w.reserved + w.settled <= Limit + Burst + w.overage
    BY <1>3, <1>5, <1>6, <1>9, QuotaFacts
  <1> HIDE DEF x, o, w
  <1>12. \A d \in Claims \ {c} : Held(d)' = Held(d)
    BY <1>1, <1>2 DEF Held
  <1>13. slot' \in [Claims -> SlotStatus] /\ SlotLimit' /\ SlotFollowsReservation'
    BY <1>2, <1>12, SlotFreed
  <1>14. /\ w.reserved = o.reserved + HeldIn(x, x.at) - HeldIn(resv[c], x.at)
         /\ w.settled = o.settled + SettledIn(x, x.at) - SettledIn(resv[c], x.at)
    BY <1>3, <1>5, <1>9, <1>10
  <1>15. Tables' /\ Countable' /\ WindowsAgree' /\ OverrunIsRecorded'
    BY <1>2, <1>4, <1>9, <1>11, <1>13, <1>14, RowAndWindow DEF o
  <1> QED BY <1>13, <1>15 DEF QuotaBooks

LEMMA ReverseKeepsBooks ==
    ASSUME QuotaAssumption, QuotaBooks, NEW c \in Claims, ReverseCost(c)
    PROVE  QuotaBooks'
  <1> DEFINE x == [resv[c] EXCEPT !.actual = 0]
             o == win[resv[c].at]
             w == [o EXCEPT !.settled = Pos(@ - resv[c].actual)]
  <1>1. resv \in [Claims -> Resv] /\ win \in [Periods -> Window] /\ slot \in [Claims -> SlotStatus]
    BY DEF QuotaBooks, Tables
  <1>2. /\ resv' = [resv EXCEPT ![c] = x] /\ win' = [win EXCEPT ![resv[c].at] = w] /\ slot' = slot
        /\ resv[c].status = "settled"
    BY <1>1, HeldIsReserved DEF ReverseCost
  <1>3. /\ resv[c] \in Resv /\ resv[c].at \in Periods /\ resv[c].actual \in Nat
        /\ o \in Window /\ resv[c].actual <= o.settled
    BY <1>2, HeldIsReserved
  <1>4. x \in Resv /\ x.at = resv[c].at /\ x.status = "settled" /\ x.actual = 0
    BY <1>2, <1>3 DEF Resv
  <1>5. o.reserved \in Nat /\ o.settled \in Nat /\ o.overage \in Nat
    BY <1>3 DEF Window
  <1>6. o.reserved + o.settled <= Limit + Burst + o.overage
    BY <1>3 DEF QuotaBooks, OverrunIsRecorded
  <1>7. Pos(o.settled - resv[c].actual) = o.settled - resv[c].actual
    BY <1>3, <1>5, PosIs
  <1>9. /\ w \in Window /\ w.reserved = o.reserved /\ w.settled = o.settled - resv[c].actual
        /\ w.overage = o.overage
    BY <1>3, <1>5, <1>7 DEF Window
  <1>10. /\ HeldIn(x, x.at) = 0 /\ HeldIn(resv[c], x.at) = 0
         /\ SettledIn(x, x.at) = 0 /\ SettledIn(resv[c], x.at) = resv[c].actual
    BY <1>2, <1>4 DEF HeldIn, SettledIn
  <1>11. w.reserved + w.settled <= Limit + Burst + w.overage
    BY <1>3, <1>5, <1>6, <1>9, QuotaFacts
  <1> HIDE DEF x, o, w
  <1>12. SlotLimit' /\ SlotFollowsReservation'
    <2>1. \A d \in Claims : Held(d)' = Held(d)
      BY <1>1, <1>2, <1>4 DEF Held
    <2>2. SlotLimit'
      BY <1>2, SlotsShrink DEF QuotaBooks
    <2> QED BY <1>2, <2>1, <2>2 DEF SlotFollowsReservation, QuotaBooks
  <1>14. /\ w.reserved = o.reserved + HeldIn(x, x.at) - HeldIn(resv[c], x.at)
         /\ w.settled = o.settled + SettledIn(x, x.at) - SettledIn(resv[c], x.at)
    BY <1>3, <1>5, <1>9, <1>10
  <1>15. Tables' /\ Countable' /\ WindowsAgree' /\ OverrunIsRecorded'
    BY <1>1, <1>2, <1>4, <1>9, <1>11, <1>14, RowAndWindow DEF o
  <1> QED BY <1>12, <1>15 DEF QuotaBooks

-----------------------------------------------------------------------------
(* The transactions that the attempt, its job and the sweep have in common. *)
(* A row of a reserving claim stays as it is, or is made.                   *)
RowKept(d) ==
    \/ resv'[d].status = resv[d].status
    \/ resv'[d].status = "reserved"
    \/ claim[d].status = "committed"
    \/ claim[d].status # "reserving" /\ resv'[d].status # "settled"
RowsKept == QuotaBooks' /\ \A d \in Claims : RowKept(d)

QuotaPCs == {"new", "quota", "run", "open", "abort", "orphan", "settle", "release", "prepare",
        "enqueue_settle", "enqueue_release", "done"}
JobStates == {"none", "queued", "running", "complete", "refused", "deferred", "invalidated"}
Claim == [status : {"none", "reserving", "committed", "aborted"}, seq : 0..MaxAttempts,
          actual : Costs \cup {0}]
Job == [state : JobStates, tries : 0..MaxTries]
Others ==
    /\ claim \in [Claims -> Claim] /\ period \in Periods /\ att \in [Claims -> [Attempts -> QuotaPCs]]
    /\ job \in [Claims -> [Kinds -> Job]] /\ parked \in [Claims -> BOOLEAN]
    /\ sweep \in [Claims -> {"none", "listed"} \cup Kinds] /\ quotaFaults \in 0..MaxQuotaFaults

LEMMA QuotaParts ==
    /\ QuotaInv <=> Others /\ QuotaBooks /\ AttemptsFollow /\ SettledIsCommitted /\ AdmittedIsCounted
    /\ Tables /\ Others => QuotaTypeOK
  <1>1. QuotaTypeOK <=> Tables /\ Others
    BY DEF QuotaTypeOK, Tables, Others, Claim, Resv, Window, SlotStatus, QuotaPCs, JobStates, Job
  <1> QED BY <1>1 DEF QuotaInv, QuotaBooks

LEMMA PrimedQuotaParts ==
    Others' /\ QuotaBooks' /\ AttemptsFollow' /\ SettledIsCommitted' /\ AdmittedIsCounted' => QuotaInv'
  <1>1. QuotaTypeOK' <=> Tables' /\ Others'
    BY DEF QuotaTypeOK, Tables, Others, Claim, Resv, Window, SlotStatus, QuotaPCs, JobStates, Job
  <1> QED BY <1>1 DEF QuotaInv, QuotaBooks

LEMMA RestKeepsRows ==
    ASSUME QuotaBooks, UNCHANGED <<resv, slot, win>>
    PROVE  RowsKept
  <1>1. Tables'
    BY DEF QuotaBooks, Tables
  <1>2. ASSUME NEW p \in Periods
        PROVE  Coins(Reserved(p), Claims)' = Coins(Reserved(p), Claims)
               /\ Coins(Settled(p), Claims)' = Coins(Settled(p), Claims)
    BY DEF Coins, Reserved, Settled, Held
  <1>3. Countable' /\ WindowsAgree'
    BY <1>2 DEF QuotaBooks, Countable, WindowsAgree, SumOf
  <1>4. OverrunIsRecorded' /\ SlotLimit' /\ SlotFollowsReservation'
    BY DEF QuotaBooks, OverrunIsRecorded, SlotLimit, SlotFollowsReservation, Held
  <1> QED BY <1>1, <1>3, <1>4 DEF QuotaBooks, RowsKept, RowKept

(* A change of one row's status and lease, and of no amount.                *)
LEMMA MarkKeepsRows ==
    ASSUME QuotaAssumption, QuotaBooks, NEW c \in Claims, Marked(c), claim[c].status # "reserving"
    PROVE  RowsKept
  <1>1. QuotaBooks'
    BY MarkKeepsBooks
  <1>2. PICK x \in Resv : resv' = [resv EXCEPT ![c] = x] /\ SameAmounts(x, resv[c])
    BY DEF Marked
  <1>3. resv'[c] = x /\ \A d \in Claims \ {c} : resv'[d] = resv[d]
    BY <1>2 DEF QuotaBooks, Tables
  <1>4. RowKept(c)
    BY <1>2, <1>3 DEF SameAmounts, RowKept
  <1> QED BY <1>1, <1>3, <1>4 DEF RowsKept, RowKept

LEMMA PrepareKeepsRows ==
    ASSUME QuotaAssumption, QuotaBooks, NEW c \in Claims, Recoverable(c), Prepare(c),
           UNCHANGED <<slot, win>>
    PROVE  RowsKept
  <1> DEFINE x == [resv[c] EXCEPT !.status = "recon", !.live = FALSE]
  <1>1. resv \in [Claims -> Resv] /\ resv[c] \in Resv
    BY DEF QuotaBooks, Tables
  <1>2. resv' = [resv EXCEPT ![c] = x]
    BY <1>1 DEF Prepare
  <1>3. /\ x \in Resv /\ x.cost = resv[c].cost /\ x.actual = resv[c].actual /\ x.at = resv[c].at
        /\ x.status = "recon"
    BY <1>1 DEF Resv
  <1>4. resv[c].status \in {"reserved", "recon"}
    BY DEF Recoverable, Held
  <1> HIDE DEF x
  <1>5. SameAmounts(x, resv[c])
    BY <1>3, <1>4 DEF SameAmounts
  <1>6. Marked(c)
    BY <1>2, <1>3, <1>5 DEF Marked
  <1> QED BY <1>6, MarkKeepsRows DEF Recoverable

LEMMA MarkNeededKeepsRows ==
    ASSUME QuotaAssumption, QuotaBooks, NEW c \in Claims, claim[c].status = "committed",
           MarkNeeded(c), UNCHANGED <<slot, win>>
    PROVE  RowsKept
  <1> DEFINE x == [resv[c] EXCEPT !.status = IF @ = "reserved" THEN "recon" ELSE @]
  <1>1. resv \in [Claims -> Resv] /\ resv[c] \in Resv
    BY DEF QuotaBooks, Tables
  <1>2. resv' = [resv EXCEPT ![c] = x]
    BY <1>1 DEF MarkNeeded
  <1>3. /\ x \in Resv /\ x.cost = resv[c].cost /\ x.actual = resv[c].actual /\ x.at = resv[c].at
        /\ x.status = IF resv[c].status = "reserved" THEN "recon" ELSE resv[c].status
    BY <1>1 DEF Resv
  <1> HIDE DEF x
  <1>4. SameAmounts(x, resv[c])
    BY <1>3 DEF SameAmounts
  <1>5. Marked(c)
    BY <1>2, <1>3, <1>4 DEF Marked
  <1> QED BY <1>5, MarkKeepsRows

LEMMA SettleKeepsRows ==
    ASSUME QuotaAssumption, QuotaBooks, Others, NEW c \in Claims, claim[c].status = "committed",
           SettleTx(c)
    PROVE  RowsKept
  <1>1. CASE ~Held(c)
    BY <1>1, RestKeepsRows DEF SettleTx
  <1>2. CASE Held(c)
    <2>1. CloseSettled(c)
      BY <1>2 DEF SettleTx
    <2>2. claim[c].actual \in Costs \cup {0}
      BY DEF Others, Claim
    <2>3. QuotaBooks'
      BY <1>2, <2>1, <2>2, SettleKeepsBooks
    <2>4. \A d \in Claims \ {c} : resv'[d] = resv[d]
      BY <2>1 DEF CloseSettled, QuotaBooks, Tables
    <2> QED BY <2>3, <2>4 DEF RowsKept, RowKept
  <1> QED BY <1>1, <1>2

LEMMA ReleaseKeepsRows ==
    ASSUME QuotaAssumption, QuotaBooks, Others, NEW c \in Claims, ReleaseTx(c)
    PROVE  RowsKept
  <1>1. CASE ~(Held(c) /\ ReleaseAnswer(c) = "complete")
    BY <1>1, RestKeepsRows DEF ReleaseTx
  <1>2. CASE Held(c) /\ ReleaseAnswer(c) = "complete"
    <2>1. CloseReleased(c)
      BY <1>2 DEF ReleaseTx
    <2>2. QuotaBooks'
      BY <1>2, <2>1, ReleaseKeepsBooks
    <2>3. claim[c].status # "reserving"
      BY <1>2 DEF ReleaseAnswer, Held
    <2>4. resv'[c].status = "released" /\ \A d \in Claims \ {c} : resv'[d] = resv[d]
      <3>1. resv \in [Claims -> Resv] /\ resv[c] \in Resv
        BY DEF QuotaBooks, Tables
      <3>2. resv' = [resv EXCEPT ![c] = [resv[c] EXCEPT !.status = "released"]]
        BY <2>1, <3>1 DEF CloseReleased
      <3>3. [resv[c] EXCEPT !.status = "released"].status = "released"
        BY <3>1 DEF Resv
      <3> QED BY <3>1, <3>2, <3>3
    <2> QED BY <2>2, <2>3, <2>4 DEF RowsKept, RowKept
  <1> QED BY <1>1, <1>2

LEMMA LeaseKeepsRows ==
    ASSUME QuotaAssumption, QuotaBooks, NEW c \in Claims, LeaseEnds(c)
    PROVE  RowsKept
  <1> DEFINE x == [resv[c] EXCEPT !.live = FALSE]
  <1>1. resv \in [Claims -> Resv] /\ resv[c] \in Resv
    BY DEF QuotaBooks, Tables
  <1>2. resv' = [resv EXCEPT ![c] = x]
    BY <1>1 DEF LeaseEnds
  <1>3. /\ x \in Resv /\ x.cost = resv[c].cost /\ x.actual = resv[c].actual /\ x.at = resv[c].at
        /\ x.status = resv[c].status
    BY <1>1 DEF Resv
  <1> HIDE DEF x
  <1>4. SameAmounts(x, resv[c])
    BY <1>3 DEF SameAmounts
  <1>5. Marked(c)
    BY <1>2, <1>3, <1>4 DEF Marked, LeaseEnds
  <1>6. \A d \in Claims : resv'[d].status = resv[d].status
    BY <1>1, <1>2, <1>3
  <1> QED BY <1>5, <1>6, MarkKeepsBooks DEF RowsKept, RowKept

LEMMA ReverseKeepsRows ==
    ASSUME QuotaAssumption, QuotaBooks, NEW c \in Claims, ReverseCost(c)
    PROVE  RowsKept
  <1>1. resv \in [Claims -> Resv] /\ resv[c] \in Resv
    BY DEF QuotaBooks, Tables
  <1>2. resv' = [resv EXCEPT ![c] = [resv[c] EXCEPT !.actual = 0]]
    BY <1>1 DEF ReverseCost
  <1>3. [resv[c] EXCEPT !.actual = 0].status = resv[c].status
    BY <1>1 DEF Resv
  <1>4. \A d \in Claims : resv'[d].status = resv[d].status
    BY <1>1, <1>2, <1>3
  <1> QED BY <1>4, ReverseKeepsBooks DEF RowsKept, RowKept

LEMMA ReserveKeepsRows ==
    ASSUME QuotaAssumption, QuotaBooks, Others, NEW c \in Claims, NEW a \in Attempts,
           NEW cost \in Costs, Reserve(c, a, cost)
    PROVE  /\ RowsKept
           /\ \/ /\ att' = [att EXCEPT ![c][a] = "run"]
                 /\ resv'[c].status = "reserved" \/ (resv[c].status = "settled" /\ resv' = resv)
              \/ att' = [att EXCEPT ![c][a] = "abort"]
  <1> DEFINE fresh == resv[c].status \in {"none", "released"}
             ok == fresh /\ HasRoom(cost) /\ SlotFree(c)
             reused == /\ resv[c].cost = cost
                       /\ (resv[c].status = "reserved" /\ resv[c].live) \/ resv[c].status = "settled"
  <1>1. /\ IF ok THEN Insert(c, a, cost) ELSE UNCHANGED <<resv, slot, win>>
        /\ att' = [att EXCEPT ![c][a] = IF ok \/ reused THEN "run" ELSE "abort"]
    BY DEF Reserve, Moves
  <1>2. CASE ok
    <2>1. Insert(c, a, cost) /\ period \in Periods
      BY <1>1, <1>2 DEF Others
    <2>2. QuotaBooks'
      BY <1>2, <2>1, InsertKeepsBooks
    <2>3. resv'[c].status = "reserved" /\ \A d \in Claims \ {c} : resv'[d] = resv[d]
      BY <2>1 DEF Insert, QuotaBooks, Tables
    <2> QED BY <1>1, <1>2, <2>2, <2>3 DEF RowsKept, RowKept
  <1>3. CASE ~ok
    <2>1. UNCHANGED <<resv, slot, win>>
      BY <1>1, <1>3
    <2>2. RowsKept
      BY <2>1, RestKeepsRows
    <2> QED BY <1>1, <1>3, <2>1, <2>2
  <1> QED BY <1>2, <1>3

-----------------------------------------------------------------------------
(* The attempts, whoever changes the rows under them.                       *)
SettlesCommitted ==
    \A c \in Claims : sweep'[c] = "settle" \/ job'[c]["settle"].state # "none"
                         => claim[c].status = "committed"

LEMMA AttemptsRest ==
    ASSUME QuotaInv, UNCHANGED <<claim, att>>, RowsKept, SettlesCommitted
    PROVE  AttemptsFollow' /\ SettledIsCommitted' /\ AdmittedIsCounted'
  <1>1. AttemptsFollow'
    BY DEF QuotaInv, AttemptsFollow
  <1>2. SettledIsCommitted'
    BY DEF QuotaInv, SettledIsCommitted, SettlesCommitted, RowsKept, RowKept
  <1>3. ASSUME NEW c \in Claims, NEW a \in Attempts, att'[c][a] = "run"
        PROVE  resv'[c].status = "reserved"
    <2>1. resv[c].status = "reserved" /\ claim[c].status = "reserving"
      BY <1>3 DEF QuotaInv, AdmittedIsCounted, AttemptsFollow, Engaged
    <2> QED BY <2>1 DEF RowsKept, RowKept
  <1> QED BY <1>1, <1>2, <1>3 DEF AdmittedIsCounted

LEMMA MovesIs ==
    ASSUME Others, NEW c \in Claims, NEW a \in Attempts, NEW pc \in QuotaPCs, Moves(c, a, pc)
    PROVE  /\ att' \in [Claims -> [Attempts -> QuotaPCs]] /\ att'[c][a] = pc
           /\ \A d \in Claims, b \in Attempts : d # c \/ b # a => att'[d][b] = att[d][b]
  <1>1. att \in [Claims -> [Attempts -> QuotaPCs]]
    BY DEF Others
  <1>2. att' = [att EXCEPT ![c] = [att[c] EXCEPT ![a] = pc]]
    BY <1>1 DEF Moves
  <1>3. att[c] \in [Attempts -> QuotaPCs] /\ [att[c] EXCEPT ![a] = pc] \in [Attempts -> QuotaPCs]
    BY <1>1
  <1>4. att'[c] = [att[c] EXCEPT ![a] = pc] /\ \A d \in Claims \ {c} : att'[d] = att[d]
    BY <1>1, <1>2
  <1>5. att' \in [Claims -> [Attempts -> QuotaPCs]]
    BY <1>1, <1>2, <1>3
  <1> QED BY <1>3, <1>4, <1>5

LEMMA AttemptMoves ==
    ASSUME QuotaInv, claim' = claim, RowsKept, SettlesCommitted,
           NEW c \in Claims, NEW a \in Attempts, NEW pc \in QuotaPCs, Moves(c, a, pc),
           pc \in Engaged => att[c][a] \in Engaged,
           pc \in {"settle", "enqueue_settle"} => claim[c].status = "committed",
           pc = "run" => resv'[c].status = "reserved"
    PROVE  AttemptsFollow' /\ SettledIsCommitted' /\ AdmittedIsCounted'
  <1>1. /\ att'[c][a] = pc
        /\ \A d \in Claims, b \in Attempts : d # c \/ b # a => att'[d][b] = att[d][b]
    BY MovesIs, QuotaParts
  <1>2. AttemptsFollow'
    BY <1>1 DEF QuotaInv, AttemptsFollow
  <1>3. SettledIsCommitted'
    BY DEF QuotaInv, SettledIsCommitted, SettlesCommitted, RowsKept, RowKept
  <1>4. ASSUME NEW d \in Claims, NEW b \in Attempts, att'[d][b] = "run", d # c \/ b # a
        PROVE  resv'[d].status = "reserved"
    <2>1. resv[d].status = "reserved" /\ claim[d].status = "reserving"
      BY <1>1, <1>4 DEF QuotaInv, AdmittedIsCounted, AttemptsFollow, Engaged
    <2> QED BY <2>1 DEF RowsKept, RowKept
  <1> QED BY <1>1, <1>2, <1>3, <1>4 DEF AdmittedIsCounted

(* A claim changes under its attempt, which has it or takes it.             *)
LEMMA ClaimMoves ==
    ASSUME QuotaAssumption, QuotaInv, UNCHANGED <<resv, slot, win, period, job, parked, sweep, quotaFaults>>,
           NEW c \in Claims, NEW a \in Attempts, NEW pc \in QuotaPCs, Moves(c, a, pc),
           NEW x \in Claim, claim' = [claim EXCEPT ![c] = x], claim[c].status # "committed",
           \/ /\ att[c][a] \in Engaged /\ pc \notin Engaged
              /\ pc = "enqueue_settle" \/ pc = "settle" => x.status = "committed"
           \/ /\ claim[c].status # "reserving" /\ pc \in Engaged /\ pc # "run"
              /\ a = x.seq /\ x.status = "reserving"
    PROVE  QuotaInv'
  <1>1. /\ att' \in [Claims -> [Attempts -> QuotaPCs]] /\ att'[c][a] = pc
        /\ \A d \in Claims, b \in Attempts : d # c \/ b # a => att'[d][b] = att[d][b]
    BY MovesIs, QuotaParts
  <1>2. /\ Others'
        /\ claim'[c] = x /\ \A d \in Claims \ {c} : claim'[d] = claim[d]
    BY <1>1, QuotaParts DEF Others
  <1>3. QuotaBooks'
    BY QuotaParts, RestKeepsRows DEF RowsKept
  <1>4. \A b \in Attempts : b # a => att[c][b] \notin Engaged
    BY QuotaParts DEF AttemptsFollow
  <1>5. \A b \in Attempts : att[c][b] \notin {"settle", "enqueue_settle"}
    BY QuotaParts DEF AttemptsFollow
  <1>6. AttemptsFollow'
    <2>1. ASSUME NEW b \in Attempts
          PROVE  /\ att'[c][b] \in Engaged => b = claim'[c].seq /\ claim'[c].status = "reserving"
                 /\ att'[c][b] \in {"settle", "enqueue_settle"} => claim'[c].status = "committed"
      <3>1. CASE b = a
        BY <1>1, <1>2, <3>1 DEF Engaged
      <3>2. CASE b # a
        BY <1>1, <1>4, <1>5, <3>2
      <3> QED BY <3>1, <3>2
    <2> QED BY <1>1, <1>2, <2>1, QuotaParts DEF AttemptsFollow
  <1>7. SettledIsCommitted'
    BY <1>2, QuotaParts DEF SettledIsCommitted
  <1>8. AdmittedIsCounted'
    BY <1>1, QuotaParts DEF AdmittedIsCounted, Engaged
  <1> QED BY <1>2, <1>3, <1>6, <1>7, <1>8, PrimedQuotaParts

LEMMA ClaimSteps ==
    ASSUME QuotaAssumption, QuotaInv, NEW c \in Claims,
           \/ Start(c)
           \/ \E a \in Attempts : Abort(c, a) \/ SweepClaim(c, a) \/ \E n \in Costs : Commit(c, a, n)
    PROVE  QuotaInv'
  <1>1. /\ claim \in [Claims -> Claim] /\ claim[c] \in Claim
        /\ claim[c].seq \in 0..MaxAttempts /\ claim[c].actual \in Costs \cup {0}
    BY QuotaParts DEF Others, Claim
  <1>2. CASE Start(c)
    <2> DEFINE x == [claim[c] EXCEPT !.status = "reserving", !.seq = @ + 1]
    <2>1. claim[c].seq + 1 \in Attempts /\ claim[c].seq + 1 \in 0..MaxAttempts
      BY <1>1, <1>2, QuotaFacts DEF Start, Attempts
    <2>2. claim' = [claim EXCEPT ![c] = x]
      BY <1>1, <1>2 DEF Start
    <2>3. x \in Claim /\ x.seq = claim[c].seq + 1 /\ x.status = "reserving"
      BY <1>1, <2>1 DEF Claim
    <2>4. claim[c].status \in {"none", "aborted"} /\ Moves(c, claim[c].seq + 1, "quota")
          /\ UNCHANGED <<resv, slot, win, period, job, parked, sweep, quotaFaults>>
      BY <1>2 DEF Start
    <2> HIDE DEF x
    <2>5. "quota" \in QuotaPCs /\ "quota" \in Engaged
      BY DEF QuotaPCs, Engaged
    <2> QED BY <2>1, <2>2, <2>3, <2>4, <2>5, ClaimMoves
  <1>3. ASSUME NEW a \in Attempts, Abort(c, a) \/ SweepClaim(c, a) PROVE QuotaInv'
    <2> DEFINE x == [claim[c] EXCEPT !.status = "aborted"]
    <2>1. claim' = [claim EXCEPT ![c] = x] /\ Moves(c, a, "release") /\ att[c][a] \in Engaged
          /\ UNCHANGED <<resv, slot, win, period, job, parked, sweep, quotaFaults>>
      BY <1>1, <1>3 DEF Abort, SweepClaim, Engaged
    <2>2. x \in Claim
      BY <1>1 DEF Claim
    <2>3. claim[c].status = "reserving"
      BY <2>1, QuotaParts DEF AttemptsFollow
    <2> HIDE DEF x
    <2>4. "release" \in QuotaPCs /\ "release" \notin Engaged
      BY DEF QuotaPCs, Engaged
    <2> QED BY <2>1, <2>2, <2>3, <2>4, ClaimMoves
  <1>4. ASSUME NEW a \in Attempts, NEW n \in Costs, Commit(c, a, n) PROVE QuotaInv'
    <2> DEFINE x == [claim[c] EXCEPT !.status = "committed", !.actual = n]
    <2>1. claim' = [claim EXCEPT ![c] = x] /\ Moves(c, a, "settle") /\ att[c][a] \in Engaged
          /\ UNCHANGED <<resv, slot, win, period, job, parked, sweep, quotaFaults>>
      BY <1>1, <1>4 DEF Commit, Engaged
    <2>2. x \in Claim /\ x.status = "committed"
      BY <1>1 DEF Claim
    <2>3. claim[c].status = "reserving"
      BY <2>1, QuotaParts DEF AttemptsFollow
    <2> HIDE DEF x
    <2>4. "settle" \in QuotaPCs /\ "settle" \notin Engaged
      BY DEF QuotaPCs, Engaged
    <2> QED BY <2>1, <2>2, <2>3, <2>4, ClaimMoves
  <1> QED BY <1>2, <1>3, <1>4

(* Jobs keep their type, and a job that settles is of a committed claim.    *)
LEMMA JobIs ==
    ASSUME QuotaAssumption, QuotaInv, NEW c \in Claims, NEW k \in Kinds, NEW j \in Job,
           job' = [job EXCEPT ![c][k] = j],
           k = "settle" /\ j.state # "none" => claim[c].status = "committed"
    PROVE  /\ job' \in [Claims -> [Kinds -> Job]]
           /\ \A d \in Claims : job'[d]["settle"].state # "none" => claim[d].status = "committed"
  <1>1. job \in [Claims -> [Kinds -> Job]]
    BY QuotaParts DEF Others
  <1>2. \A d \in Claims : job[d]["settle"].state # "none" => claim[d].status = "committed"
    BY QuotaParts DEF SettledIsCommitted
  <1>3. job' = [job EXCEPT ![c] = [job[c] EXCEPT ![k] = j]]
    BY <1>1
  <1>4. [job[c] EXCEPT ![k] = j] \in [Kinds -> Job]
    BY <1>1
  <1>5. job'[c] = [job[c] EXCEPT ![k] = j] /\ \A d \in Claims \ {c} : job'[d] = job[d]
    BY <1>1, <1>3
  <1>6. job'[c]["settle"] = IF k = "settle" THEN j ELSE job[c]["settle"]
    BY <1>1, <1>5 DEF Kinds
  <1> QED BY <1>1, <1>2, <1>3, <1>4, <1>5, <1>6

LEMMA EnqueueIs ==
    ASSUME QuotaAssumption, QuotaInv, NEW c \in Claims, NEW k \in Kinds, Enqueue(c, k),
           k = "settle" => claim[c].status = "committed"
    PROVE  /\ job' \in [Claims -> [Kinds -> Job]]
           /\ \A d \in Claims : job'[d]["settle"].state # "none" => claim[d].status = "committed"
  <1> DEFINE j == IF job[c][k].state = "none" THEN [NoJob EXCEPT !.state = "queued"] ELSE job[c][k]
  <1>1. job \in [Claims -> [Kinds -> Job]]
    BY QuotaParts DEF Others
  <1>2. job' = [job EXCEPT ![c][k] = j]
    BY <1>1 DEF Enqueue
  <1>3. j \in Job
    <2>1. [NoJob EXCEPT !.state = "queued"] \in Job
      BY QuotaFacts DEF NoJob, Job, JobStates
    <2> QED BY <1>1, <2>1
  <1> HIDE DEF j
  <1> QED BY <1>2, <1>3, JobIs

(* An attempt's own steps with its reservation.                             *)
LEMMA AttemptSteps ==
    ASSUME QuotaAssumption, QuotaInv, NEW c \in Claims, NEW a \in Attempts,
           \/ \E cost \in Costs : Reserve(c, a, cost)
           \/ ReserveFails(c, a) \/ AttemptDies(c, a) \/ CloseFails(c, a)
           \/ Settle(c, a) \/ Release(c, a) \/ HandOff(c, a) \/ EnqueueJob(c, a)
    PROVE  QuotaInv'
  <1>1. /\ Others /\ QuotaBooks /\ AttemptsFollow /\ SettledIsCommitted /\ AdmittedIsCounted
        /\ att \in [Claims -> [Attempts -> QuotaPCs]] /\ quotaFaults \in 0..MaxQuotaFaults
    BY QuotaParts DEF Others
  <1>2. ASSUME UNCHANGED <<job, sweep>> PROVE SettlesCommitted
    BY <1>1, <1>2 DEF SettledIsCommitted, SettlesCommitted
  <1>3. ASSUME NEW pc \in QuotaPCs, Moves(c, a, pc), claim' = claim, RowsKept, SettlesCommitted,
               pc \in Engaged => att[c][a] \in Engaged,
               pc \in {"settle", "enqueue_settle"} => claim[c].status = "committed",
               pc = "run" => resv'[c].status = "reserved",
               UNCHANGED <<period, parked, sweep>>, job' \in [Claims -> [Kinds -> Job]],
               quotaFaults' \in 0..MaxQuotaFaults
        PROVE  QuotaInv'
    <2>1. AttemptsFollow' /\ SettledIsCommitted' /\ AdmittedIsCounted'
      BY <1>3, AttemptMoves
    <2>2. att' \in [Claims -> [Attempts -> QuotaPCs]]
      BY <1>1, <1>3, MovesIs
    <2>3. Others'
      BY <1>1, <1>3, <2>2 DEF Others
    <2> QED BY <1>3, <2>1, <2>3, PrimedQuotaParts DEF RowsKept
  <1>4. ASSUME Fault PROVE quotaFaults' \in 0..MaxQuotaFaults
    BY <1>1, <1>4, QuotaFacts DEF Fault
  <1>5. ASSUME NEW cost \in Costs, Reserve(c, a, cost) PROVE QuotaInv'
    <2>1. att[c][a] = "quota" /\ UNCHANGED <<claim, period, job, parked, sweep, quotaFaults>>
      BY <1>5 DEF Reserve
    <2>2. claim[c].status = "reserving" /\ resv[c].status # "settled"
      BY <1>1, <2>1 DEF AttemptsFollow, SettledIsCommitted, Engaged
    <2>3. /\ RowsKept
          /\ \/ Moves(c, a, "run") /\ resv'[c].status = "reserved"
             \/ Moves(c, a, "abort")
      BY <1>1, <1>5, <2>2, ReserveKeepsRows DEF Moves
    <2>4. /\ "run" \in QuotaPCs /\ "abort" \in QuotaPCs /\ att[c][a] \in Engaged
          /\ job' \in [Claims -> [Kinds -> Job]] /\ SettlesCommitted /\ quotaFaults' \in 0..MaxQuotaFaults
      BY <1>1, <1>2, <2>1 DEF QuotaPCs, Engaged, Others
    <2> QED BY <1>3, <2>1, <2>3, <2>4
  <1>6. ASSUME ReserveFails(c, a) PROVE QuotaInv'
    <2>1. /\ UNCHANGED <<claim, resv, slot, win, period, job, parked, sweep>> /\ Fault
          /\ att[c][a] \in Engaged
      BY <1>6 DEF ReserveFails, Engaged
    <2>2. PICK pc \in {"open", "abort"} : Moves(c, a, pc)
      BY <1>6 DEF ReserveFails
    <2>3. pc \in QuotaPCs /\ job' \in [Claims -> [Kinds -> Job]]
      BY <1>1, <2>1 DEF QuotaPCs, Others
    <2>4. RowsKept /\ SettlesCommitted /\ quotaFaults' \in 0..MaxQuotaFaults
      BY <1>1, <1>2, <1>4, <2>1, RestKeepsRows
    <2> QED BY <1>3, <2>1, <2>2, <2>3, <2>4
  <1>7. ASSUME AttemptDies(c, a) PROVE QuotaInv'
    <2> DEFINE pc == IF att[c][a] \in {"quota", "run", "open", "abort"} THEN "orphan" ELSE "done"
    <2>1. /\ UNCHANGED <<claim, resv, slot, win, period, job, parked, sweep>> /\ Fault
          /\ Moves(c, a, pc)
      BY <1>7 DEF AttemptDies
    <2>2. pc \in {"orphan", "done"} /\ (pc \in Engaged => att[c][a] \in Engaged)
      BY DEF Engaged
    <2> HIDE DEF pc
    <2>3. pc \in QuotaPCs /\ job' \in [Claims -> [Kinds -> Job]]
      BY <1>1, <2>1, <2>2 DEF QuotaPCs, Others
    <2>4. RowsKept /\ SettlesCommitted /\ quotaFaults' \in 0..MaxQuotaFaults
      BY <1>1, <1>2, <1>4, <2>1, RestKeepsRows
    <2> QED BY <1>3, <2>1, <2>2, <2>3, <2>4
  <1>8. ASSUME CloseFails(c, a) PROVE QuotaInv'
    <2> DEFINE pc == IF att[c][a] = "settle" THEN "enqueue_settle" ELSE "prepare"
    <2>1. /\ UNCHANGED <<claim, resv, slot, win, period, job, parked, sweep>> /\ Fault
          /\ Moves(c, a, pc)
      BY <1>8 DEF CloseFails
    <2>2. /\ pc \in {"enqueue_settle", "prepare"} /\ pc \notin Engaged
          /\ pc = "enqueue_settle" => claim[c].status = "committed"
      BY <1>1 DEF Engaged, AttemptsFollow
    <2> HIDE DEF pc
    <2>3. pc \in QuotaPCs /\ job' \in [Claims -> [Kinds -> Job]]
      BY <1>1, <2>1, <2>2 DEF QuotaPCs, Others
    <2>4. RowsKept /\ SettlesCommitted /\ quotaFaults' \in 0..MaxQuotaFaults
      BY <1>1, <1>2, <1>4, <2>1, RestKeepsRows
    <2> QED BY <1>3, <2>1, <2>2, <2>3, <2>4
  <1>9. ASSUME Settle(c, a) PROVE QuotaInv'
    <2> DEFINE pc == IF SettleAnswer(c) = "complete" THEN "done" ELSE "enqueue_settle"
    <2>1. /\ UNCHANGED <<claim, period, job, parked, sweep, quotaFaults>>
          /\ Moves(c, a, pc) /\ SettleTx(c) /\ att[c][a] = "settle"
      BY <1>9 DEF Settle
    <2>2. pc \in {"done", "enqueue_settle"} /\ pc \notin Engaged /\ claim[c].status = "committed"
      BY <1>1, <2>1 DEF Engaged, AttemptsFollow
    <2> HIDE DEF pc
    <2>3. pc \in QuotaPCs /\ job' \in [Claims -> [Kinds -> Job]] /\ quotaFaults' \in 0..MaxQuotaFaults
      BY <1>1, <2>1, <2>2 DEF QuotaPCs, Others
    <2>4. RowsKept /\ SettlesCommitted
      BY <1>1, <1>2, <2>1, <2>2, SettleKeepsRows
    <2> QED BY <1>3, <2>1, <2>2, <2>3, <2>4
  <1>10. ASSUME Release(c, a) PROVE QuotaInv'
    <2>1. /\ UNCHANGED <<claim, period, job, parked, sweep, quotaFaults>>
          /\ Moves(c, a, "done") /\ ReleaseTx(c)
      BY <1>10 DEF Release
    <2>2. /\ "done" \in QuotaPCs /\ "done" \notin Engaged /\ job' \in [Claims -> [Kinds -> Job]]
          /\ quotaFaults' \in 0..MaxQuotaFaults
      BY <1>1, <2>1 DEF QuotaPCs, Engaged, Others
    <2>3. RowsKept /\ SettlesCommitted
      BY <1>1, <1>2, <2>1, ReleaseKeepsRows
    <2> QED BY <1>3, <2>1, <2>2, <2>3
  <1>11. ASSUME HandOff(c, a) PROVE QuotaInv'
    <2>1. UNCHANGED <<claim, slot, win, period, job, parked, sweep, quotaFaults>>
      BY <1>11 DEF HandOff
    <2>2. \/ Recoverable(c) /\ Prepare(c) /\ Moves(c, a, "enqueue_release")
          \/ resv' = resv /\ Moves(c, a, "done")
      BY <1>11 DEF HandOff
    <2>3. /\ "done" \in QuotaPCs /\ "enqueue_release" \in QuotaPCs /\ "done" \notin Engaged
          /\ "enqueue_release" \notin Engaged /\ job' \in [Claims -> [Kinds -> Job]]
          /\ quotaFaults' \in 0..MaxQuotaFaults
      BY <1>1, <2>1 DEF QuotaPCs, Engaged, Others
    <2>4. RowsKept /\ SettlesCommitted
      BY <1>1, <1>2, <2>1, <2>2, PrepareKeepsRows, RestKeepsRows
    <2> QED BY <1>3, <2>1, <2>2, <2>3, <2>4
  <1>12. ASSUME EnqueueJob(c, a) PROVE QuotaInv'
    <2> DEFINE k == IF att[c][a] = "enqueue_settle" THEN "settle" ELSE "release"
    <2>1. /\ UNCHANGED <<claim, resv, slot, win, period, parked, sweep, quotaFaults>>
          /\ Moves(c, a, "done") /\ Enqueue(c, k)
      BY <1>12 DEF EnqueueJob
    <2>2. k \in Kinds /\ (k = "settle" => claim[c].status = "committed")
      BY <1>1 DEF Kinds, AttemptsFollow
    <2> HIDE DEF k
    <2>3. /\ job' \in [Claims -> [Kinds -> Job]]
          /\ \A d \in Claims : job'[d]["settle"].state # "none" => claim[d].status = "committed"
      BY <2>1, <2>2, EnqueueIs
    <2>4. SettlesCommitted
      BY <1>1, <2>1, <2>3 DEF SettlesCommitted, SettledIsCommitted
    <2>5. "done" \in QuotaPCs /\ "done" \notin Engaged /\ quotaFaults' \in 0..MaxQuotaFaults /\ RowsKept
      BY <1>1, <2>1, RestKeepsRows DEF QuotaPCs, Engaged
    <2> QED BY <1>3, <2>1, <2>3, <2>4, <2>5
  <1> QED BY <1>5, <1>6, <1>7, <1>8, <1>9, <1>10, <1>11, <1>12

(* The reconciler's steps leave claims and attempts alone.                  *)
LEMMA RestOfInv ==
    ASSUME QuotaAssumption, QuotaInv, UNCHANGED <<claim, att>>, RowsKept, SettlesCommitted,
           period' \in Periods, job' \in [Claims -> [Kinds -> Job]], parked' \in [Claims -> BOOLEAN],
           sweep' \in [Claims -> {"none", "listed"} \cup Kinds], quotaFaults' \in 0..MaxQuotaFaults
    PROVE  QuotaInv'
  <1>1. AttemptsFollow' /\ SettledIsCommitted' /\ AdmittedIsCounted'
    BY AttemptsRest
  <1>2. Others'
    BY QuotaParts DEF Others
  <1> QED BY <1>1, <1>2, PrimedQuotaParts DEF RowsKept

LEMMA JobSteps ==
    ASSUME QuotaAssumption, QuotaInv, NEW c \in Claims, NEW k \in Kinds,
           \/ JobRun(c, k) \/ JobReplay(c, k) \/ JobClose(c, k)
           \/ JobReplayFails(c, k) \/ JobLockEnds(c, k)
    PROVE  QuotaInv'
  <1>1. /\ Others /\ QuotaBooks /\ SettledIsCommitted
        /\ job \in [Claims -> [Kinds -> Job]] /\ job[c][k] \in Job /\ period \in Periods
        /\ parked \in [Claims -> BOOLEAN] /\ sweep \in [Claims -> {"none", "listed"} \cup Kinds]
        /\ quotaFaults \in 0..MaxQuotaFaults
    BY QuotaParts DEF Others
  <1>2. k = "settle" /\ job[c][k].state # "none" => claim[c].status = "committed"
    BY <1>1 DEF SettledIsCommitted
  <1>3. job[c][k].state \in JobStates /\ job[c][k].tries \in 0..MaxTries
    BY <1>1 DEF Job
  <1>4. ASSUME NEW j \in Job, job' = [job EXCEPT ![c][k] = j],
               k = "settle" /\ j.state # "none" => claim[c].status = "committed",
               RowsKept, UNCHANGED <<claim, period, att, sweep>>, parked' \in [Claims -> BOOLEAN],
               quotaFaults' \in 0..MaxQuotaFaults
        PROVE  QuotaInv'
    <2>1. /\ job' \in [Claims -> [Kinds -> Job]]
          /\ \A d \in Claims : job'[d]["settle"].state # "none" => claim[d].status = "committed"
      BY <1>4, JobIs
    <2>2. SettlesCommitted
      BY <1>1, <1>4, <2>1 DEF SettlesCommitted, SettledIsCommitted
    <2> QED BY <1>1, <1>4, <2>1, <2>2, RestOfInv
  <1>5. \A s \in JobStates : [job[c][k] EXCEPT !.state = s] \in Job /\ [job[c][k] EXCEPT !.state = s].state = s
    BY <1>1 DEF Job
  <1>6. ASSUME Fault PROVE quotaFaults' \in 0..MaxQuotaFaults
    BY <1>1, <1>6, QuotaFacts DEF Fault
  <1>7. ASSUME JobRun(c, k) PROVE QuotaInv'
    <2> DEFINE j == [state |-> "running",
                     tries |-> IF job[c][k].tries < MaxTries THEN job[c][k].tries + 1 ELSE job[c][k].tries]
    <2>1. job' = [job EXCEPT ![c][k] = j] /\ job[c][k].state = "queued"
          /\ UNCHANGED <<claim, resv, slot, win, period, att, parked, sweep, quotaFaults>>
      BY <1>7 DEF JobRun
    <2>2. j \in Job
      BY <1>3, QuotaFacts DEF Job, JobStates
    <2> HIDE DEF j
    <2> QED BY <1>1, <1>2, <1>4, <2>1, <2>2, RestKeepsRows
  <1>8. ASSUME JobReplay(c, k) PROVE QuotaInv'
    <2> DEFINE s == IF k = "settle" THEN SettleAnswer(c) ELSE ReleaseAnswer(c)
               j == [job[c][k] EXCEPT !.state = s]
    <2>1. /\ job[c][k].state = "running" /\ (IF k = "settle" THEN SettleTx(c) ELSE ReleaseTx(c))
          /\ UNCHANGED <<claim, period, att, parked, sweep, quotaFaults>>
      BY <1>8 DEF JobReplay
    <2>2. job' = [job EXCEPT ![c][k] = j]
      BY <1>1, <1>8 DEF JobReplay
    <2>3. s \in JobStates
      BY DEF SettleAnswer, ReleaseAnswer, JobStates
    <2>4. j \in Job
      BY <1>5, <2>3
    <2> HIDE DEF s, j
    <2>5. RowsKept
      BY <1>1, <1>2, <2>1, SettleKeepsRows, ReleaseKeepsRows
    <2> QED BY <1>1, <1>2, <1>4, <2>1, <2>2, <2>4, <2>5
  <1>9. ASSUME JobClose(c, k) PROVE QuotaInv'
    <2> DEFINE park == JobParks(job[c][k])
               j == IF park \/ job[c][k].state = "complete" THEN NoJob
                    ELSE [job[c][k] EXCEPT !.state = "queued"]
    <2>1. /\ job' = [job EXCEPT ![c][k] = j] /\ job[c][k].state # "none"
          /\ parked' = [parked EXCEPT ![c] = parked[c] \/ park]
          /\ UNCHANGED <<claim, resv, slot, win, period, att, sweep, quotaFaults>>
      BY <1>9 DEF JobClose
    <2>2. NoJob \in Job
      BY QuotaFacts DEF NoJob, Job, JobStates
    <2>3. j \in Job
      BY <1>5, <2>2 DEF JobStates
    <2>4. parked' \in [Claims -> BOOLEAN]
      <3>1. park \in BOOLEAN
        BY DEF JobParks
      <3> HIDE DEF park
      <3>2. (parked[c] \/ park) \in BOOLEAN
        BY <1>1, <3>1
      <3> QED BY <1>1, <2>1, <3>2
    <2> HIDE DEF j, park
    <2> QED BY <1>1, <1>2, <1>4, <2>1, <2>3, <2>4, RestKeepsRows
  <1>10. ASSUME JobReplayFails(c, k) PROVE QuotaInv'
    <2> DEFINE j == [job[c][k] EXCEPT !.state = "refused"]
    <2>1. /\ job[c][k].state = "running" /\ Fault
          /\ UNCHANGED <<claim, slot, win, period, att, parked, sweep>>
      BY <1>10 DEF JobReplayFails
    <2>2. job' = [job EXCEPT ![c][k] = j]
      BY <1>1, <1>10 DEF JobReplayFails
    <2>3. \/ k = "settle" /\ MarkNeeded(c)
          \/ Recoverable(c) /\ Prepare(c)
          \/ resv' = resv
      BY <1>10 DEF JobReplayFails
    <2>4. j \in Job
      BY <1>5 DEF JobStates
    <2> HIDE DEF j
    <2>5. RowsKept
      BY <1>1, <1>2, <2>1, <2>3, MarkNeededKeepsRows, PrepareKeepsRows, RestKeepsRows
    <2> QED BY <1>1, <1>2, <1>4, <1>6, <2>1, <2>2, <2>4, <2>5
  <1>11. ASSUME JobLockEnds(c, k) PROVE QuotaInv'
    <2> DEFINE j == [job[c][k] EXCEPT !.state = "queued"]
    <2>1. /\ job[c][k].state # "none" /\ Fault
          /\ UNCHANGED <<claim, resv, slot, win, period, att, parked, sweep>>
      BY <1>11 DEF JobLockEnds
    <2>2. job' = [job EXCEPT ![c][k] = j]
      BY <1>1, <1>11 DEF JobLockEnds
    <2>4. j \in Job
      BY <1>5 DEF JobStates
    <2> HIDE DEF j
    <2> QED BY <1>1, <1>2, <1>4, <1>6, <2>1, <2>2, <2>4, RestKeepsRows
  <1> QED BY <1>7, <1>8, <1>9, <1>10, <1>11

LEMMA SweepSteps ==
    ASSUME QuotaAssumption, QuotaInv, NEW c \in Claims,
           SweepList(c) \/ SweepRecheck(c) \/ SweepAct(c) \/ SweepFails(c) \/ LeaseEnds(c) \/ ReverseCost(c)
    PROVE  QuotaInv'
  <1>1. /\ Others /\ QuotaBooks /\ SettledIsCommitted
        /\ job \in [Claims -> [Kinds -> Job]] /\ period \in Periods
        /\ parked \in [Claims -> BOOLEAN] /\ sweep \in [Claims -> {"none", "listed"} \cup Kinds]
        /\ quotaFaults \in 0..MaxQuotaFaults
    BY QuotaParts DEF Others
  <1>2. sweep[c] = "settle" => claim[c].status = "committed"
    BY <1>1 DEF SettledIsCommitted
  <1>3. ASSUME RowsKept, UNCHANGED <<claim, period, att, parked>>, quotaFaults' \in 0..MaxQuotaFaults,
               NEW s \in {"none", "listed"} \cup Kinds, sweep' = [sweep EXCEPT ![c] = s],
               s = "settle" => claim[c].status = "committed",
               \/ job' = job
               \/ \E k \in Kinds : Enqueue(c, k) /\ (k = "settle" => claim[c].status = "committed")
        PROVE  QuotaInv'
    <2>1. /\ job' \in [Claims -> [Kinds -> Job]]
          /\ \A d \in Claims : job'[d]["settle"].state # "none" => claim[d].status = "committed"
      BY <1>1, <1>3, EnqueueIs DEF SettledIsCommitted
    <2>2. SettlesCommitted
      BY <1>1, <1>3, <2>1 DEF SettlesCommitted, SettledIsCommitted
    <2>3. sweep' \in [Claims -> {"none", "listed"} \cup Kinds]
      BY <1>1, <1>3
    <2> QED BY <1>1, <1>3, <2>1, <2>2, <2>3, RestOfInv
  <1>4. ASSUME SweepList(c) PROVE QuotaInv'
    <2>1. /\ sweep' = [sweep EXCEPT ![c] = "listed"]
          /\ UNCHANGED <<claim, resv, slot, win, period, att, job, parked, quotaFaults>>
      BY <1>4 DEF SweepList
    <2> QED BY <1>1, <1>3, <2>1, RestKeepsRows
  <1>5. ASSUME SweepRecheck(c) PROVE QuotaInv'
    <2> DEFINE s == CASE ~Held(c) \/ resv[c].live -> "none"
                      [] claim[c].status = "committed" -> "settle"
                      [] claim[c].status = "aborted" -> "release"
                      [] OTHER -> "none"
    <2>1. /\ sweep' = [sweep EXCEPT ![c] = s]
          /\ UNCHANGED <<claim, resv, slot, win, period, att, job, parked, quotaFaults>>
      BY <1>5 DEF SweepRecheck
    <2>2. s \in {"none", "listed"} \cup Kinds /\ (s = "settle" => claim[c].status = "committed")
      BY DEF Kinds
    <2> HIDE DEF s
    <2> QED BY <1>1, <1>3, <2>1, <2>2, RestKeepsRows
  <1>6. ASSUME SweepAct(c) PROVE QuotaInv'
    <2>1. /\ sweep' = [sweep EXCEPT ![c] = "none"] /\ sweep[c] \in Kinds
          /\ IF sweep[c] = "settle" THEN SettleTx(c) ELSE ReleaseTx(c)
          /\ UNCHANGED <<claim, period, att, parked, quotaFaults>>
          /\ job' = job \/ (sweep[c] = "settle" /\ Enqueue(c, "settle"))
      BY <1>6 DEF SweepAct
    <2>2. RowsKept
      BY <1>1, <1>2, <2>1, SettleKeepsRows, ReleaseKeepsRows
    <2>3. "settle" \in Kinds /\ "none" # "settle"
      BY DEF Kinds
    <2> QED BY <1>1, <1>2, <1>3, <2>1, <2>2, <2>3
  <1>7. ASSUME SweepFails(c) PROVE QuotaInv'
    <2>1. /\ sweep' = [sweep EXCEPT ![c] = "none"] /\ sweep[c] \in Kinds /\ Fault
          /\ UNCHANGED <<claim, slot, win, period, att, parked>>
          /\ \/ sweep[c] = "settle" /\ MarkNeeded(c) /\ Enqueue(c, "settle")
             \/ Recoverable(c) /\ Prepare(c) /\ Enqueue(c, "release")
             \/ UNCHANGED <<resv, job>>
      BY <1>7 DEF SweepFails
    <2>2. RowsKept
      BY <1>1, <1>2, <2>1, MarkNeededKeepsRows, PrepareKeepsRows, RestKeepsRows
    <2>3. "settle" \in Kinds /\ "release" \in Kinds /\ "none" # "settle" /\ "release" # "settle"
      BY DEF Kinds
    <2>4. quotaFaults' \in 0..MaxQuotaFaults
      BY <1>1, <2>1, QuotaFacts DEF Fault
    <2> QED BY <1>1, <1>2, <1>3, <2>1, <2>2, <2>3, <2>4
  <1>8. ASSUME LeaseEnds(c) \/ ReverseCost(c) PROVE QuotaInv'
    <2>1. UNCHANGED <<claim, period, att, job, parked, sweep, quotaFaults>>
      BY <1>8 DEF LeaseEnds, ReverseCost
    <2>2. RowsKept
      BY <1>1, <1>8, LeaseKeepsRows, ReverseKeepsRows
    <2>3. SettlesCommitted
      BY <1>1, <2>1 DEF SettlesCommitted, SettledIsCommitted
    <2> QED BY <1>1, <2>1, <2>2, <2>3, RestOfInv
  <1> QED BY <1>4, <1>5, <1>6, <1>7, <1>8

LEMMA NextQuota == QuotaAssumption /\ QuotaInv /\ [QuotaNext]_quotaVars => QuotaInv'
  <1> SUFFICES ASSUME QuotaAssumption, QuotaInv, [QuotaNext]_quotaVars PROVE QuotaInv'
    OBVIOUS
  <1>1. ASSUME UNCHANGED <<claim, resv, slot, win, att, job, parked, sweep, quotaFaults>>, period' \in Periods
        PROVE  QuotaInv'
    <2>1. RowsKept
      BY <1>1, QuotaParts, RestKeepsRows
    <2>2. SettlesCommitted
      BY <1>1, QuotaParts DEF SettlesCommitted, SettledIsCommitted
    <2> QED BY <1>1, <2>1, <2>2, QuotaParts, RestOfInv DEF Others
  <1>2. CASE UNCHANGED quotaVars
    BY <1>1, <1>2, QuotaParts DEF quotaVars, Others
  <1>3. CASE NextPeriod
    BY <1>1, <1>3 DEF NextPeriod
  <1>4. ASSUME NEW c \in Claims, Reconcile(c) PROVE QuotaInv'
    BY <1>4, JobSteps, SweepSteps DEF Reconcile
  <1>5. ASSUME NEW c \in Claims, NEW a \in Attempts, Attempt(c, a) PROVE QuotaInv'
    BY <1>5, AttemptSteps, ClaimSteps DEF Attempt
  <1> QED
    BY <1>2, <1>3, <1>4, <1>5, AttemptSteps, ClaimSteps, JobSteps, SweepSteps DEF QuotaNext

LEMMA InitQuota == QuotaAssumption /\ QuotaInit => QuotaInv
  <1> SUFFICES ASSUME QuotaAssumption, QuotaInit PROVE QuotaInv
    OBVIOUS
  <1>1. Tables
    BY QuotaFacts DEF QuotaInit, Tables, Resv, Window, SlotStatus
  <1>2. Others
    BY QuotaFacts DEF QuotaInit, Others, Claim, Job, JobStates, NoJob, QuotaPCs
  <1>3. ASSUME NEW p \in Periods
        PROVE  /\ IsFiniteSet(Coins(Reserved(p), Claims)) /\ IsFiniteSet(Coins(Settled(p), Claims))
               /\ SumOf(Reserved(p), Claims) = 0 /\ SumOf(Settled(p), Claims) = 0
    <2>1. \A c \in Claims : Reserved(p)[c] = 0 /\ Settled(p)[c] = 0
      BY DEF QuotaInit, Reserved, Settled, Held
    <2> QED BY <2>1, SumOfNothing
  <1>4. Countable /\ WindowsAgree /\ OverrunIsRecorded
    BY <1>3, QuotaFacts DEF QuotaInit, Countable, WindowsAgree, OverrunIsRecorded
  <1>5. SlotLimit
    <2>1. {c \in Claims : slot[c] = "held"} = {}
      BY DEF QuotaInit
    <2> QED BY <2>1, FS_EmptySet, QuotaFacts DEF SlotLimit
  <1>6. SlotFollowsReservation /\ AttemptsFollow /\ SettledIsCommitted /\ AdmittedIsCounted
    BY DEF QuotaInit, SlotFollowsReservation, AttemptsFollow, SettledIsCommitted, AdmittedIsCounted,
           Engaged, Kinds, NoJob
  <1> QED BY <1>1, <1>2, <1>4, <1>5, <1>6, QuotaParts DEF QuotaBooks

(* Attempts, jobs and sweeps that come late or twice leave the windows, the *)
(* slots and the reservations of running attempts right, for any number of  *)
(* claims, attempts, windows and costs (quota/service_settle.go:103, 191).  *)
THEOREM QuotaIsSafe == QuotaSpec => []QuotaSafety
  <1>1. QuotaInit => QuotaInv
    BY InitQuota, QuotaAssumption
  <1>2. QuotaInv /\ [QuotaNext]_quotaVars => QuotaInv'
    BY NextQuota, QuotaAssumption
  <1>3. QuotaInv => QuotaSafety
    BY DEF QuotaInv, QuotaBooks, QuotaSafety
  <1> QED BY <1>1, <1>2, <1>3, PTL DEF QuotaSpec
===============================================================================
