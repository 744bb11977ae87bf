---------------------------- MODULE AuthCooldown ----------------------------
(***************************************************************************)
(* The authentication cooldown lane of one provider account                *)
(* (internal/authcooldown): every replica keeps a mirror of the account's  *)
(* entry, the table provider_account_auth_cooldowns is the truth they      *)
(* share.  A failed authentication suspends the account for a window that  *)
(* doubles, a refresh that the provider refuses for good disables it; a    *)
(* success ends the window, only an operator or an explicit rotation of    *)
(* the credential lifts the disable.  A write to the table may fail: the   *)
(* replica then keeps an entry of its own, which Reload writes back.       *)
(*                                                                         *)
(* Each statement on the table is one step; what the process does before   *)
(* and after it are steps of their own.  Instants are 1..MaxTime, 0 stands *)
(* for an absent timestamp.  proof and evidence are history: the version   *)
(* that earned a disable, and when.                                        *)
(***************************************************************************)
EXTENDS Naturals, FiniteSets

CONSTANTS
    Replicas,     \* gateway processes
    Requests,     \* upstream attempts, each made once
    Base, Cap,    \* first window and longest window
    StrikeLimit,  \* strikes at which an iron-clad failure disables
    MaxTime, LastFailure, MaxVersion, MaxResumes, MaxFaults  \* bounds of the exploration

LaneAssumption ==
    /\ {Base, StrikeLimit, MaxTime, LastFailure, MaxVersion} \subseteq Nat \ {0}
    /\ {Cap, MaxResumes, MaxFaults} \subseteq Nat
    /\ Base <= Cap

None == [at |-> "none"]     \* no row, no entry, no answer

VARIABLES
    now,         \* the clock the replicas and the database share
    cred,        \* account_credentials: version, and the one last installed by a rotation
    row,         \* the account's row in provider_account_auth_cooldowns
    mirror,      \* replica -> its entry, local when the table does not have it
    req,         \* request -> where it is and what it carries
    reload,      \* replica -> where its Reload is
    op,          \* the operator's resume: where it is
    resumes,     \* resumes that have reached the table
    lastResume,  \* history: when the last one did, 0 after a rotation
    told,        \* history: replica -> when it last accepted that this credential is dead
    faults       \* statements that have failed so far

laneVars == <<now, cred, row, mirror, req, reload, op, resumes, lastResume, told, faults>>

FailureClasses == {"ambiguous", "iron_clad"}

Backoff(strike) ==
    LET d == Base * 2 ^ (strike - 1) IN IF d > Cap THEN Cap ELSE d

Later(a, b) == IF a > b THEN a ELSE b

Idle == [pc |-> "idle", replica |-> None, version |-> 0, class |-> "ambiguous",
         at |-> 0, reply |-> None]

Done == [Idle EXCEPT !.pc = "done"]

\* A request about to learn what the refresh brought.
Refreshing(q) == [Idle EXCEPT !.pc = "refreshing", !.replica = req[q].replica,
                              !.version = req[q].version]

TypeOfEntry ==
    [strike : 0..MaxTime, until : 0..(MaxTime + Cap), hard : BOOLEAN, version : 0..MaxVersion,
     hardAt : 0..MaxTime, escalated : 0..MaxTime, local : BOOLEAN, proof : 0..MaxVersion]

TypeOfRow ==
    [strike : 0..MaxTime, until : 0..(MaxTime + Cap), hard : BOOLEAN, version : 0..MaxVersion,
     hardAt : 0..MaxTime, escalated : 0..MaxTime, resumed : 0..MaxTime,
     proof : 0..MaxVersion, evidence : 0..MaxTime]

LaneInit ==
    /\ now = 1
    /\ cred = [version |-> 1, installed |-> 1]
    /\ row = None
    /\ mirror = [r \in Replicas |-> None]
    /\ req = [q \in Requests |-> Idle]
    /\ reload = [r \in Replicas |-> [pc |-> "idle", pending |-> None, reply |-> None]]
    /\ op = [pc |-> "idle", replica |-> None]
    /\ resumes = 0 /\ lastResume = 0
    /\ told = [r \in Replicas |-> 0]
    /\ faults = 0

(***************************************************************************)
(* The statements of auth_cooldown_lane.sql, as the row they leave.        *)
(***************************************************************************)

EntryOf(r) == [strike |-> r.strike, until |-> r.until, hard |-> r.hard, version |-> r.version,
               hardAt |-> r.hardAt, escalated |-> r.escalated, proof |-> r.proof,
               local |-> FALSE]

\* A higher version than v is already in the credential table.
Superseded(v) == cred.version > v

FirstFailure(v, class, at) ==
    LET hard == class = "iron_clad" /\ 1 >= StrikeLimit
    IN [strike |-> 1, until |-> at + Backoff(1), hard |-> hard, version |-> v,
        hardAt |-> IF hard THEN at ELSE 0, escalated |-> at, resumed |-> 0,
        proof |-> IF hard THEN v ELSE 0, evidence |-> IF hard THEN at ELSE 0]

Advances(e, v) == e.version > 0 /\ v > e.version

\* Fault: a failure inside the window counts again.
CountsFailure_EveryBurst(v, at) ==
    IF row = None THEN ~Superseded(v)
    ELSE /\ ~(row.version > 0 /\ v < row.version)
         /\ row.version > 0 \/ ~Superseded(v)
         /\ ~row.hard

CountsFailure(v, at) ==
    IF row = None THEN ~Superseded(v)
    ELSE /\ ~(row.version > 0 /\ v < row.version)
         /\ row.version > 0 \/ ~Superseded(v)
         /\ ~row.hard
         /\ row.until = 0 \/ at > row.until \/ Advances(row, v)

FailedRow(v, class, at) ==
    IF row = None THEN FirstFailure(v, class, at)
    ELSE LET strike == IF Advances(row, v) THEN 1 ELSE row.strike + 1
             hard   == class = "iron_clad" /\ strike >= StrikeLimit
         IN [row EXCEPT !.strike = strike, !.until = at + Backoff(strike), !.hard = hard,
                        !.hardAt = IF hard THEN at ELSE 0, !.escalated = at,
                        !.version = Later(row.version, v),
                        !.proof = IF hard THEN v ELSE 0,
                        !.evidence = IF hard THEN at ELSE 0]

\* Fault: the tombstone of a resume is not looked at.
Disables_NoTombstone(v, evidenceAt) == ~Superseded(v)

\* Fault: the version the account has now is not looked at.
Disables_AnyVersion(v, evidenceAt) == row = None \/ row.resumed < evidenceAt

Disables(v, evidenceAt) ==
    /\ ~Superseded(v)
    /\ row = None \/ row.resumed < evidenceAt

DisabledRow(v, proof, evidenceAt, at) ==
    IF row = None
    THEN [strike |-> 0, until |-> 0, hard |-> TRUE, version |-> v, hardAt |-> at,
          escalated |-> 0, resumed |-> 0, proof |-> proof, evidence |-> evidenceAt]
    ELSE [row EXCEPT !.hard = TRUE, !.hardAt = IF row.hardAt = 0 THEN at ELSE row.hardAt,
                     !.version = Later(row.version, v), !.proof = Later(row.proof, proof),
                     !.evidence = Later(row.evidence, evidenceAt)]

\* MarkHardDisabled returns no LastEscalatedAt.
DisabledEntry(v, proof, evidenceAt, at) ==
    [EntryOf(DisabledRow(v, proof, evidenceAt, at)) EXCEPT !.escalated = 0]

\* Fault: a success removes the row whatever it holds.
SoftClearedRow_HardToo ==
    IF row = None \/ row.resumed = 0 THEN None
    ELSE [row EXCEPT !.strike = 0, !.until = 0, !.hard = FALSE, !.hardAt = 0]

SoftClearedRow ==
    IF row = None \/ row.hard THEN row
    ELSE IF row.resumed = 0 THEN None
    ELSE [row EXCEPT !.strike = 0, !.until = 0]

\* Fault: a resume leaves the instant of the disable behind.
ResumedRow_KeepsHardAt ==
    IF row = None
    THEN [strike |-> 0, until |-> 0, hard |-> FALSE, version |-> 0, hardAt |-> 0,
          escalated |-> 0, resumed |-> now, proof |-> 0, evidence |-> 0]
    ELSE [row EXCEPT !.strike = 0, !.until = 0, !.hard = FALSE, !.resumed = now,
                     !.proof = 0, !.evidence = 0]

ResumedRow ==
    IF row = None
    THEN [strike |-> 0, until |-> 0, hard |-> FALSE, version |-> 0, hardAt |-> 0,
          escalated |-> 0, resumed |-> now, proof |-> 0, evidence |-> 0]
    ELSE [row EXCEPT !.strike = 0, !.until = 0, !.hard = FALSE, !.hardAt = 0,
                     !.resumed = now, !.proof = 0, !.evidence = 0]

(***************************************************************************)
(* Selection: the candidate query reads the table, the gate the mirror.    *)
(***************************************************************************)

TruthBlocks == row # None /\ (row.hard \/ row.until > now)

MirrorBlocks(r) == mirror[r] # None /\ (mirror[r].hard \/ now < mirror[r].until)

Selectable(r) == ~TruthBlocks /\ ~MirrorBlocks(r)

Select(q, r) ==
    /\ req[q].pc = "idle" /\ Selectable(r)
    /\ req' = [req EXCEPT ![q].pc = "selected", ![q].replica = r]
    /\ UNCHANGED <<now, cred, row, mirror, reload, op, resumes, lastResume, told, faults>>

\* The vault is asked after the account was chosen.
LoadCredential(q) ==
    /\ req[q].pc = "selected"
    /\ req' = [req EXCEPT ![q].pc = "flying", ![q].version = cred.version]
    /\ UNCHANGED <<now, cred, row, mirror, reload, op, resumes, lastResume, told, faults>>

(***************************************************************************)
(* A success: Clear with ClearReasonSuccess.                               *)
(***************************************************************************)

Succeed(q) ==
    LET r == req[q].replica
        cleared == mirror[r] # None /\ ~mirror[r].hard
    IN /\ req[q].pc = "flying"
       /\ mirror' = IF cleared THEN [mirror EXCEPT ![r] = None] ELSE mirror
       /\ req' = [req EXCEPT ![q] = IF cleared THEN [Idle EXCEPT !.pc = "clearing"] ELSE Done]
       /\ UNCHANGED <<now, cred, row, reload, op, resumes, lastResume, told, faults>>

Fault == faults < MaxFaults /\ faults' = faults + 1

ClearSoft(q) ==
    /\ req[q].pc = "clearing"
    /\ \/ row' = SoftClearedRow /\ UNCHANGED faults
       \/ row' \in {row, SoftClearedRow} /\ Fault
    /\ req' = [req EXCEPT ![q] = Done]
    /\ UNCHANGED <<now, cred, mirror, reload, op, resumes, lastResume, told>>

(***************************************************************************)
(* A refused credential: Suspend.                                          *)
(***************************************************************************)

WithinLocalWindow(r, v) ==
    /\ mirror[r] # None /\ ~mirror[r].local /\ ~Advances(mirror[r], v)
    /\ mirror[r].hard \/ now <= mirror[r].until

Fail(q, class) ==
    /\ req[q].pc = "flying" /\ now <= LastFailure
    /\ req' = [req EXCEPT ![q] = IF WithinLocalWindow(@.replica, @.version)
                                 THEN Refreshing(q)
                                 ELSE [@ EXCEPT !.pc = "failing", !.class = class, !.at = now]]
    /\ UNCHANGED <<now, cred, row, mirror, reload, op, resumes, lastResume, told, faults>>

RecordFailure(q) ==
    LET v == req[q].version
        counted == CountsFailure(v, req[q].at)
        after == IF counted THEN FailedRow(v, req[q].class, req[q].at) ELSE row
    IN /\ req[q].pc = "failing"
       /\ \/ /\ row' = after
             /\ req' = [req EXCEPT ![q] =
                   IF counted THEN [Refreshing(q) EXCEPT !.pc = "mirroring", !.reply = EntryOf(after)]
                   ELSE Refreshing(q)]
             /\ UNCHANGED faults
          \/ /\ row' \in {row, after} /\ Fault
             /\ req' = [req EXCEPT ![q].pc = "alone"]
       /\ UNCHANGED <<now, cred, mirror, reload, op, resumes, lastResume, told>>

StoreMirror(q) ==
    /\ req[q].pc = "mirroring"
    /\ mirror' = [mirror EXCEPT ![req[q].replica] = req[q].reply]
    /\ req' = [req EXCEPT ![q] = Refreshing(q)]
    /\ UNCHANGED <<now, cred, row, reload, op, resumes, lastResume, told, faults>>

\* What suspendLocal makes of the entry e: e itself when the failure does not count.
SuspendedEntry(e, v, class, at) ==
    LET known  == IF e = None
                  THEN [strike |-> 0, until |-> 0, hard |-> FALSE, version |-> v, hardAt |-> 0,
                        escalated |-> 0, local |-> FALSE, proof |-> 0]
                  ELSE IF Advances(e, v) THEN [e EXCEPT !.strike = 0, !.until = 0, !.version = v]
                  ELSE [e EXCEPT !.version = Later(@, v)]
        strike == known.strike + 1
        newly  == class = "iron_clad" /\ strike >= StrikeLimit /\ ~known.hard
    IN IF e # None /\ e.version > 0 /\ v < e.version THEN e
       ELSE IF at <= known.until THEN known
       ELSE [known EXCEPT !.strike = strike, !.until = at + Backoff(strike), !.escalated = at,
                          !.hard = known.hard \/ newly,
                          !.hardAt = IF newly THEN at ELSE @,
                          !.proof = IF newly THEN v ELSE @, !.local = TRUE]

SuspendLocal(q) ==
    LET r == req[q].replica
    IN /\ req[q].pc = "alone"
       /\ mirror' = [mirror EXCEPT ![r] = SuspendedEntry(@, req[q].version, req[q].class, req[q].at)]
       /\ req' = [req EXCEPT ![q] = Refreshing(q)]
       /\ UNCHANGED <<now, cred, row, reload, op, resumes, lastResume, told, faults>>

(***************************************************************************)
(* The refresh the failure asked for: nothing to tell, a new version of    *)
(* the credential, or invalid_grant (OnRefreshResult).                     *)
(***************************************************************************)

RefreshNothing(q) ==
    /\ req[q].pc = "refreshing"
    /\ req' = [req EXCEPT ![q] = Done]
    /\ UNCHANGED <<now, cred, row, mirror, reload, op, resumes, lastResume, told, faults>>

RefreshSucceeded(q) ==
    /\ req[q].pc = "refreshing" /\ cred.version < MaxVersion
    /\ cred' = [cred EXCEPT !.version = @ + 1]
    /\ told' = [r \in Replicas |-> 0]
    /\ req' = [req EXCEPT ![q] = Done]
    /\ UNCHANGED <<now, row, mirror, reload, op, resumes, lastResume, faults>>

RefreshDead(q) ==
    /\ req[q].pc = "refreshing"
    /\ req' = [req EXCEPT ![q].pc = "marking", ![q].at = now]
    /\ UNCHANGED <<now, cred, row, mirror, reload, op, resumes, lastResume, told, faults>>

MarkHardDisabled(q) ==
    LET v  == req[q].version
        at == req[q].at
        after == IF Disables(v, at) THEN DisabledRow(v, v, at, at) ELSE row
    IN /\ req[q].pc = "marking"
       /\ \/ /\ row' = after
             /\ req' = [req EXCEPT ![q].pc = IF Disables(v, at) THEN "marked" ELSE "stale",
                                   ![q].reply = IF Disables(v, at) THEN DisabledEntry(v, v, at, at)
                                                ELSE None]
             /\ UNCHANGED faults
          \/ /\ row' \in {row, after} /\ Fault
             /\ req' = [req EXCEPT ![q].pc = "unmarked"]
       /\ UNCHANGED <<now, cred, mirror, reload, op, resumes, lastResume, told>>

\* OnRefreshResult without the table: an entry for a newer version is left alone.
LocallyDisabled(e, v, at) ==
    IF e = None
    THEN [strike |-> 0, until |-> 0, hard |-> TRUE, version |-> v, hardAt |-> at,
          escalated |-> 0, local |-> TRUE, proof |-> v]
    ELSE IF e.version > v THEN e
    ELSE [e EXCEPT !.hard = TRUE, !.hardAt = IF @ = 0 THEN at ELSE @, !.version = v,
                   !.local = TRUE, !.proof = Later(@, v)]

OnRefreshResult(q) ==
    LET r == req[q].replica
        e == mirror[r]
        v == req[q].version
        accepted == req[q].pc = "marked" \/ (req[q].pc = "unmarked" /\ ~(e # None /\ e.version > v))
    IN /\ req[q].pc \in {"marked", "stale", "unmarked"}
       /\ mirror' = [mirror EXCEPT ![r] =
             CASE req[q].pc = "marked" -> req[q].reply
               [] req[q].pc = "stale" ->
                    IF e # None /\ e.local /\ e.version <= v THEN None ELSE e
               [] OTHER -> LocallyDisabled(e, v, req[q].at)]
       /\ told' = IF accepted /\ v = cred.version THEN [told EXCEPT ![r] = req[q].at] ELSE told
       /\ req' = [req EXCEPT ![q] = Done]
       /\ UNCHANGED <<now, cred, row, reload, op, resumes, lastResume, faults>>

(***************************************************************************)
(* Reload: local disables are written back, then the mirror is replaced    *)
(* by the rows of the table and the local entries that still count.        *)
(***************************************************************************)

LocalEvidenceAt(e) ==
    IF e.hard /\ e.hardAt > 0 THEN e.hardAt ELSE IF e.escalated > 0 THEN e.escalated ELSE now

StartReplay(r) ==
    /\ reload[r].pc = "idle"
    /\ mirror[r] # None /\ mirror[r].local /\ mirror[r].hard
    /\ reload' = [reload EXCEPT ![r] =
          [pc |-> "replay", pending |-> [mirror[r] EXCEPT !.hardAt = LocalEvidenceAt(mirror[r])],
           reply |-> None]]
    /\ UNCHANGED <<now, cred, row, mirror, req, op, resumes, lastResume, told, faults>>

ReplayDisable(r) ==
    LET p == reload[r].pending
        applies == Disables(p.version, p.hardAt)
        after == IF applies THEN DisabledRow(p.version, p.proof, p.hardAt, now) ELSE row
    IN /\ reload[r].pc = "replay"
       /\ \/ /\ row' = after
             /\ reload' = [reload EXCEPT ![r].pc = "replayed",
                  ![r].reply = IF applies THEN DisabledEntry(p.version, p.proof, p.hardAt, now) ELSE None]
             /\ UNCHANGED faults
          \/ /\ row' \in {row, after} /\ Fault
             /\ reload' = [reload EXCEPT ![r].pc = "list"]
       /\ UNCHANGED <<now, cred, mirror, req, op, resumes, lastResume, told>>

\* Fault: an entry the table refused stays in the mirror.
FinishReplay_KeepsEntry(r) ==
    /\ reload[r].pc = "replayed"
    /\ mirror' = [mirror EXCEPT ![r] = IF reload[r].reply = None THEN @ ELSE reload[r].reply]
    /\ reload' = [reload EXCEPT ![r] = [pc |-> "list", pending |-> None, reply |-> None]]
    /\ UNCHANGED <<now, cred, row, req, op, resumes, lastResume, told, faults>>

\* The entry becomes the table's, or goes when the table refused it.
FinishReplay(r) ==
    /\ reload[r].pc = "replayed"
    /\ mirror' = [mirror EXCEPT ![r] = reload[r].reply]
    /\ reload' = [reload EXCEPT ![r] = [pc |-> "list", pending |-> None, reply |-> None]]
    /\ UNCHANGED <<now, cred, row, req, op, resumes, lastResume, told, faults>>

\* The listed row t as an entry: a bare tombstone has none.
Listed(t) ==
    IF t # None /\ (t.hard \/ t.strike > 0 \/ t.until > 0) THEN EntryOf(t) ELSE None

\* With nothing to write back Reload lists at once; it is left out where it changes nothing.
ListRows(r) ==
    /\ \/ reload[r].pc = "list"
       \/ /\ reload[r].pc = "idle" /\ mirror[r] # Listed(row)
          /\ ~(mirror[r] # None /\ mirror[r].local /\ mirror[r].hard)
    /\ \/ reload' = [reload EXCEPT ![r] = [pc |-> "swap", pending |-> None, reply |-> row]]
          /\ UNCHANGED faults
       \/ reload' = [reload EXCEPT ![r] = [pc |-> "idle", pending |-> None, reply |-> None]]
          /\ Fault
    /\ UNCHANGED <<now, cred, row, mirror, req, op, resumes, lastResume, told>>

\* The local entry e survives the listed row t.
Retained(e, t) ==
    /\ e # None /\ e.local
    /\ e.hard \/ now < e.until
    /\ t = None \/ t.resumed = 0 \/ LocalEvidenceAt(e) > t.resumed
    /\ \/ Listed(t) = None
       \/ e.hard /\ ~t.hard
       \/ ~t.hard /\ e.until > t.until

SwapMirror(r) ==
    LET t == reload[r].reply
    IN /\ reload[r].pc = "swap"
       /\ mirror' = [mirror EXCEPT ![r] = IF Retained(@, t) THEN @ ELSE Listed(t)]
       /\ reload' = [reload EXCEPT ![r] = [pc |-> "idle", pending |-> None, reply |-> None]]
       /\ UNCHANGED <<now, cred, row, req, op, resumes, lastResume, told, faults>>

(***************************************************************************)
(* The operator: a resume on one replica, a rotation of the credential.    *)
(***************************************************************************)

StartResume(r) ==
    /\ op.pc = "idle" /\ resumes < MaxResumes
    /\ mirror' = [mirror EXCEPT ![r] = None]
    /\ op' = [pc |-> "clearing", replica |-> r]
    /\ told' = [told EXCEPT ![r] = 0]
    /\ UNCHANGED <<now, cred, row, req, reload, resumes, lastResume, faults>>

ClearHard ==
    /\ op.pc = "clearing"
    /\ \/ row' = ResumedRow /\ lastResume' = now /\ UNCHANGED faults
       \/ row' = row /\ Fault /\ UNCHANGED lastResume
    /\ op' = [pc |-> "idle", replica |-> None]
    /\ resumes' = resumes + 1
    /\ UNCHANGED <<now, cred, mirror, req, reload, told>>

\* Fault: the row of the replaced credential stays.
RotatedRow_Kept == row

\* Rotate deletes the row in the transaction that installs the new version.
RotatedRow == None

Rotate ==
    /\ cred.version < MaxVersion
    /\ cred' = [version |-> cred.version + 1, installed |-> cred.version + 1]
    /\ row' = RotatedRow
    /\ lastResume' = 0
    /\ told' = [r \in Replicas |-> 0]
    /\ UNCHANGED <<now, mirror, req, reload, op, resumes, faults>>

\* A statement ends within persistTimeout (2 s), far less than a window (30 s): while one
\* waits the clock does not move on a second time.
Tick ==
    /\ now < MaxTime
    /\ \A q \in Requests : req[q].pc \in {"failing", "marking"} => req[q].at = now
    /\ now' = now + 1
    /\ UNCHANGED <<cred, row, mirror, req, reload, op, resumes, lastResume, told, faults>>

RequestStep(q) ==
    \/ \E r \in Replicas : Select(q, r)
    \/ LoadCredential(q)
    \/ Succeed(q)
    \/ ClearSoft(q)
    \/ \E class \in FailureClasses : Fail(q, class)
    \/ RecordFailure(q)
    \/ StoreMirror(q)
    \/ SuspendLocal(q)
    \/ RefreshNothing(q)
    \/ RefreshSucceeded(q)
    \/ RefreshDead(q)
    \/ MarkHardDisabled(q)
    \/ OnRefreshResult(q)

ReloadStep(r) ==
    \/ StartReplay(r)
    \/ ReplayDisable(r)
    \/ FinishReplay(r)
    \/ ListRows(r)
    \/ SwapMirror(r)

LaneNext ==
    \/ \E q \in Requests : RequestStep(q)
    \/ \E r \in Replicas : ReloadStep(r) \/ StartResume(r)
    \/ ClearHard
    \/ Rotate
    \/ Tick

LaneSpec == LaneInit /\ [][LaneNext]_laneVars

-----------------------------------------------------------------------------

\* Every variable keeps its type, and the row its hard_shape_check
\* (0238_provider_account_auth_cooldowns.up.sql:31).
LaneTypeOK ==
    /\ now \in 1..MaxTime
    /\ cred \in [version : 1..MaxVersion, installed : 1..MaxVersion]
    /\ row \in TypeOfRow \cup {None}
    /\ row # None => (row.hard <=> row.hardAt > 0)
    /\ mirror \in [Replicas -> TypeOfEntry \cup {None}]
    /\ \A q \in Requests :
          /\ req[q].pc \in {"idle", "selected", "flying", "clearing", "failing", "mirroring",
                            "alone", "refreshing", "marking", "marked", "stale", "unmarked", "done"}
          /\ req[q].replica \in Replicas \cup {None}
          /\ req[q].version \in 0..MaxVersion /\ req[q].at \in 0..MaxTime
          /\ req[q].reply \in TypeOfEntry \cup {None}
    /\ \A r \in Replicas :
          reload[r].pc \in {"idle", "replay", "replayed", "list", "swap"}
    /\ op.pc \in {"idle", "clearing"}
    /\ told \in [Replicas -> 0..MaxTime]
    /\ lastResume \in 0..MaxTime /\ resumes \in 0..MaxResumes /\ faults \in 0..MaxFaults

\* The least instant at which a window of the given strike can end when every
\* escalation waited for the window before it.
EarliestEnd[strike \in 0..MaxTime] ==
    IF strike = 0 THEN 0 ELSE EarliestEnd[strike - 1] + 1 + Backoff(strike)

\* A burst of failures costs one strike: on the table and on every mirror, also on one that
\* went on without the table, strike n stands only after n - 1 whole windows
\* (auth_cooldown_lane.sql:7, store.go:220).
BurstEscalatesOnce ==
    \A e \in {row} \cup {mirror[r] : r \in Replicas} :
        e # None /\ e.strike > 0 => e.until >= EarliestEnd[e.strike]

\* A disable in the table is lifted by an operator or by a rotation, never by a success or a
\* failure that arrives late (store.go:13).
OnlyOperatorLiftsDisable ==
    [][row # None /\ row.hard /\ (row' = None \/ ~row'.hard) =>
          resumes' # resumes \/ cred'.installed # cred.installed]_laneVars

\* What was known before a resume does not disable the account again after it, whichever
\* replica held it back and writes it later (auth_cooldown_lane.sql:138).
ResumeHolds == row # None /\ row.hard => row.evidence > lastResume

\* A credential installed by a rotation is not disabled for what an older one did
\* (store.go:430).
OldCredentialCannotDisable == row # None /\ row.hard => row.proof >= cred.installed

\* A replica that has accepted that the current credential is dead keeps the account out
\* until an operator or a new credential lets it in (persistence.go:92).
DeadStaysOut == \A r \in Replicas : told[r] > lastResume => ~Selectable(r)

\* Bursts cost one strike, a resume and a rotation are not undone by what was known before,
\* and, as long as no statement has failed, an account known to be dead stays out.
LaneSafety ==
    /\ LaneTypeOK /\ BurstEscalatesOnce /\ ResumeHolds
    /\ faults = 0 => OldCredentialCannotDisable /\ DeadStaysOut
=============================================================================
