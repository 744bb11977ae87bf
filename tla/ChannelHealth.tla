---------------------------- MODULE ChannelHealth ----------------------------
(***************************************************************************)
(* The health state machine of one provider account (internal/channel-     *)
(* health): one record per version of the account's credential, moved by   *)
(* the signals of attempts, by cooldowns an error rule orders, by the      *)
(* recovery coordinator (internal/channelprobe) and by operators.  The     *)
(* selector reads the record of the highest version.                       *)
(*                                                                         *)
(* Every mutation is one SERIALIZABLE transaction, retried five times: it  *)
(* happens as a whole or is lost.  Instants are kept as distances, so time *)
(* is unbounded: what is left of a cooldown, the age of a stage, the age   *)
(* of a sample, which the window forgets.                                  *)
(***************************************************************************)
EXTENDS Naturals, FiniteSets

CONSTANTS
    Requests,                        \* upstream attempts, each made once
    Classes,                         \* signal classes the attempts may end in
    MinSamples, RampMinSamples,      \* samples a verdict needs, a stage needs
    Window, MinObservation,          \* how far a verdict and a stage look back
    RampMin, RampMax,                \* shortest and longest time of a stage
    Cooldown, CreditsCooldown, BanCooldown, MaxForced,  \* lengths of the cooldowns
    MaxLevel,                        \* rollbacks the backoff grows with
    MaxVersion, MaxOps, MaxFaults    \* bounds of the exploration

ASSUME HealthAssumption ==
    /\ {MinSamples, RampMinSamples, Window, RampMin, RampMax, Cooldown, CreditsCooldown,
        BanCooldown, MaxLevel, MaxVersion} \subseteq Nat \ {0}
    /\ {MinObservation, MaxForced, MaxOps, MaxFaults} \subseteq Nat
    /\ MinObservation <= Window /\ RampMin <= RampMax
    /\ \A n \in 0..MaxLevel : 2 ^ n \in Nat   \* the provers have no theory of ^
    /\ Classes \subseteq {"success", "channel_error", "rate_limit", "upstream_5xx",
                          "local_5xx", "credits", "ban"}

Versions == 1..MaxVersion

VARIABLES
    rec,      \* version -> its row in channel_health_state
    cred,     \* the version of the credential the vault hands out
    req,      \* request -> where it is and the version it flies with
    probe,    \* the coordinator's round: listed versions, and the one between two calls
    forcing,  \* the version an operator's full recovery has read and will force
    ops, faults,  \* operator actions and lost mutations so far
    ramped    \* history: version -> how long its ramp has lasted

healthVars == <<rec, cred, req, probe, forcing, ops, faults, ramped>>

NoRecord == [state |-> "none"]

NewRecord == [state |-> "active", reason |-> "none", until |-> 0, stage |-> 0, age |-> 0,
              streak |-> 0, window |-> {}]

HealthInit ==
    /\ rec = [v \in Versions |-> NoRecord]
    /\ cred = 1
    /\ req = [q \in Requests |-> [pc |-> "idle", version |-> 0]]
    /\ probe = [todo |-> {}, at |-> 0]
    /\ forcing = 0
    /\ ops = 0 /\ faults = 0
    /\ ramped = [v \in Versions |-> 0]

\* The record a mutation starts from: it is created as active.
Known(v) == IF rec[v] = NoRecord THEN NewRecord ELSE rec[v]

(***************************************************************************)
(* Verdicts over the sample window.                                        *)
(***************************************************************************)

Failures == {"channel_error", "rate_limit", "upstream_5xx", "credits", "ban"}

Recent(window, d) == {s \in window : s.age <= d}

Hits(window, classes) == Cardinality({s \in window : s.class \in classes})

\* The share of the classes among the samples is above the percentage.
Exceeds(window, classes, of, percent) ==
    Hits(window, classes) * 100 > percent * Cardinality(of)

RampFailing(window) == Exceeds(window, Failures, window, 10)

RateLimited(window) ==
    Cardinality(window) >= MinSamples /\ Exceeds(window, {"rate_limit"}, window, 40)

\* Errors of the gateway itself do not count as attempts here.
Failing(window, classes) ==
    LET attempts == {s \in window : s.class # "local_5xx"}
    IN Cardinality(attempts) >= MinSamples /\ Exceeds(window, classes, attempts, 50)

Move(state, reason, until) == [state |-> state, reason |-> reason, until |-> until]

\* evaluate: the moves the record r, its window already holding the signal, may make.
Evaluate(r, class) ==
    LET long   == Recent(r.window, Window)
        recent == Recent(r.window, MinObservation)
        cool(reason, d) == Move("cooling_down", reason, d)
    IN IF r.state = "manual_paused" THEN {}
       ELSE IF class = "ban" THEN {Move("disabled", "ban", BanCooldown)}
       ELSE IF r.state = "ramping" /\ Cardinality(recent) >= RampMinSamples /\ RampFailing(recent)
       THEN {Move("rollback", class, 0)}
       ELSE IF class = "credits" THEN {cool("credits", CreditsCooldown)}
       ELSE IF RateLimited(long) THEN {cool("rate_limit", d) : d \in Cooldown..CreditsCooldown}
       ELSE IF Failing(long, {"upstream_5xx"})
       THEN {IF r.state = "degraded" /\ r.reason = "upstream_5xx"
             THEN cool("upstream_5xx", Cooldown)
             ELSE Move("degraded", "upstream_5xx", r.until)}
       ELSE IF Failing(long, Failures) THEN {cool("channel_error", Cooldown)}
       ELSE {}

Min2(a, b) == IF a < b THEN a ELSE b

\* The n-th rollback in a row cools for base * 2^n.
RolledBack(r, reason) ==
    LET streak == Min2(r.streak + 1, MaxLevel)
    IN [r EXCEPT !.state = "cooling_down", !.reason = reason, !.streak = streak,
                 !.until = Cooldown * 2 ^ streak, !.stage = 0, !.age = 0]

\* Fault: a move out of a ramp keeps its stage.
Applied_KeepsStage(r, move) ==
    IF move.state = r.state THEN r
    ELSE IF move.state = "rollback" THEN RolledBack(r, move.reason)
    ELSE [r EXCEPT !.state = move.state, !.reason = move.reason, !.until = move.until]

Applied(r, move) ==
    IF move.state = r.state THEN r
    ELSE IF move.state = "rollback" THEN RolledBack(r, move.reason)
    ELSE [r EXCEPT !.state = move.state, !.reason = move.reason, !.until = move.until,
                   !.stage = 0, !.age = 0]

StartedRamp(r, reason) ==
    [r EXCEPT !.state = "ramping", !.reason = reason, !.stage = 1, !.age = 0, !.until = 0]

\* The row of version v becomes r.
Store(v, r) ==
    /\ rec' = [rec EXCEPT ![v] = r]
    /\ ramped' = [ramped EXCEPT ![v] =
          IF r.state = "ramping" /\ rec[v].state = "ramping" THEN @ ELSE 0]

(***************************************************************************)
(* The selector's gate and the attempts.                                   *)
(***************************************************************************)

\* Fault: the first row found speaks for the account.
Latest_AnyRow ==
    IF \E v \in Versions : rec[v] # NoRecord
    THEN CHOOSE v \in Versions : rec[v] # NoRecord ELSE 0

\* The highest version that has a row, 0 when none has.
Latest ==
    IF \E v \in Versions : rec[v] # NoRecord
    THEN CHOOSE v \in Versions : rec[v] # NoRecord /\ \A w \in Versions : w > v => rec[w] = NoRecord
    ELSE 0

\* IsEligible; a ramping account takes a share of the requests.
Admits(r) == r.state \in {"active", "degraded"} \/ (r.state = "ramping" /\ r.stage > 0)

Selectable == Latest > 0 => Admits(rec[Latest])

Select(q) ==
    /\ req[q].pc = "idle" /\ Selectable
    /\ req' = [req EXCEPT ![q].pc = "selected"]
    /\ UNCHANGED <<rec, cred, probe, forcing, ops, faults, ramped>>

LoadCredential(q) ==
    /\ req[q].pc = "selected"
    /\ req' = [req EXCEPT ![q] = [pc |-> "flying", version |-> cred]]
    /\ UNCHANGED <<rec, cred, probe, forcing, ops, faults, ramped>>

\* Fault: the deadline asked for replaces a later one.
ForcedUntil_Latest(r, until) == until

ForcedUntil(r, until) == IF until > r.until THEN until ELSE r.until

\* ForceCooldown, before the signal of the same attempt.
ForceCooldown(q) ==
    LET v == req[q].version
    IN /\ req[q].pc = "flying"
       /\ \E d \in 1..MaxForced, reason \in {"rate_limit", "upstream_5xx"} :
             Store(v, [Known(v) EXCEPT !.state = "cooling_down", !.reason = reason,
                                       !.until = ForcedUntil(Known(v), d), !.stage = 0, !.age = 0])
       /\ req' = [req EXCEPT ![q].pc = "forced"]
       /\ UNCHANGED <<cred, probe, forcing, ops, faults>>

ApplySignal(q, class) ==
    LET v == req[q].version
        sampled == [Known(v) EXCEPT !.window = @ \cup {[of |-> q, class |-> class, age |-> 0]}]
        moves == Evaluate(sampled, class)
    IN /\ req[q].pc = "flying" \/ (req[q].pc = "forced" /\ class # "success")
       /\ IF moves = {} THEN Store(v, sampled)
          ELSE \E move \in moves : Store(v, Applied(sampled, move))
       /\ req' = [req EXCEPT ![q].pc = "done"]
       /\ UNCHANGED <<cred, probe, forcing, ops, faults>>

\* The five attempts of the mutation conflict, or the attempt has nothing to say.
LoseSignal(q) ==
    /\ req[q].pc \in {"flying", "forced"}
    /\ req' = [req EXCEPT ![q].pc = "done"]
    /\ UNCHANGED <<rec, cred, probe, forcing, ops, faults, ramped>>

(***************************************************************************)
(* The recovery coordinator: one leader lists, then starts and advances.   *)
(***************************************************************************)

Listed ==
    {v \in Versions : \/ rec[v].state = "ramping"
                      \/ rec[v].state = "cooling_down" /\ rec[v].until = 0}

List ==
    /\ probe.todo = {} /\ probe.at = 0 /\ Listed # {}
    /\ probe' = [todo |-> Listed, at |-> 0]
    /\ UNCHANGED <<rec, cred, req, forcing, ops, faults, ramped>>

\* Fault: a disabled account whose cooldown is over is started as well.
CanStart_Disabled(r) == r.state \in {"cooling_down", "disabled"} /\ r.until = 0

CanStart(r) == r.state = "cooling_down" /\ r.until = 0

MaybeStartRamp(v) ==
    /\ v \in probe.todo /\ probe.at = 0
    /\ probe' = [todo |-> probe.todo \ {v}, at |-> v]
    /\ IF CanStart(rec[v]) THEN Store(v, StartedRamp(rec[v], "none")) ELSE UNCHANGED <<rec, ramped>>
    /\ UNCHANGED <<cred, req, forcing, ops, faults>>

NextStage == [s \in {1, 10, 50} |-> CASE s = 1 -> 10 [] s = 10 -> 50 [] s = 50 -> 100]

\* Fault: the stage does not start its time again.
Advanced_KeepsAge(r) ==
    IF r.stage = 100
    THEN [r EXCEPT !.state = "active", !.reason = "none", !.stage = 0, !.age = 0, !.streak = 0]
    ELSE [r EXCEPT !.stage = NextStage[@]]

Advanced(r) ==
    IF r.stage = 100
    THEN [r EXCEPT !.state = "active", !.reason = "none", !.stage = 0, !.age = 0, !.streak = 0]
    ELSE [r EXCEPT !.stage = NextStage[@], !.age = 0]

\* Fault: without samples a stage lasts.
StageOver_NeedsSamples(r) ==
    r.age >= RampMin /\ Cardinality(Recent(r.window, MinObservation)) >= RampMinSamples

StageOver(r) ==
    /\ r.age >= RampMin
    /\ Cardinality(Recent(r.window, MinObservation)) >= RampMinSamples \/ r.age >= RampMax

\* A stage fails by its share of failures, or by one ban.
StageFailing(window) == RampFailing(window) \/ Hits(window, {"ban"}) > 0

AdvanceRamp(v) ==
    LET r == rec[v]
        recent == Recent(r.window, MinObservation)
    IN /\ probe.at = v
       /\ probe' = [probe EXCEPT !.at = 0]
       /\ IF r.state # "ramping" \/ ~StageOver(r) THEN UNCHANGED <<rec, ramped>>
          ELSE Store(v, IF StageFailing(recent) THEN RolledBack(r, "channel_error") ELSE Advanced(r))
       /\ UNCHANGED <<cred, req, forcing, ops, faults>>

\* A call of the coordinator fails: a failed start skips the advance.
SkipCall ==
    /\ faults < MaxFaults /\ faults' = faults + 1
    /\ \/ probe.at > 0 /\ probe' = [probe EXCEPT !.at = 0]
       \/ probe.at = 0 /\ \E v \in probe.todo : probe' = [probe EXCEPT !.todo = @ \ {v}]
    /\ UNCHANGED <<rec, cred, req, forcing, ops, ramped>>

(***************************************************************************)
(* Operators.                                                              *)
(***************************************************************************)

Operator == ops < MaxOps /\ ops' = ops + 1

ManualPause(v) ==
    /\ rec[v] # NoRecord
    /\ Operator
    /\ Store(v, [rec[v] EXCEPT !.state = "manual_paused", !.reason = "manual",
                               !.until = 0, !.stage = 0, !.age = 0])
    /\ UNCHANGED <<cred, req, probe, forcing, faults>>

ManualResume(v) ==
    /\ rec[v] # NoRecord
    /\ Operator
    /\ Store(v, StartedRamp(rec[v], "manual"))
    /\ UNCHANGED <<cred, req, probe, forcing, faults>>

Forced(r) == [r EXCEPT !.state = "active", !.reason = "manual", !.until = 0, !.stage = 0, !.age = 0]

ForceActive(v) ==
    /\ rec[v] # NoRecord
    /\ Operator
    /\ Store(v, Forced(rec[v]))
    /\ UNCHANGED <<cred, req, probe, forcing, faults>>

\* ForceActiveByProviderAccount reads outside the transaction that forces.
ReadForForce ==
    /\ forcing = 0 /\ Latest > 0 /\ rec[Latest].state # "active"
    /\ Operator
    /\ forcing' = Latest
    /\ UNCHANGED <<rec, cred, req, probe, faults, ramped>>

ForceRead ==
    /\ forcing > 0
    /\ Store(forcing, Forced(rec[forcing]))
    /\ forcing' = 0
    /\ UNCHANGED <<cred, req, probe, ops, faults>>

ClearRateLimit ==
    /\ Latest > 0
    /\ rec[Latest].state = "cooling_down" /\ rec[Latest].reason = "rate_limit"
    /\ Operator
    /\ Store(Latest, [StartedRamp(rec[Latest], "none") EXCEPT
                         !.window = {s \in @ : s.class # "rate_limit"}])
    /\ UNCHANGED <<cred, req, probe, forcing, faults>>

Rotate ==
    /\ cred < MaxVersion
    /\ cred' = cred + 1
    /\ UNCHANGED <<rec, req, probe, forcing, ops, faults, ramped>>

\* Distances shrink, ages grow; a sample past every window is gone.
Aged(r) ==
    IF r = NoRecord THEN r
    ELSE [r EXCEPT !.until = IF @ = 0 THEN 0 ELSE @ - 1,
                   !.age = IF r.state = "ramping" THEN Min2(@ + 1, RampMax) ELSE 0,
                   !.window = {[s EXCEPT !.age = @ + 1] : s \in {x \in @ : x.age < Window}}]

Tick ==
    /\ rec' = [v \in Versions |-> Aged(rec[v])]
    /\ ramped' = [v \in Versions |->
          IF rec[v].state = "ramping" THEN Min2(ramped[v] + 1, 5 * RampMin) ELSE 0]
    /\ rec' # rec \/ ramped' # ramped
    /\ UNCHANGED <<cred, req, probe, forcing, ops, faults>>

ProbeStep == List \/ (\E v \in Versions : MaybeStartRamp(v) \/ AdvanceRamp(v)) \/ SkipCall

OperatorStep ==
    \/ \E v \in Versions : ManualPause(v) \/ ManualResume(v) \/ ForceActive(v)
    \/ ReadForForce
    \/ ForceRead
    \/ ClearRateLimit

HealthNext ==
    \/ \E q \in Requests :
          \/ Select(q)
          \/ LoadCredential(q)
          \/ ForceCooldown(q)
          \/ \E class \in Classes : ApplySignal(q, class)
          \/ LoseSignal(q)
    \/ ProbeStep
    \/ OperatorStep
    \/ Rotate
    \/ Tick

HealthSpec == HealthInit /\ [][HealthNext]_healthVars

\* The coordinator's loop runs on one replica and time passes; nobody has to send traffic.
HealthFairness == WF_healthVars(ProbeStep) /\ WF_healthVars(Tick)

FairHealthSpec == HealthSpec /\ HealthFairness

-----------------------------------------------------------------------------

TypeOfSample == [of : Requests, class : Classes, age : 0..Window]

\* Every variable keeps its type; exactly a ramping record has a stage, and a stopped one
\* no deadline the coordinator could wait for.
HealthTypeOK ==
    /\ \A v \in Versions : rec[v] # NoRecord =>
          /\ rec[v].state \in {"active", "degraded", "cooling_down", "ramping", "disabled",
                               "manual_paused"}
          /\ rec[v].stage \in (IF rec[v].state = "ramping" THEN {1, 10, 50, 100} ELSE {0})
          /\ rec[v].state = "manual_paused" => rec[v].until = 0
          /\ rec[v].age \in 0..RampMax /\ rec[v].streak \in 0..MaxLevel
          /\ rec[v].window \subseteq TypeOfSample
          /\ \A s, t \in rec[v].window : s.of = t.of => s = t
    /\ cred \in Versions /\ forcing \in 0..MaxVersion
    /\ \A q \in Requests :
          /\ req[q].pc \in {"idle", "selected", "flying", "forced", "done"}
          /\ req[q].version \in 0..cred
    /\ probe.todo \subseteq Versions /\ probe.at \in 0..MaxVersion
    /\ ops \in 0..MaxOps /\ faults \in 0..MaxFaults

ByOperator == ops' # ops \/ forcing' # forcing

\* The end of the ban's cooldown is not the end of the ban (service.go:549): the coordinator
\* never touches a disabled account.  An operator does, and so does a request that was on its
\* way with that credential: its signal may degrade the account and so admit requests again,
\* its forced cooldown may be followed by a ramp, but it never starts one or activates it.
BanOutlivesItsCooldown ==
    [][\A v \in Versions :
          rec[v].state = "disabled" /\ rec'[v].state # "disabled" =>
              \/ ByOperator
              \/ /\ rec'[v].state \in {"degraded", "cooling_down"}
                 /\ \E q \in Requests : req[q].version = v /\ req'[q].pc # req[q].pc]_healthVars

\* While an account cools, no answer that arrives meanwhile brings the end nearer: a forced
\* cooldown keeps the later deadline (service.go:336).
CooldownNeverShortened ==
    [][\A v \in Versions :
          rec[v].state = "cooling_down" /\ rec'[v].state = "cooling_down" =>
              rec'[v].until + 1 >= rec[v].until]_healthVars

\* What an attempt on a replaced credential reports late does not move the account, once the
\* newer version has a row: the row of the newest version decides (store_postgres.go:122).
LateSignalHarmless ==
    [][\A q \in Requests :
          req[q].version > 0 /\ req'[q] # req[q] /\ req[q].pc \in {"flying", "forced"}
          /\ (\E v \in Versions : v > req[q].version /\ rec[v] # NoRecord)
              => Selectable' = Selectable]_healthVars

\* The way back from a ramp to full traffic takes every stage's shortest time, however the
\* coordinator's rounds, the signals and the operators interleave (service.go:228).
RampTakesItsTime ==
    [][\A v \in Versions :
          rec[v].state = "ramping" /\ rec'[v].state = "active" /\ ~ByOperator =>
              ramped[v] >= 4 * RampMin]_healthVars

\* What a late answer or a coordinator's older list may never do, and the types it relies on.
HealthKeepsOrder ==
    /\ []HealthTypeOK
    /\ CooldownNeverShortened /\ RampTakesItsTime
    /\ LateSignalHarmless /\ BanOutlivesItsCooldown

\* A cooling account comes back by the ramp: only the coordinator or an operator ends a
\* cooldown (failover.go:108).
\* Violated: a signal of an older attempt turns cooling_down into degraded.
CooledReturnsByRamp ==
    [][\A v \in Versions :
          rec[v].state = "cooling_down" /\ rec'[v].state \in {"active", "degraded"} =>
              ByOperator]_healthVars

\* An operator's pause ends only by an operator (failover.go:72).
\* Violated: a cooldown an error rule orders replaces the pause.
PauseHolds ==
    [][\A v \in Versions :
          rec[v].state = "manual_paused" /\ rec'[v].state # "manual_paused" => ByOperator]_healthVars

\* A ban keeps the account out until an operator lets it in (failover.go:72).
\* Violated: a signal of an older attempt turns disabled into degraded.
BanHolds ==
    [][\A v \in Versions :
          rec[v].state = "disabled" /\ rec'[v].state # "disabled" => ByOperator]_healthVars

\* No account cools or ramps for ever: without any traffic, too, it ends up open or stopped
\* by an operator or a ban (service.go:232).
RampEnds ==
    \A v \in Versions :
        rec[v].state \in {"cooling_down", "ramping"} ~>
            rec[v].state \notin {"cooling_down", "ramping"}
=============================================================================
