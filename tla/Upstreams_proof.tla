---------------------------- MODULE Upstreams_proof ----------------------------
(***************************************************************************)
(* The circuit breaker for any callers and thresholds, and the health      *)
(* records of an account for any attempts, versions, windows and lengths   *)
(* of cooldowns and stages.                                                *)
(***************************************************************************)
EXTENDS CircuitBreaker, ChannelHealth, FiniteSetTheorems, TLAPS

-----------------------------------------------------------------------------
(* The circuit breaker.                                                     *)

(* A call that starts or returns moves one caller in or out of Probing.     *)
LEMMA ProbingChanges ==
    ASSUME BreakerTypeOK, NEW c \in Callers
    PROVE  /\ IsFiniteSet(Probing) /\ Cardinality(Probing) \in Nat
           /\ call[c] = "idle" /\ call' = [call EXCEPT ![c] = "probe"]
                 => Cardinality(Probing') = Cardinality(Probing) + 1
           /\ call[c] = "idle" /\ call' = [call EXCEPT ![c] = "call"]
                 => Probing' = Probing
           /\ call' = [call EXCEPT ![c] = "idle"]
                 => Cardinality(Probing') \in Nat /\ Cardinality(Probing') >= Cardinality(Probing) - 1
<1>1. IsFiniteSet(Probing) /\ Cardinality(Probing) \in Nat
    <2>1. Probing \subseteq Callers
        BY DEF Probing
    <2>2. IsFiniteSet(Probing)
        BY <2>1, FS_Subset, BreakerAssumption DEF BreakerAssumption
    <2> QED
        BY <2>2, FS_CardinalityType
<1>2. ASSUME call[c] = "idle", call' = [call EXCEPT ![c] = "probe"]
      PROVE  Cardinality(Probing') = Cardinality(Probing) + 1
    <2>1. Probing' = Probing \cup {c} /\ c \notin Probing
        BY <1>2 DEF Probing, BreakerTypeOK
    <2> QED
        BY <1>1, <2>1, FS_AddElement
<1>3. ASSUME call[c] = "idle", call' = [call EXCEPT ![c] = "call"]
      PROVE  Probing' = Probing
    BY <1>3 DEF Probing, BreakerTypeOK
<1>4. ASSUME call' = [call EXCEPT ![c] = "idle"]
      PROVE  Cardinality(Probing') \in Nat /\ Cardinality(Probing') >= Cardinality(Probing) - 1
    <2>1. Probing' = Probing \ {c}
        BY <1>4 DEF Probing, BreakerTypeOK
    <2>2. CASE c \in Probing
        <3>1. Cardinality(Probing \ {c}) = Cardinality(Probing) - 1 /\ IsFiniteSet(Probing \ {c})
            BY <1>1, <2>2, FS_RemoveElement
        <3>2. Cardinality(Probing \ {c}) \in Nat
            BY <3>1, FS_CardinalityType
        <3> QED
            BY <1>1, <2>1, <3>1, <3>2
    <2>3. CASE c \notin Probing
        <3>1. Probing' = Probing
            BY <2>1, <2>3
        <3> QED
            BY <1>1, <3>1
    <2> QED
        BY <2>2, <2>3
<1> QED
    BY <1>1, <1>2, <1>3, <1>4

(* The three together are inductive: a place is given back only down to     *)
(* zero, closing resets every counter, and each probe holds one place.      *)
BreakerInv == BreakerTypeOK /\ ClosedBelowThreshold /\ ProbePlacesAreTaken

(* The type invariant in two parts: what counts, and what is a flag.        *)
Counters ==
    /\ state \in {"closed", "open", "halfOpen"}
    /\ failureCount \in 0..MaxFailures
    /\ probes \in 0..HalfOpenMaxProbes
    /\ successes \in 0..(HalfOpenSuccessesToClose - 1)
    /\ overrides \in 0..MaxOverrides

Flags ==
    /\ cooling \in BOOLEAN
    /\ failOpen \in BOOLEAN
    /\ call \in [Callers -> {"idle", "call", "probe"}]
    /\ healthy \in BOOLEAN

LEMMA TypeParts == BreakerTypeOK <=> Counters /\ Flags
    BY Zenon DEF BreakerTypeOK, Counters, Flags

LEMMA InitBreaker == Init => BreakerInv
<1> SUFFICES ASSUME Init
             PROVE  BreakerInv
    OBVIOUS
<1>1. Counters /\ ClosedBelowThreshold /\ ProbePlacesAreTaken
    BY BreakerAssumption
    DEF Init, Counters, ClosedBelowThreshold, ProbePlacesAreTaken, BreakerAssumption
<1>2. Flags
    BY DEF Init, Flags
<1> QED
    BY <1>1, <1>2, TypeParts DEF BreakerInv

LEMMA AllowBreaker ==
    ASSUME BreakerInv, NEW c \in Callers, Allow(c)
    PROVE  BreakerInv'
<1> USE BreakerAssumption DEF BreakerAssumption
<1>1. BreakerTypeOK'
    <2>1. Counters'
        BY TypeParts DEF BreakerInv, Counters, Allow, Admit
    <2>2. Flags'
        BY TypeParts DEF BreakerInv, Flags, Allow, Admit
    <2> QED
        BY <2>1, <2>2, TypeParts, PTL
<1>2. ClosedBelowThreshold'
    BY DEF BreakerInv, BreakerTypeOK, ClosedBelowThreshold, Allow
<1>3. ProbePlacesAreTaken'
    <2>1. BreakerTypeOK
        BY DEF BreakerInv
    <2>2. CASE Admit(c, "call") /\ UNCHANGED <<state, probes, successes>>
        <3>1. Probing' = Probing
            BY <2>1, <2>2, ProbingChanges DEF Admit
        <3> QED
            BY <2>2, <3>1 DEF BreakerInv, ProbePlacesAreTaken
    <2>3. CASE Admit(c, "probe") /\ state' = "halfOpen" /\ probes' = 1
        <3>1. Cardinality(Probing') = Cardinality(Probing) + 1 /\ Cardinality(Probing) \in Nat
            BY <2>1, <2>3, ProbingChanges DEF Admit
        <3> QED
            BY <2>3, <3>1 DEF ProbePlacesAreTaken
    <2>4. CASE Admit(c, "probe") /\ state = "halfOpen" /\ probes' = probes + 1
        <3>1. Cardinality(Probing') = Cardinality(Probing) + 1 /\ Cardinality(Probing) \in Nat
            BY <2>1, <2>4, ProbingChanges DEF Admit
        <3> QED
            BY <2>1, <2>4, <3>1 DEF BreakerInv, BreakerTypeOK, ProbePlacesAreTaken
    <2> QED
        BY <2>2, <2>3, <2>4 DEF Allow
<1> QED
    BY <1>1, <1>2, <1>3 DEF BreakerInv

LEMMA SucceedBreaker ==
    ASSUME BreakerInv, NEW c \in Callers, Succeed(c)
    PROVE  BreakerInv'
<1> USE BreakerAssumption DEF BreakerAssumption
<1>1. BreakerTypeOK'
    <2>1. Counters'
        BY TypeParts DEF BreakerInv, Counters, Succeed, RecordSuccess, Close
    <2>2. Flags'
        BY TypeParts DEF BreakerInv, Flags, Succeed, RecordSuccess, Close
    <2> QED
        BY <2>1, <2>2, TypeParts, PTL
<1>2. ClosedBelowThreshold'
    BY DEF BreakerInv, BreakerTypeOK, ClosedBelowThreshold, Succeed, RecordSuccess, Close
<1>3. ProbePlacesAreTaken'
    <2>1. /\ Cardinality(Probing) \in Nat /\ Cardinality(Probing') \in Nat
          /\ Cardinality(Probing') >= Cardinality(Probing) - 1
        BY ProbingChanges DEF BreakerInv, Succeed
    <2>2. CASE state = "halfOpen" /\ probes' = IF probes > 0 THEN probes - 1 ELSE probes
        BY <2>1, <2>2 DEF BreakerInv, BreakerTypeOK, ProbePlacesAreTaken
    <2>3. CASE state' # "halfOpen"
        BY <2>3 DEF ProbePlacesAreTaken
    <2> QED
        BY <2>2, <2>3 DEF Succeed, RecordSuccess, Close
<1> QED
    BY <1>1, <1>2, <1>3 DEF BreakerInv

LEMMA FailBreaker ==
    ASSUME BreakerInv, NEW c \in Callers, Fail(c)
    PROVE  BreakerInv'
<1> USE BreakerAssumption DEF BreakerAssumption
<1>1. BreakerTypeOK'
    <2>1. Counters'
        BY TypeParts DEF BreakerInv, Counters, Fail, RecordFailure, Open
    <2>2. Flags'
        BY TypeParts DEF BreakerInv, Flags, Fail, RecordFailure, Open
    <2> QED
        BY <2>1, <2>2, TypeParts, PTL
<1>2. ClosedBelowThreshold'
    BY DEF BreakerInv, BreakerTypeOK, ClosedBelowThreshold, Fail, RecordFailure, Open
<1>3. ProbePlacesAreTaken'
    BY DEF ProbePlacesAreTaken, Fail, RecordFailure, Open
<1> QED
    BY <1>1, <1>2, <1>3 DEF BreakerInv

LEMMA StepBreaker == BreakerInv /\ [Next]_vars => BreakerInv'
<1> SUFFICES ASSUME BreakerInv, [Next]_vars
             PROVE  BreakerInv'
    OBVIOUS
<1>1. ASSUME NEW c \in Callers, Allow(c)
      PROVE  BreakerInv'
    BY <1>1, AllowBreaker
<1>2. ASSUME NEW c \in Callers, Return(c)
      PROVE  BreakerInv'
    BY <1>2, SucceedBreaker, FailBreaker DEF Return
<1>3. CASE Cool
    BY <1>3 DEF Cool, BreakerInv, BreakerTypeOK, ClosedBelowThreshold, ProbePlacesAreTaken,
                Probing
<1>4. CASE Override
    <2>1. BreakerTypeOK'
        <3>1. Counters'
            BY <1>4, BreakerAssumption, TypeParts
            DEF Override, Open, Close, BreakerInv, Counters, BreakerAssumption
        <3>2. Flags'
            BY <1>4, TypeParts DEF Override, Open, Close, BreakerInv, Flags
        <3> QED
            BY <3>1, <3>2, TypeParts, PTL
    <2>2. ClosedBelowThreshold'
        BY <1>4, BreakerAssumption
        DEF Override, Open, Close, BreakerInv, ClosedBelowThreshold, BreakerAssumption
    <2>3. ProbePlacesAreTaken'
        BY <1>4 DEF Override, Open, Close, BreakerInv, ProbePlacesAreTaken, Probing
    <2> QED
        BY <2>1, <2>2, <2>3 DEF BreakerInv
<1>5. CASE StoreChanges
    BY <1>5 DEF StoreChanges, entry, BreakerInv, BreakerTypeOK, ClosedBelowThreshold,
                ProbePlacesAreTaken, Probing
<1>6. CASE UNCHANGED vars
    BY <1>6 DEF vars, entry, BreakerInv, BreakerTypeOK, ClosedBelowThreshold,
                ProbePlacesAreTaken, Probing
<1> QED
    BY <1>1, <1>2, <1>3, <1>4, <1>5, <1>6 DEF Next

LEMMA BreakerInvHolds == Spec => []BreakerInv
    BY InitBreaker, StepBreaker, PTL DEF Spec

(* The probe count of a half-open breaker stays within its limit and every  *)
(* field keeps its type, whatever late outcomes callers report.             *)
THEOREM BreakerTypesHold == Spec => []BreakerTypeOK
<1>1. BreakerInv => BreakerTypeOK
    BY DEF BreakerInv
<1> QED
    BY <1>1, BreakerInvHolds, PTL

(* A breaker that closes has forgotten the failures of the outage.          *)
THEOREM ClosedIsBelowThreshold == Spec => []ClosedBelowThreshold
<1>1. BreakerInv => ClosedBelowThreshold
    BY DEF BreakerInv
<1> QED
    BY <1>1, BreakerInvHolds, PTL

(* No probe place is lost: each one taken has a probe that still runs.      *)
THEOREM PlacesAreTaken == Spec => []ProbePlacesAreTaken
<1>1. BreakerInv => ProbePlacesAreTaken
    BY DEF BreakerInv
<1> QED
    BY <1>1, BreakerInvHolds, PTL

(* The breaker is sound for any number of callers and any thresholds: late  *)
(* outcomes of calls admitted in an earlier state lose no probe's place and *)
(* leave no failures behind a closed breaker (BreakerSafety).               *)
THEOREM BreakerIsSound == Spec => []BreakerSafety
<1>1. BreakerTypeOK /\ ClosedBelowThreshold /\ ProbePlacesAreTaken => BreakerSafety
    BY DEF BreakerSafety
<1> QED
    BY <1>1, BreakerTypesHold, ClosedIsBelowThreshold, PlacesAreTaken, PTL

-----------------------------------------------------------------------------
(* Health records, for any attempts, classes, windows and lengths.          *)
States == {"active", "degraded", "cooling_down", "ramping", "disabled", "manual_paused"}
Reasons == {"none", "manual", "ban", "credits", "rate_limit", "upstream_5xx", "channel_error"}
              \cup Classes
Stages == {1, 10, 50, 100}
Record == [state : States, reason : Reasons, until : Nat, stage : Stages \cup {0},
           age : 0..RampMax, streak : 0..MaxLevel, window : SUBSET TypeOfSample]

Sound(r) ==
    /\ r \in Record
    /\ r.state = "ramping" <=> r.stage # 0
    /\ r.state = "manual_paused" => r.until = 0

(* An attempt reports once, so a window holds one sample of it at most.     *)
Sampled(v) ==
    \A s, t \in rec[v].window : req[s.of].pc = "done" /\ (s.of = t.of => s = t)

(* Some row is the newest, which is what the selector's query relies on.    *)
Newest(v) == rec[v] # NoRecord /\ \A w \in Versions : w > v => rec[w] = NoRecord
NewestExists == (\E v \in Versions : rec[v] # NoRecord) => \E v \in Versions : Newest(v)

(* The time a ramp has lasted covers the shortest time of its past stages.  *)
Past == [s \in Stages |-> CASE s = 1 -> 0 [] s = 10 -> 1 [] s = 50 -> 2 [] s = 100 -> 3]
RampIsTimed(v) ==
    rec[v].state = "ramping" =>
        ramped[v] >= Past[rec[v].stage] * RampMin + Min2(rec[v].age, RampMin)

Rest ==
    /\ cred \in Versions /\ forcing \in 0..MaxVersion
    /\ req \in [Requests -> [pc : {"idle", "selected", "flying", "forced", "done"}, version : 0..MaxVersion]]
    /\ \A q \in Requests :
          /\ req[q].version <= cred
          /\ req[q].pc \in {"flying", "forced"} => req[q].version > 0
    /\ probe \in [todo : SUBSET Versions, at : 0..MaxVersion]
    /\ forcing > 0 => rec[forcing] # NoRecord
    /\ ops \in 0..MaxOps /\ faults \in 0..MaxFaults

Records ==
    /\ DOMAIN rec = Versions /\ rec = [v \in Versions |-> rec[v]]
    /\ \A v \in Versions : rec[v] = NoRecord \/ (Sound(rec[v]) /\ Sampled(v))

HealthInv ==
    /\ Rest /\ Records /\ NewestExists
    /\ ramped \in [Versions -> Nat] /\ \A v \in Versions : RampIsTimed(v)

-----------------------------------------------------------------------------
LEMMA Constants ==
    /\ MinSamples \in Nat /\ RampMinSamples \in Nat /\ Window \in Nat \ {0} /\ RampMin \in Nat \ {0}
    /\ RampMax \in Nat /\ Cooldown \in Nat /\ CreditsCooldown \in Nat /\ BanCooldown \in Nat
    /\ MaxLevel \in Nat \ {0} /\ MaxVersion \in Nat \ {0} /\ MaxForced \in Nat /\ MaxOps \in Nat
    /\ MaxFaults \in Nat /\ RampMin <= RampMax /\ Versions \subseteq Nat \ {0}
    /\ \A n \in 0..MaxLevel : Cooldown * 2 ^ n \in Nat
  <1>1. /\ MinSamples \in Nat /\ RampMinSamples \in Nat /\ Window \in Nat \ {0} /\ RampMin \in Nat \ {0}
        /\ RampMax \in Nat /\ Cooldown \in Nat /\ CreditsCooldown \in Nat /\ BanCooldown \in Nat
        /\ MaxLevel \in Nat \ {0} /\ MaxVersion \in Nat \ {0} /\ MaxForced \in Nat /\ MaxOps \in Nat
        /\ MaxFaults \in Nat /\ RampMin <= RampMax
    BY HealthAssumption DEF HealthAssumption
  <1>2. ASSUME NEW n \in 0..MaxLevel PROVE Cooldown * 2 ^ n \in Nat
    <2>1. 2 ^ n \in Nat
      BY HealthAssumption DEF HealthAssumption
    <2> QED BY <1>1, <2>1
  <1> QED BY <1>1, <1>2 DEF Versions

LEMMA InitHealth == HealthInit => HealthInv
  <1> SUFFICES ASSUME HealthInit PROVE HealthInv
    OBVIOUS
  <1>1. Rest
    BY Constants DEF HealthInit, Rest, Versions
  <1>2. \A v \in Versions : rec[v] = NoRecord
    BY DEF HealthInit
  <1>3. Records /\ NewestExists
    BY <1>2 DEF HealthInit, Records, NewestExists
  <1>4. ramped \in [Versions -> Nat] /\ \A v \in Versions : RampIsTimed(v)
    BY <1>2 DEF HealthInit, RampIsTimed, NoRecord
  <1> QED BY <1>1, <1>3, <1>4 DEF HealthInv

(* A row that exists has a state; one that does not starts as active.       *)
LEMMA KnownIsSound ==
    ASSUME HealthInv, NEW v \in Versions
    PROVE  /\ Sound(Known(v))
           /\ rec[v] = NoRecord => rec[v].state = "none"
           /\ rec[v] # NoRecord => Known(v) = rec[v] /\ rec[v].state \in States
           /\ rec[v] = NoRecord => Known(v).state = "active" /\ Known(v).window = {}
  <1>1. CASE rec[v] = NoRecord
    <2>1. Known(v) = NewRecord
      BY <1>1 DEF Known
    <2>2. Sound(NewRecord) /\ NewRecord.state = "active" /\ NewRecord.window = {}
      BY Constants DEF NewRecord, Sound, Record, States, Reasons, Stages
    <2> QED BY <1>1, <2>1, <2>2 DEF NoRecord
  <1>2. CASE rec[v] # NoRecord
    BY <1>2 DEF HealthInv, Records, Known, Sound, Record
  <1> QED BY <1>1, <1>2

(* What a verdict may order: never to open or to ramp, and a rollback only  *)
(* of a ramp; a pause and an unchanged state are left as they are.          *)
LEMMA VerdictMoves ==
    ASSUME NEW r, Sound(r), NEW class \in Classes, NEW m \in Evaluate(r, class)
    PROVE  /\ m \in [state : {"disabled", "rollback", "cooling_down", "degraded"},
                     reason : Reasons, until : Nat]
           /\ r.state # "manual_paused"
           /\ m.state = "rollback" => r.state = "ramping"
  <1> DEFINE long == Recent(r.window, Window)
             recent == Recent(r.window, MinObservation)
             Plain(x) == x \in [state : {"disabled", "cooling_down", "degraded"}, reason : Reasons, until : Nat]
  <1>0. r.until \in Nat /\ class \in Reasons
    BY DEF Sound, Record, Reasons
  <1>1. /\ r.state # "manual_paused"
        /\ \/ m = Move("disabled", "ban", BanCooldown)
           \/ r.state = "ramping" /\ m = Move("rollback", class, 0)
           \/ m = Move("cooling_down", "credits", CreditsCooldown)
           \/ \E d \in Cooldown..CreditsCooldown : m = Move("cooling_down", "rate_limit", d)
           \/ m = Move("cooling_down", "upstream_5xx", Cooldown)
           \/ m = Move("degraded", "upstream_5xx", r.until)
           \/ m = Move("cooling_down", "channel_error", Cooldown)
    BY DEF Evaluate
  <1>2. \A d \in Cooldown..CreditsCooldown : d \in Nat
    BY Constants
  <1>3. \/ Plain(m)
        \/ r.state = "ramping" /\ m = Move("rollback", class, 0)
    <2>1. \A d \in Nat : Plain(Move("cooling_down", "rate_limit", d))
      BY DEF Move, Reasons
    <2>2. Plain(Move("disabled", "ban", BanCooldown))
      BY Constants DEF Move, Reasons
    <2>3. Plain(Move("cooling_down", "credits", CreditsCooldown))
      BY Constants DEF Move, Reasons
    <2>4. Plain(Move("cooling_down", "upstream_5xx", Cooldown))
          /\ Plain(Move("cooling_down", "channel_error", Cooldown))
      BY Constants DEF Move, Reasons
    <2>5. Plain(Move("degraded", "upstream_5xx", r.until))
      BY <1>0 DEF Move, Reasons
    <2> HIDE DEF Plain
    <2> QED BY <1>1, <1>2, <2>1, <2>2, <2>3, <2>4, <2>5
  <1>4. m = Move("rollback", class, 0) =>
           m \in [state : {"rollback"}, reason : Reasons, until : Nat] /\ m.state = "rollback"
    BY <1>0 DEF Move
  <1> QED BY <1>1, <1>3, <1>4

(* How a record may change into another: what operators may do, and what    *)
(* everybody else may do.                                                   *)
Climbs(r, x) ==
    x.state = "ramping" =>
        \/ x.stage = 1 /\ x.age = 0
        \/ r.state = "ramping" /\ x.stage = r.stage /\ x.age = r.age
        \/ /\ r.state = "ramping" /\ r.stage # 100 /\ r.age >= RampMin
           /\ x.stage = NextStage[r.stage] /\ x.age = 0
Kept(r, x) == r.state = "cooling_down" /\ x.state = "cooling_down" => x.until >= r.until
Unaided(r, x) ==
    /\ r.state = "disabled" => x.state \in {"disabled", "degraded", "cooling_down"}
    /\ r.state = "ramping" /\ x.state = "active" => r.stage = 100 /\ r.age >= RampMin
Changes(r, x) == Sound(x) /\ Climbs(r, x) /\ Kept(r, x)

(* What is stored of a record when it moves.                                *)
Put(r, st, reason, streak, until, stage, age) ==
    [r EXCEPT !.state = st, !.reason = reason, !.streak = streak,
              !.until = until, !.stage = stage, !.age = age]

LEMMA Fields ==
    ASSUME NEW r \in Record, NEW st \in States, NEW reason \in Reasons, NEW until \in Nat,
           NEW stage \in Stages \cup {0}, NEW age \in 0..RampMax, NEW streak \in 0..MaxLevel
    PROVE  LET x == Put(r, st, reason, streak, until, stage, age)
           IN /\ x \in Record /\ x.state = st /\ x.reason = reason /\ x.until = until
              /\ x.stage = stage /\ x.age = age /\ x.streak = streak /\ x.window = r.window
  BY DEF Record, Put

LEMMA RollbackChanges ==
    ASSUME NEW r, Sound(r), r.state = "ramping", NEW reason \in Reasons
    PROVE  LET x == RolledBack(r, reason)
           IN Changes(r, x) /\ Unaided(r, x) /\ x.window = r.window /\ x.state = "cooling_down"
  <1> DEFINE streak == Min2(r.streak + 1, MaxLevel)
             x == RolledBack(r, reason)
  <1>1. streak \in 0..MaxLevel
    BY Constants DEF Sound, Record, Min2
  <1>2. Cooldown * 2 ^ streak \in Nat
    BY <1>1, Constants
  <1> DEFINE until == Cooldown * 2 ^ streak
  <1>3. x = Put(r, "cooling_down", reason, streak, until, 0, 0)
    BY DEF RolledBack, Put
  <1> HIDE DEF streak, until, x
  <1>4. /\ x \in Record /\ x.state = "cooling_down" /\ x.stage = 0 /\ x.window = r.window
    <2>1. /\ r \in Record /\ "cooling_down" \in States /\ 0 \in Stages \cup {0} /\ 0 \in 0..RampMax
          /\ until \in Nat
      BY <1>2, Constants DEF Sound, States, until
    <2> QED BY <1>1, <1>3, <2>1, Fields
  <1>5. Sound(x)
    BY <1>4 DEF Sound
  <1> QED BY <1>4, <1>5 DEF Changes, Unaided, Climbs, Kept, x

LEMMA VerdictChanges ==
    ASSUME NEW r, Sound(r), NEW class \in Classes, NEW m \in Evaluate(r, class)
    PROVE  LET x == Applied(r, m)
           IN Changes(r, x) /\ Unaided(r, x) /\ x.window = r.window
  <1> DEFINE x == Applied(r, m)
  <1>0. /\ m \in [state : {"disabled", "rollback", "cooling_down", "degraded"},
                  reason : Reasons, until : Nat]
        /\ r.state # "manual_paused"
        /\ m.state = "rollback" => r.state = "ramping"
    BY VerdictMoves
  <1>1. CASE m.state = r.state
    <2>1. x = r
      BY <1>1 DEF Applied
    <2>2. r.until \in Nat /\ r.state \notin {"ramping", "active"}
      BY <1>0, <1>1 DEF Sound, Record
    <2>3. r.until >= r.until
      BY <2>2
    <2> QED BY <2>1, <2>2, <2>3 DEF Changes, Unaided, Climbs, Kept
  <1>2. CASE m.state # r.state /\ m.state = "rollback"
    <2>1. x = RolledBack(r, m.reason) /\ r.state = "ramping" /\ m.reason \in Reasons
      BY <1>0, <1>2 DEF Applied
    <2> QED BY <2>1, RollbackChanges
  <1>3. CASE m.state # r.state /\ m.state # "rollback"
    <2>1. x = [r EXCEPT !.state = m.state, !.reason = m.reason, !.until = m.until, !.stage = 0, !.age = 0]
      BY <1>3 DEF Applied
    <2> HIDE DEF x
    <2>2. /\ x \in Record /\ x.state = m.state /\ x.stage = 0 /\ x.window = r.window
          /\ m.state \in {"disabled", "cooling_down", "degraded"}
      <3>1. /\ r \in Record /\ 0 \in Stages \cup {0} /\ 0 \in 0..RampMax /\ m.state \in States
            /\ m.reason \in Reasons /\ m.until \in Nat /\ r.streak \in 0..MaxLevel
            /\ m.state \in {"disabled", "cooling_down", "degraded"}
        BY <1>0, <1>3, Constants DEF Sound, States, Record
      <3>2. x = Put(r, m.state, m.reason, r.streak, m.until, 0, 0)
        BY <2>1, <3>1 DEF Record, Put
      <3>3. ASSUME NEW st \in States, NEW reason \in Reasons, NEW until \in Nat,
                   NEW streak \in 0..MaxLevel, x = Put(r, st, reason, streak, until, 0, 0)
            PROVE  x \in Record /\ x.state = st /\ x.stage = 0 /\ x.window = r.window
        BY <3>1, <3>3 DEF Record, Put
      <3> DEFINE st == m.state
                 reason == m.reason
                 until == m.until
                 streak == r.streak
      <3>4. /\ st \in States /\ reason \in Reasons /\ until \in Nat /\ streak \in 0..MaxLevel
            /\ x = Put(r, st, reason, streak, until, 0, 0) /\ st = m.state
        BY <3>1, <3>2
      <3> HIDE DEF st, reason, until, streak
      <3>5. x \in Record /\ x.state = st /\ x.stage = 0 /\ x.window = r.window
        BY <3>3, <3>4
      <3> QED BY <3>1, <3>4, <3>5
    <2>3. Sound(x)
      BY <2>2 DEF Sound
    <2> QED BY <1>3, <2>2, <2>3 DEF Changes, Unaided, Climbs, Kept, x
  <1> QED BY <1>1, <1>2, <1>3

LEMMA PutSound ==
    ASSUME NEW r, Sound(r), NEW st \in States, NEW reason \in Reasons, NEW until \in Nat,
           NEW stage \in Stages \cup {0}, NEW age \in 0..RampMax,
           st = "ramping" <=> stage # 0, st = "manual_paused" => until = 0
    PROVE  LET x == Put(r, st, reason, r.streak, until, stage, age)
           IN /\ Sound(x) /\ x.state = st /\ x.stage = stage /\ x.age = age
              /\ x.until = until /\ x.window = r.window
  BY DEF Sound, Record, Put

(* What the operators and the coordinator make of a record.                 *)
LEMMA StartedChanges ==
    ASSUME NEW r, Sound(r), NEW reason \in Reasons
    PROVE  LET x == StartedRamp(r, reason)
           IN /\ Changes(r, x) /\ x.window = r.window /\ x.state = "ramping"
              /\ r.state # "disabled" => Unaided(r, x)
  <1> DEFINE x == StartedRamp(r, reason)
  <1>1. x = Put(r, "ramping", reason, r.streak, 0, 1, 0)
    BY DEF StartedRamp, Put, Sound, Record
  <1> HIDE DEF x
  <1>2. Sound(x) /\ x.state = "ramping" /\ x.stage = 1 /\ x.age = 0 /\ x.window = r.window
    <2>1. "ramping" \in States /\ 0 \in Nat /\ 1 \in Stages \cup {0} /\ 0 \in 0..RampMax
      BY Constants DEF States, Stages
    <2> QED BY <1>1, <2>1, PutSound
  <1> QED BY <1>2 DEF Changes, Climbs, Kept, Unaided, x

LEMMA ForcedChanges ==
    ASSUME NEW r, Sound(r)
    PROVE  Changes(r, Forced(r)) /\ Forced(r).window = r.window
  <1> DEFINE x == Forced(r)
  <1>1. x = Put(r, "active", "manual", r.streak, 0, 0, 0)
    BY DEF Forced, Put, Sound, Record
  <1> HIDE DEF x
  <1>2. Sound(x) /\ x.state = "active" /\ x.window = r.window
    <2>1. "active" \in States /\ "manual" \in Reasons /\ 0 \in Nat /\ 0 \in Stages \cup {0} /\ 0 \in 0..RampMax
      BY Constants DEF States, Reasons
    <2> QED BY <1>1, <2>1, PutSound
  <1> QED BY <1>2 DEF Changes, Climbs, Kept, x

LEMMA PausedChanges ==
    ASSUME NEW r, Sound(r)
    PROVE  LET x == [r EXCEPT !.state = "manual_paused", !.reason = "manual",
                              !.until = 0, !.stage = 0, !.age = 0]
           IN Changes(r, x) /\ x.window = r.window
  <1> DEFINE x == [r EXCEPT !.state = "manual_paused", !.reason = "manual",
                            !.until = 0, !.stage = 0, !.age = 0]
  <1>1. x = Put(r, "manual_paused", "manual", r.streak, 0, 0, 0)
    BY DEF Put, Sound, Record
  <1> HIDE DEF x
  <1>2. Sound(x) /\ x.state = "manual_paused" /\ x.window = r.window
    <2>1. /\ "manual_paused" \in States /\ "manual" \in Reasons /\ 0 \in Nat
          /\ 0 \in Stages \cup {0} /\ 0 \in 0..RampMax
      BY Constants DEF States, Reasons
    <2> QED BY <1>1, <2>1, PutSound
  <1> QED BY <1>2 DEF Changes, Climbs, Kept, x

LEMMA CoolingChanges ==
    ASSUME NEW r, Sound(r), NEW d \in Nat, NEW reason \in Reasons
    PROVE  LET x == [r EXCEPT !.state = "cooling_down", !.reason = reason,
                              !.until = ForcedUntil(r, d), !.stage = 0, !.age = 0]
           IN Changes(r, x) /\ Unaided(r, x) /\ x.window = r.window
  <1> DEFINE until == ForcedUntil(r, d)
             x == [r EXCEPT !.state = "cooling_down", !.reason = reason,
                            !.until = until, !.stage = 0, !.age = 0]
  <1>1. x = Put(r, "cooling_down", reason, r.streak, until, 0, 0)
    BY DEF Put, Sound, Record
  <1>2. until \in Nat /\ until >= r.until
    BY DEF ForcedUntil, Sound, Record
  <1> HIDE DEF x, until
  <1>3. Sound(x) /\ x.state = "cooling_down" /\ x.until = until /\ x.window = r.window
    <2>1. "cooling_down" \in States /\ 0 \in Stages \cup {0} /\ 0 \in 0..RampMax
      BY Constants DEF States
    <2> QED BY <1>1, <1>2, <2>1, PutSound
  <1> QED BY <1>2, <1>3 DEF Changes, Climbs, Kept, Unaided, x, until

LEMMA AdvancedChanges ==
    ASSUME NEW r, Sound(r), r.state = "ramping", r.age >= RampMin
    PROVE  LET x == Advanced(r)
           IN Changes(r, x) /\ Unaided(r, x) /\ x.window = r.window
  <1> DEFINE x == Advanced(r)
  <1>0. r.stage \in Stages
    BY DEF Sound, Record
  <1>1. CASE r.stage = 100
    <2>1. x = [r EXCEPT !.state = "active", !.reason = "none", !.stage = 0, !.age = 0, !.streak = 0]
      BY <1>1 DEF Advanced
    <2> HIDE DEF x
    <2>2. Sound(x) /\ x.state = "active" /\ x.window = r.window
      <3>1. /\ "active" \in States /\ "none" \in Reasons /\ 0 \in Stages \cup {0}
            /\ 0 \in 0..RampMax /\ 0 \in 0..MaxLevel
        BY Constants DEF States, Reasons
      <3> QED BY <2>1, <3>1 DEF Sound, Record
    <2> QED BY <1>1, <2>2 DEF Changes, Climbs, Kept, Unaided, x
  <1>2. CASE r.stage # 100
    <2>1. x = [r EXCEPT !.stage = NextStage[r.stage], !.age = 0]
      BY <1>2 DEF Advanced
    <2>2. NextStage[r.stage] \in Stages
      BY <1>0, <1>2 DEF NextStage, Stages
    <2> HIDE DEF x
    <2>3. /\ Sound(x) /\ x.state = "ramping" /\ x.window = r.window
          /\ x.stage = NextStage[r.stage] /\ x.age = 0
      <3> DEFINE n == NextStage[r.stage]
      <3>1. n \in Stages \cup {0} /\ n # 0 /\ 0 \in 0..RampMax
        BY <2>2, Constants DEF Stages
      <3>2. x = [r EXCEPT !.stage = n, !.age = 0]
        BY <2>1
      <3> HIDE DEF n
      <3>3. Sound(x) /\ x.state = "ramping" /\ x.window = r.window /\ x.stage = n /\ x.age = 0
        BY <3>1, <3>2 DEF Sound, Record
      <3> QED BY <3>3 DEF n
    <2> QED BY <1>2, <2>3 DEF Changes, Climbs, Kept, Unaided, x
  <1> QED BY <1>1, <1>2

(* What a step does to the rows: none is touched, time passes, or one row   *)
(* changes as above and takes up at most the sample of an attempt that ends.*)
NewSample(q, class) == [of |-> q, class |-> class, age |-> 0]
Stored(v, x) ==
    /\ Store(v, x) /\ Changes(Known(v), x)
    /\ Unaided(Known(v), x) \/ ByOperator
    /\ \/ x.window \subseteq Known(v).window
       \/ \E q \in Requests, class \in Classes :
             /\ req[q].pc # "done" /\ req'[q].pc = "done"
             /\ x.window = Known(v).window \cup {NewSample(q, class)}

LEMMA FliesWithAVersion ==
    ASSUME HealthInv, NEW q \in Requests, req[q].pc \in {"flying", "forced"}
    PROVE  req[q].version \in Versions
  <1>1. req[q].version \in 0..MaxVersion /\ req[q].version > 0
    BY DEF HealthInv, Rest
  <1> QED BY <1>1, Constants DEF Versions

LEMMA SignalStores ==
    ASSUME HealthInv, NEW q \in Requests, NEW class \in Classes, ApplySignal(q, class)
    PROVE  req[q].version \in Versions /\ \E x : Stored(req[q].version, x)
  <1> DEFINE v == req[q].version
             r == Known(v)
             sampled == [r EXCEPT !.window = @ \cup {[of |-> q, class |-> class, age |-> 0]}]
             moves == Evaluate(sampled, class)
  <1>1. /\ req[q].pc \in {"flying", "forced"}
        /\ IF moves = {} THEN Store(v, sampled) ELSE \E move \in moves : Store(v, Applied(sampled, move))
        /\ req' = [req EXCEPT ![q].pc = "done"]
    BY DEF ApplySignal
  <1>2. v \in Versions /\ req'[q].pc = "done"
    BY <1>1, FliesWithAVersion DEF HealthInv, Rest
  <1> HIDE DEF moves
  <1>3. Sound(r)
    BY <1>2, KnownIsSound
  <1> HIDE DEF v
  <1>4. /\ Sound(sampled) /\ sampled.window = r.window \cup {NewSample(q, class)}
        /\ sampled.state = r.state /\ sampled.stage = r.stage /\ sampled.age = r.age
        /\ sampled.until = r.until
    <2> HIDE DEF r
    <2>1. NewSample(q, class) \in TypeOfSample
      BY Constants DEF NewSample, TypeOfSample
    <2> QED BY <1>3, <2>1 DEF Sound, Record, NewSample
  <1>5. ASSUME NEW x, Changes(sampled, x), Unaided(sampled, x), x.window = sampled.window, Store(v, x)
        PROVE  Stored(v, x)
    <2> HIDE DEF sampled, r
    <2>1. Changes(r, x) /\ Unaided(r, x)
      BY <1>4, <1>5 DEF Changes, Unaided, Climbs, Kept
    <2>2. req[q].pc # "done" /\ req'[q].pc = "done" /\ x.window = r.window \cup {NewSample(q, class)}
      BY <1>1, <1>2, <1>4, <1>5
    <2> QED BY <1>5, <2>1, <2>2 DEF Stored, r
  <1>6. CASE moves = {}
    <2>1. Store(v, sampled)
      BY <1>1, <1>6
    <2>2. sampled.until >= sampled.until
      <3> HIDE DEF sampled
      <3> QED BY <1>4 DEF Sound, Record
    <2>3. Changes(sampled, sampled) /\ Unaided(sampled, sampled)
      <3> HIDE DEF sampled
      <3>1. Climbs(sampled, sampled) /\ Kept(sampled, sampled)
        BY <2>2 DEF Climbs, Kept
      <3>2. Unaided(sampled, sampled)
        BY DEF Unaided
      <3> QED BY <1>4, <3>1, <3>2 DEF Changes
    <2> HIDE DEF sampled
    <2> QED BY <1>2, <1>5, <2>1, <2>3 DEF v
  <1>7. CASE moves # {}
    <2>1. PICK move \in moves : Store(v, Applied(sampled, move))
      BY <1>1, <1>7
    <2> DEFINE x == Applied(sampled, move)
    <2>2. Changes(sampled, x) /\ Unaided(sampled, x) /\ x.window = sampled.window
      <3>1. move \in Evaluate(sampled, class) /\ Sound(sampled)
        BY <1>4 DEF moves
      <3> HIDE DEF sampled
      <3> QED BY <3>1, VerdictChanges
    <2> HIDE DEF x, sampled
    <2>3. Store(v, x)
      BY <2>1 DEF x
    <2> QED BY <1>2, <1>5, <2>2, <2>3 DEF v
  <1> QED BY <1>6, <1>7

LEMMA CooldownStores ==
    ASSUME HealthInv, NEW q \in Requests, ForceCooldown(q)
    PROVE  req[q].version \in Versions /\ \E x : Stored(req[q].version, x)
  <1> DEFINE v == req[q].version
             r == Known(v)
  <1>1. /\ req[q].pc = "flying"
        /\ \E d \in 1..MaxForced, reason \in {"rate_limit", "upstream_5xx"} :
              Store(v, [r EXCEPT !.state = "cooling_down", !.reason = reason,
                                 !.until = ForcedUntil(r, d), !.stage = 0, !.age = 0])
    BY DEF ForceCooldown
  <1>2. v \in Versions
    BY <1>1, FliesWithAVersion
  <1>3. Sound(r)
    BY <1>2, KnownIsSound
  <1> HIDE DEF v, r
  <1>4. PICK d \in 1..MaxForced, reason \in {"rate_limit", "upstream_5xx"} :
           Store(v, [r EXCEPT !.state = "cooling_down", !.reason = reason,
                              !.until = ForcedUntil(r, d), !.stage = 0, !.age = 0])
    BY <1>1
  <1> DEFINE x == [r EXCEPT !.state = "cooling_down", !.reason = reason,
                            !.until = ForcedUntil(r, d), !.stage = 0, !.age = 0]
  <1>5. Changes(r, x) /\ Unaided(r, x) /\ x.window = r.window
    <2>1. d \in Nat /\ reason \in Reasons
      BY Constants DEF Reasons
    <2> QED BY <1>3, <2>1, CoolingChanges
  <1>6. Store(v, x)
    BY <1>4
  <1> HIDE DEF x
  <1>7. Stored(v, x)
    BY <1>5, <1>6 DEF Stored, r
  <1> QED BY <1>2, <1>7 DEF v

(* Latest is the newest row.                                                *)
LEMMA LatestIsNewest ==
    ASSUME HealthInv
    PROVE  /\ Latest \in 0..MaxVersion
           /\ Latest = 0 <=> \A v \in Versions : rec[v] = NoRecord
           /\ Latest > 0 => Latest \in Versions /\ Newest(Latest)
  <1>1. CASE \E v \in Versions : rec[v] # NoRecord
    <2>1. \E v \in Versions : rec[v] # NoRecord /\ \A w \in Versions : w > v => rec[w] = NoRecord
      BY <1>1 DEF HealthInv, NewestExists, Newest
    <2>2. Latest = CHOOSE v \in Versions :
                       rec[v] # NoRecord /\ \A w \in Versions : w > v => rec[w] = NoRecord
      BY <1>1 DEF Latest
    <2>3. Latest \in Versions /\ Newest(Latest)
      <3>1. \E l \in Versions : l = Latest /\ Newest(l)
        BY <2>1, <2>2 DEF Newest
      <3> QED BY <3>1
    <2> QED BY <1>1, <2>3, Constants DEF Versions
  <1>2. CASE ~ \E v \in Versions : rec[v] # NoRecord
    <2>1. Latest = 0
      BY <1>2 DEF Latest
    <2> QED BY <1>2, <2>1, Constants
  <1> QED BY <1>1, <1>2

LEMMA CoordinatorStores ==
    ASSUME HealthInv, NEW v \in Versions, MaybeStartRamp(v) \/ AdvanceRamp(v)
    PROVE  UNCHANGED <<rec, ramped>> \/ \E x : Stored(v, x)
  <1>1. CASE MaybeStartRamp(v) /\ CanStart(rec[v])
    <2> DEFINE x == StartedRamp(rec[v], "none")
    <2>1. Store(v, x) /\ rec[v].state = "cooling_down"
      BY <1>1 DEF MaybeStartRamp, CanStart
    <2>2. Known(v) = rec[v] /\ Sound(rec[v])
      BY <2>1, KnownIsSound
    <2>3. Changes(rec[v], x) /\ Unaided(rec[v], x) /\ x.window = rec[v].window
      BY <2>1, <2>2, StartedChanges DEF Reasons
    <2> HIDE DEF x
    <2> QED BY <2>1, <2>2, <2>3 DEF Stored
  <1>2. CASE AdvanceRamp(v) /\ rec[v].state = "ramping" /\ StageOver(rec[v])
    <2> DEFINE recent == Recent(rec[v].window, MinObservation)
               x == IF StageFailing(recent) THEN RolledBack(rec[v], "channel_error") ELSE Advanced(rec[v])
    <2>1. Store(v, x) /\ rec[v].age >= RampMin
      BY <1>2 DEF AdvanceRamp, StageOver
    <2>2. Known(v) = rec[v] /\ Sound(rec[v])
      BY <1>2, KnownIsSound
    <2>3. Changes(rec[v], x) /\ Unaided(rec[v], x) /\ x.window = rec[v].window
      <3>1. CASE StageFailing(recent)
        <4>1. x = RolledBack(rec[v], "channel_error") /\ "channel_error" \in Reasons
          BY <3>1 DEF Reasons
        <4> HIDE DEF x, recent
        <4> QED BY <1>2, <2>2, <4>1, RollbackChanges
      <3>2. CASE ~StageFailing(recent)
        <4>1. x = Advanced(rec[v])
          BY <3>2
        <4> HIDE DEF x, recent
        <4> QED BY <1>2, <2>1, <2>2, <4>1, AdvancedChanges
      <3> QED BY <3>1, <3>2
    <2> HIDE DEF x
    <2> QED BY <2>1, <2>2, <2>3 DEF Stored
  <1>3. CASE MaybeStartRamp(v) /\ ~CanStart(rec[v])
    BY <1>3 DEF MaybeStartRamp
  <1>4. CASE AdvanceRamp(v) /\ ~(rec[v].state = "ramping" /\ StageOver(rec[v]))
    BY <1>4 DEF AdvanceRamp
  <1> QED BY <1>1, <1>2, <1>3, <1>4

LEMMA OperatorStores ==
    ASSUME HealthInv, OperatorStep
    PROVE  ByOperator /\ (UNCHANGED <<rec, ramped>> \/ \E v \in Versions : \E x : Stored(v, x))
  <1>1. ASSUME NEW v \in Versions, NEW x, rec[v] # NoRecord, Store(v, x), Changes(rec[v], x), ByOperator,
               x.window \subseteq rec[v].window
        PROVE  Stored(v, x)
    <2>1. Known(v) = rec[v]
      BY <1>1 DEF Known
    <2> QED BY <1>1, <2>1 DEF Stored
  <1>2. ASSUME NEW v \in Versions, rec[v] # NoRecord
        PROVE  Sound(rec[v])
    BY <1>2 DEF HealthInv, Records
  <1>3. Operator => ByOperator
    BY DEF Operator, ByOperator, HealthInv, Rest
  <1>4. CASE \E v \in Versions : ManualPause(v)
    <2>1. PICK v \in Versions : ManualPause(v)
      BY <1>4
    <2> DEFINE x == [rec[v] EXCEPT !.state = "manual_paused", !.reason = "manual",
                                   !.until = 0, !.stage = 0, !.age = 0]
    <2>2. rec[v] # NoRecord /\ Operator /\ Store(v, x)
      BY <2>1 DEF ManualPause
    <2>3. Changes(rec[v], x) /\ x.window = rec[v].window
      BY <1>2, <2>2, PausedChanges
    <2> HIDE DEF x
    <2> QED BY <1>1, <1>3, <2>2, <2>3
  <1>5. CASE \E v \in Versions : ManualResume(v)
    <2>1. PICK v \in Versions : ManualResume(v)
      BY <1>5
    <2> DEFINE x == StartedRamp(rec[v], "manual")
    <2>2. rec[v] # NoRecord /\ Operator /\ Store(v, x)
      BY <2>1 DEF ManualResume
    <2>3. Changes(rec[v], x) /\ x.window = rec[v].window
      BY <1>2, <2>2, StartedChanges DEF Reasons
    <2> HIDE DEF x
    <2> QED BY <1>1, <1>3, <2>2, <2>3
  <1>6. CASE \E v \in Versions : ForceActive(v)
    <2>1. PICK v \in Versions : ForceActive(v)
      BY <1>6
    <2> DEFINE x == Forced(rec[v])
    <2>2. rec[v] # NoRecord /\ Operator /\ Store(v, x)
      BY <2>1 DEF ForceActive
    <2>3. Changes(rec[v], x) /\ x.window = rec[v].window
      BY <1>2, <2>2, ForcedChanges
    <2> HIDE DEF x
    <2> QED BY <1>1, <1>3, <2>2, <2>3
  <1>7. CASE ReadForForce
    BY <1>3, <1>7 DEF ReadForForce
  <1>8. CASE ForceRead
    <2> DEFINE x == Forced(rec[forcing])
    <2>1. forcing > 0 /\ Store(forcing, x) /\ forcing' = 0
      BY <1>8 DEF ForceRead
    <2>2. rec[forcing] # NoRecord /\ forcing \in Versions
      BY <2>1, Constants DEF HealthInv, Rest, Versions
    <2>3. ByOperator
      BY <2>1 DEF ByOperator, HealthInv, Rest
    <2>4. Changes(rec[forcing], x) /\ x.window = rec[forcing].window
      BY <1>2, <2>2, ForcedChanges
    <2> HIDE DEF x
    <2> QED BY <1>1, <2>1, <2>2, <2>3, <2>4
  <1>9. CASE ClearRateLimit
    <2> DEFINE v == Latest
               r == StartedRamp(rec[v], "none")
               x == [r EXCEPT !.window = {s \in @ : s.class # "rate_limit"}]
    <2>1. Latest > 0 /\ Operator /\ Store(v, x)
      BY <1>9 DEF ClearRateLimit
    <2>2. v \in Versions /\ rec[v] # NoRecord
      BY <2>1, LatestIsNewest DEF Newest
    <2> HIDE DEF v
    <2>3. Changes(rec[v], r) /\ r.window = rec[v].window
      BY <1>2, <2>2, StartedChanges DEF Reasons
    <2> HIDE DEF r
    <2>4. Changes(rec[v], x) /\ x.window \subseteq rec[v].window
      <3>1. r \in Record
        BY <2>3 DEF Changes, Sound
      <3>2. /\ x \in Record /\ x.state = r.state /\ x.stage = r.stage /\ x.age = r.age
            /\ x.until = r.until /\ x.window \subseteq r.window
        BY <3>1 DEF Record
      <3> HIDE DEF x
      <3> QED BY <2>3, <3>2 DEF Changes, Sound, Climbs, Kept
    <2> HIDE DEF x
    <2> QED BY <1>1, <1>3, <2>1, <2>2, <2>4
  <1> QED BY <1>4, <1>5, <1>6, <1>7, <1>8, <1>9 DEF OperatorStep

LEMMA StepShape ==
    ASSUME HealthInv, [HealthNext]_healthVars
    PROVE  UNCHANGED <<rec, ramped>> \/ Tick \/ \E v \in Versions : \E x : Stored(v, x)
  <1>1. ASSUME NEW q \in Requests, Select(q) \/ LoadCredential(q) \/ LoseSignal(q)
        PROVE  UNCHANGED <<rec, ramped>>
    BY <1>1 DEF Select, LoadCredential, LoseSignal
  <1>2. List \/ SkipCall \/ Rotate \/ UNCHANGED healthVars => UNCHANGED <<rec, ramped>>
    BY DEF List, SkipCall, Rotate, healthVars
  <1> QED BY <1>1, <1>2, SignalStores, CooldownStores, CoordinatorStores, OperatorStores
        DEF HealthNext, ProbeStep

LEMMA StoredRow ==
    ASSUME HealthInv, NEW v \in Versions, NEW x, Stored(v, x)
    PROVE  /\ Sound(x) /\ x # NoRecord /\ rec'[v] = x
           /\ \A w \in Versions : w # v => rec'[w] = rec[w]
           /\ DOMAIN rec' = Versions /\ rec' = [w \in Versions |-> rec'[w]]
           /\ ramped' \in [Versions -> Nat]
           /\ \A w \in Versions : w # v => ramped'[w] = ramped[w]
           /\ x.state = "ramping" /\ rec[v].state = "ramping" => ramped'[v] = ramped[v]
  <1>1. /\ rec' = [rec EXCEPT ![v] = x]
        /\ ramped' = [ramped EXCEPT ![v] =
              IF x.state = "ramping" /\ rec[v].state = "ramping" THEN @ ELSE 0]
    BY DEF Stored, Store
  <1>2. Sound(x) /\ x # NoRecord
    <2>1. Sound(x)
      BY DEF Stored, Changes
    <2>2. x.state \in States
      BY <2>1 DEF Sound, Record
    <2> QED BY <2>1, <2>2 DEF NoRecord, States
  <1>3. DOMAIN rec = Versions /\ rec = [w \in Versions |-> rec[w]] /\ ramped \in [Versions -> Nat]
    BY DEF HealthInv, Records
  <1> QED BY <1>1, <1>2, <1>3

LEMMA AgedRow ==
    ASSUME NEW r, Sound(r)
    PROVE  LET x == Aged(r)
           IN /\ Sound(x) /\ x # NoRecord /\ x.state = r.state /\ x.stage = r.stage
              /\ x.until + 1 >= r.until
              /\ r.state = "ramping" => x.age = Min2(r.age + 1, RampMax)
              /\ x.window = {[s EXCEPT !.age = @ + 1] : s \in {y \in r.window : y.age < Window}}
  <1> DEFINE until == IF r.until = 0 THEN 0 ELSE r.until - 1
             age == IF r.state = "ramping" THEN Min2(r.age + 1, RampMax) ELSE 0
             window == {[s EXCEPT !.age = @ + 1] : s \in {y \in r.window : y.age < Window}}
             x == [r EXCEPT !.until = until, !.age = age, !.window = window]
  <1>1. r # NoRecord /\ r \in Record
    <2>1. r \in Record
      BY DEF Sound
    <2>2. r.state \in States
      BY <2>1 DEF Record
    <2> QED BY <2>1, <2>2 DEF NoRecord, States
  <1>2. Aged(r) = x
    BY <1>1 DEF Aged
  <1>3. until \in Nat /\ until + 1 >= r.until /\ (r.until = 0 => until = 0)
    BY <1>1 DEF Record
  <1>4. age \in 0..RampMax
    BY <1>1, Constants DEF Record, Min2
  <1>5. window \subseteq TypeOfSample
    <2>1. ASSUME NEW s \in r.window, s.age < Window
          PROVE  [s EXCEPT !.age = @ + 1] \in TypeOfSample
      <3>1. s \in TypeOfSample
        BY <1>1 DEF Record
      <3> QED BY <2>1, <3>1, Constants DEF TypeOfSample
    <2> QED BY <2>1
  <1> HIDE DEF until, age, window
  <1>6. /\ x \in Record /\ x.state = r.state /\ x.stage = r.stage /\ x.until = until
        /\ x.age = age /\ x.window = window
    BY <1>1, <1>3, <1>4, <1>5 DEF Record
  <1> HIDE DEF x
  <1>7. Sound(x)
    BY <1>3, <1>6 DEF Sound
  <1>8. x # NoRecord
    <2>1. x.state \in States
      BY <1>6 DEF Record
    <2> QED BY <2>1 DEF NoRecord, States
  <1>9. r.state = "ramping" => x.age = Min2(r.age + 1, RampMax)
    BY <1>6 DEF age
  <1> QED BY <1>2, <1>3, <1>6, <1>7, <1>8, <1>9 DEF window

LEMMA TickRows ==
    ASSUME HealthInv, Tick
    PROVE  /\ DOMAIN rec' = Versions /\ rec' = [w \in Versions |-> rec'[w]]
           /\ \A v \in Versions :
                 /\ rec[v] = NoRecord => rec'[v] = NoRecord
                 /\ rec[v] # NoRecord => rec'[v] = Aged(rec[v]) /\ rec'[v] # NoRecord
           /\ req' = req
  <1>1. rec' = [v \in Versions |-> Aged(rec[v])] /\ req' = req
    BY DEF Tick
  <1>2. ASSUME NEW v \in Versions, rec[v] = NoRecord PROVE rec'[v] = NoRecord
    BY <1>1, <1>2 DEF Aged
  <1>3. ASSUME NEW v \in Versions, rec[v] # NoRecord
        PROVE  rec'[v] = Aged(rec[v]) /\ rec'[v] # NoRecord
    <2>1. Sound(rec[v])
      BY <1>3 DEF HealthInv, Records
    <2> QED BY <1>1, <2>1, AgedRow
  <1> QED BY <1>1, <1>2, <1>3

LEMMA RowsStay ==
    ASSUME HealthInv, [HealthNext]_healthVars, NEW v \in Versions, rec[v] # NoRecord
    PROVE  rec'[v] # NoRecord
  BY StepShape, StoredRow, TickRows

-----------------------------------------------------------------------------
(* The parts of the invariant, one by one.                                  *)
LEMMA DoneStaysDone ==
    ASSUME HealthInv, [HealthNext]_healthVars, NEW q \in Requests, req[q].pc = "done"
    PROVE  req'[q].pc = "done"
  <1>1. req \in [Requests -> [pc : {"idle", "selected", "flying", "forced", "done"}, version : 0..MaxVersion]]
    BY DEF HealthInv, Rest
  <1>2. ASSUME NEW p \in Requests, Select(p) PROVE req'[q].pc = "done"
    BY <1>1, <1>2 DEF Select
  <1>3. ASSUME NEW p \in Requests, LoadCredential(p) PROVE req'[q].pc = "done"
    BY <1>1, <1>3 DEF LoadCredential
  <1>4. ASSUME NEW p \in Requests, ForceCooldown(p) PROVE req'[q].pc = "done"
    <2>1. req[p].pc = "flying" /\ req' = [req EXCEPT ![p].pc = "forced"]
      BY <1>4 DEF ForceCooldown
    <2> QED BY <1>1, <2>1
  <1>5. ASSUME NEW p \in Requests, NEW class \in Classes, ApplySignal(p, class) PROVE req'[q].pc = "done"
    <2>1. req' = [req EXCEPT ![p].pc = "done"]
      BY <1>5 DEF ApplySignal
    <2> QED BY <1>1, <2>1
  <1>6. ASSUME NEW p \in Requests, LoseSignal(p) PROVE req'[q].pc = "done"
    BY <1>1, <1>6 DEF LoseSignal
  <1>7. ProbeStep => req' = req
    BY DEF ProbeStep, List, MaybeStartRamp, AdvanceRamp, SkipCall
  <1>8. OperatorStep => req' = req
    BY DEF OperatorStep, ManualPause, ManualResume, ForceActive, ReadForForce, ForceRead, ClearRateLimit
  <1>9. Rotate \/ Tick \/ UNCHANGED healthVars => req' = req
    BY DEF Rotate, Tick, healthVars
  <1> QED BY <1>2, <1>3, <1>4, <1>5, <1>6, <1>7, <1>8, <1>9 DEF HealthNext

LEMMA RestStays ==
    ASSUME HealthInv, [HealthNext]_healthVars
    PROVE  Rest'
  <1> DEFINE Pcs == {"idle", "selected", "flying", "forced", "done"}
             Reqs == [Requests -> [pc : Pcs, version : 0..MaxVersion]]
             Q(c, rq) == /\ rq \in Reqs
                         /\ \A q \in Requests :
                               /\ rq[q].version <= c
                               /\ rq[q].pc \in {"flying", "forced"} => rq[q].version > 0
  <1>0. /\ cred \in Versions /\ forcing \in 0..MaxVersion /\ Q(cred, req)
        /\ probe \in [todo : SUBSET Versions, at : 0..MaxVersion]
        /\ forcing > 0 => rec[forcing] # NoRecord
        /\ ops \in 0..MaxOps /\ faults \in 0..MaxFaults
    BY DEF HealthInv, Rest
  <1>1. /\ cred' \in Versions /\ cred' >= cred /\ (cred' # cred => req' = req)
    <2>1. cred' = cred \/ Rotate
      BY DEF HealthNext, Select, LoadCredential, ForceCooldown, ApplySignal, LoseSignal, ProbeStep,
             List, MaybeStartRamp, AdvanceRamp, SkipCall, OperatorStep, ManualPause, ManualResume,
             ForceActive, ReadForForce, ForceRead, ClearRateLimit, Tick, healthVars
    <2>2. Rotate => cred' = cred + 1 /\ cred < MaxVersion /\ req' = req
      BY DEF Rotate
    <2> QED BY <1>0, <2>1, <2>2, Constants DEF Versions
  <1>2. Q(cred, req')
    <2>1. ASSUME NEW q \in Requests, NEW pc \in {"selected", "forced", "done"},
                 req' = [req EXCEPT ![q].pc = pc], pc = "forced" => req[q].pc = "flying"
          PROVE  Q(cred, req')
      BY <1>0, <2>1
    <2>2. ASSUME NEW q \in Requests, LoadCredential(q) PROVE Q(cred, req')
      <3>1. req' = [req EXCEPT ![q] = [pc |-> "flying", version |-> cred]]
        BY <2>2 DEF LoadCredential
      <3>2. cred \in 0..MaxVersion /\ cred > 0 /\ cred <= cred
        BY <1>0, Constants DEF Versions
      <3> QED BY <1>0, <3>1, <3>2
    <2>3. ASSUME NEW q \in Requests, Select(q) PROVE Q(cred, req')
      <3>1. req' = [req EXCEPT ![q].pc = "selected"]
        BY <2>3 DEF Select
      <3> QED BY <2>1, <3>1
    <2>4. ASSUME NEW q \in Requests, ForceCooldown(q) PROVE Q(cred, req')
      <3>1. req' = [req EXCEPT ![q].pc = "forced"] /\ req[q].pc = "flying"
        BY <2>4 DEF ForceCooldown
      <3> QED BY <2>1, <3>1
    <2>5. ASSUME NEW q \in Requests, LoseSignal(q) \/ \E class \in Classes : ApplySignal(q, class)
          PROVE  Q(cred, req')
      <3>1. req' = [req EXCEPT ![q].pc = "done"]
        BY <2>5 DEF LoseSignal, ApplySignal
      <3> QED BY <2>1, <3>1
    <2>6. ProbeStep \/ OperatorStep => req' = req
      BY DEF ProbeStep, List, MaybeStartRamp, AdvanceRamp, SkipCall, OperatorStep, ManualPause,
             ManualResume, ForceActive, ReadForForce, ForceRead, ClearRateLimit
    <2>7. Rotate \/ Tick \/ UNCHANGED healthVars => req' = req
      BY DEF Rotate, Tick, healthVars
    <2> HIDE DEF Q
    <2> QED BY <1>0, <2>2, <2>3, <2>4, <2>5, <2>6, <2>7 DEF HealthNext
  <1>3. probe' \in [todo : SUBSET Versions, at : 0..MaxVersion]
    <2> DEFINE P == [todo : SUBSET Versions, at : 0..MaxVersion]
    <2>0. Versions \subseteq 0..MaxVersion /\ 0 \in 0..MaxVersion
      BY Constants DEF Versions
    <2>1. List => probe' \in P
      BY <2>0 DEF List, Listed
    <2>2. ASSUME NEW v \in Versions, MaybeStartRamp(v) PROVE probe' \in P
      <3>1. probe' = [todo |-> probe.todo \ {v}, at |-> v]
        BY <2>2 DEF MaybeStartRamp
      <3> QED BY <1>0, <2>0, <3>1
    <2>3. ASSUME NEW v \in Versions, AdvanceRamp(v) PROVE probe' \in P
      <3>1. probe' = [probe EXCEPT !.at = 0]
        BY <2>3 DEF AdvanceRamp
      <3> QED BY <1>0, <2>0, <3>1
    <2>4. SkipCall => probe' \in P
      BY <1>0, <2>0 DEF SkipCall
    <2>5. \/ ProbeStep
          \/ probe' = probe
      BY DEF HealthNext, Select, LoadCredential, ForceCooldown, ApplySignal, LoseSignal, OperatorStep,
             ManualPause, ManualResume, ForceActive, ReadForForce, ForceRead, ClearRateLimit, Rotate,
             Tick, healthVars
    <2> HIDE DEF P
    <2>6. probe \in P
      BY <1>0 DEF P
    <2>7. probe' \in P
      BY <2>1, <2>2, <2>3, <2>4, <2>5, <2>6 DEF ProbeStep
    <2> QED BY <2>7 DEF P
  <1>4. forcing' \in 0..MaxVersion /\ (forcing' > 0 => rec'[forcing'] # NoRecord)
    <2>1. \/ ReadForForce \/ ForceRead
          \/ forcing' = forcing
      BY DEF HealthNext, Select, LoadCredential, ForceCooldown, ApplySignal, LoseSignal, ProbeStep,
             List, MaybeStartRamp, AdvanceRamp, SkipCall, OperatorStep, ManualPause, ManualResume,
             ForceActive, ClearRateLimit, Rotate, Tick, healthVars
    <2>2. CASE forcing' = forcing
      <3>1. forcing > 0 => forcing \in Versions
        BY <1>0, Constants DEF Versions
      <3> QED BY <1>0, <2>2, <3>1, RowsStay
    <2>3. CASE ReadForForce
      <3>1. forcing' = Latest /\ rec' = rec
        BY <2>3 DEF ReadForForce
      <3> QED BY <3>1, LatestIsNewest DEF Newest
    <2>4. CASE ForceRead
      <3>1. forcing' = 0
        BY <2>4 DEF ForceRead
      <3> QED BY <3>1, Constants
    <2> QED BY <2>1, <2>2, <2>3, <2>4
  <1>5. ops' \in 0..MaxOps /\ faults' \in 0..MaxFaults
    <2>1. \/ Operator /\ faults' = faults
          \/ SkipCall
          \/ ops' = ops /\ faults' = faults
      BY DEF HealthNext, Select, LoadCredential, ForceCooldown, ApplySignal, LoseSignal, ProbeStep,
             List, MaybeStartRamp, AdvanceRamp, OperatorStep, ManualPause, ManualResume,
             ForceActive, ReadForForce, ForceRead, ClearRateLimit, Rotate, Tick, healthVars
    <2>2. Operator => ops' \in 0..MaxOps
      BY <1>0, Constants DEF Operator
    <2>3. SkipCall => ops' = ops /\ faults' \in 0..MaxFaults
      BY <1>0, Constants DEF SkipCall
    <2> QED BY <1>0, <2>1, <2>2, <2>3
  <1>6. Q(cred', req')
    <2> HIDE DEF Q
    <2>1. CASE cred' = cred
      BY <1>2, <2>1
    <2>2. CASE cred' # cred
      <3>1. req' = req
        BY <1>1, <2>2
      <3>2. \A q \in Requests : req[q].version \in Nat
        BY <1>0, Constants DEF Q
      <3>3. \A q \in Requests : req[q].version <= cred'
        BY <1>0, <1>1, <3>2, Constants DEF Q, Versions
      <3> QED BY <1>0, <3>1, <3>3 DEF Q
    <2> QED BY <2>1, <2>2
  <1> QED BY <1>1, <1>3, <1>4, <1>5, <1>6 DEF Rest

LEMMA RecordsStay ==
    ASSUME HealthInv, [HealthNext]_healthVars
    PROVE  Records'
  <1>0. /\ DOMAIN rec = Versions /\ rec = [v \in Versions |-> rec[v]]
        /\ \A v \in Versions : rec[v] = NoRecord \/ (Sound(rec[v]) /\ Sampled(v))
    BY DEF HealthInv, Records
  <1>1. ASSUME NEW v \in Versions, rec[v] # NoRecord
        PROVE  /\ \A s \in rec[v].window : s \in TypeOfSample /\ s.of \in Requests /\ req'[s.of].pc = "done"
               /\ \A s, t \in rec[v].window : s.of = t.of => s = t
    <2>1. rec[v].window \subseteq TypeOfSample /\ Sampled(v)
      BY <1>0, <1>1 DEF Sound, Record
    <2>2. ASSUME NEW s \in rec[v].window
          PROVE  s \in TypeOfSample /\ s.of \in Requests /\ req'[s.of].pc = "done"
      <3>1. s \in TypeOfSample /\ s.of \in Requests
        BY <2>1 DEF TypeOfSample
      <3>2. req[s.of].pc = "done"
        BY <2>1 DEF Sampled
      <3> QED BY <3>1, <3>2, DoneStaysDone
    <2> QED BY <2>1, <2>2 DEF Sampled
  <1>2. CASE UNCHANGED <<rec, ramped>>
    <2>1. ASSUME NEW v \in Versions, rec[v] # NoRecord
          PROVE  Sampled(v)'
      BY <1>1, <1>2, <2>1 DEF Sampled
    <2> QED BY <1>0, <1>2, <2>1 DEF Records, Sound
  <1>3. CASE Tick
    <2>1. ASSUME NEW v \in Versions, rec[v] # NoRecord
          PROVE  Sound(rec'[v]) /\ Sampled(v)'
      <3>1. Sound(rec[v]) /\ rec'[v] = Aged(rec[v])
        BY <1>0, <1>3, <2>1, TickRows
      <3>2. /\ Sound(rec'[v])
            /\ rec'[v].window = {[s EXCEPT !.age = @ + 1] : s \in {y \in rec[v].window : y.age < Window}}
        BY <3>1, AgedRow
      <3>3. ASSUME NEW s \in rec'[v].window
            PROVE  \E y \in rec[v].window : s = [y EXCEPT !.age = @ + 1] /\ s.of = y.of
        <4>1. PICK y \in rec[v].window : s = [y EXCEPT !.age = @ + 1]
          BY <3>2
        <4>2. y \in TypeOfSample
          BY <1>1, <2>1
        <4> QED BY <4>1, <4>2 DEF TypeOfSample
      <3>4. Sampled(v)'
        <4>1. ASSUME NEW s \in rec'[v].window, NEW t \in rec'[v].window
              PROVE  req'[s.of].pc = "done" /\ (s.of = t.of => s = t)
          BY <1>1, <2>1, <3>3
        <4> QED BY <4>1 DEF Sampled
      <3> QED BY <3>2, <3>4
    <2> QED BY <1>3, <2>1, TickRows DEF Records, Sound
  <1>4. ASSUME NEW v \in Versions, NEW x, Stored(v, x)
        PROVE  Records'
    <2>1. /\ Sound(x) /\ rec'[v] = x /\ \A w \in Versions : w # v => rec'[w] = rec[w]
          /\ DOMAIN rec' = Versions /\ rec' = [w \in Versions |-> rec'[w]]
      BY <1>4, StoredRow
    <2>2. ASSUME NEW w \in Versions, w # v, rec[w] # NoRecord
          PROVE  Sampled(w)'
      <3>1. rec'[w] = rec[w]
        BY <2>1, <2>2
      <3> QED BY <1>1, <2>2, <3>1 DEF Sampled
    <2>3. \A s \in Known(v).window : s.of \in Requests /\ req[s.of].pc = "done" /\ req'[s.of].pc = "done"
      <3>1. CASE rec[v] = NoRecord
        BY <3>1, KnownIsSound
      <3>2. CASE rec[v] # NoRecord
        BY <1>0, <1>1, <3>2, KnownIsSound DEF Sampled
      <3> QED BY <3>1, <3>2
    <2>4. \A s, t \in Known(v).window : s.of = t.of => s = t
      BY <1>1, KnownIsSound
    <2>5. ASSUME NEW s \in x.window, NEW t \in x.window
          PROVE  req'[s.of].pc = "done" /\ (s.of = t.of => s = t)
      <3>1. CASE x.window \subseteq Known(v).window
        BY <2>3, <2>4, <3>1
      <3>2. ASSUME NEW q \in Requests, NEW class \in Classes, req[q].pc # "done", req'[q].pc = "done",
                   x.window = Known(v).window \cup {NewSample(q, class)}
            PROVE  req'[s.of].pc = "done" /\ (s.of = t.of => s = t)
        <4>1. NewSample(q, class).of = q
          BY DEF NewSample
        <4>2. \A y \in Known(v).window : y.of # q
          BY <2>3, <3>2
        <4> QED BY <2>3, <2>4, <3>2, <4>1, <4>2
      <3> QED BY <1>4, <3>1, <3>2 DEF Stored
    <2>6. Sampled(v)'
      BY <2>1, <2>5 DEF Sampled
    <2> QED BY <1>0, <2>1, <2>2, <2>6 DEF Records, Sound
  <1> QED BY <1>2, <1>3, <1>4, StepShape

LEMMA NewestStays ==
    ASSUME HealthInv, [HealthNext]_healthVars
    PROVE  NewestExists'
  <1>0. NewestExists /\ Versions \subseteq Nat
    BY Constants DEF HealthInv
  <1>1. CASE UNCHANGED <<rec, ramped>>
    BY <1>0, <1>1 DEF NewestExists, Newest
  <1>2. CASE Tick
    <2>1. \A v \in Versions : rec'[v] = NoRecord <=> rec[v] = NoRecord
      BY <1>2, TickRows
    <2> QED BY <1>0, <2>1 DEF NewestExists, Newest
  <1>3. ASSUME NEW v \in Versions, NEW x, Stored(v, x)
        PROVE  NewestExists'
    <2>1. rec'[v] # NoRecord /\ \A w \in Versions : w # v => rec'[w] = rec[w]
      BY <1>3, StoredRow
    <2>2. CASE \E n \in Versions : Newest(n) /\ n > v
      <3>1. PICK n \in Versions : Newest(n) /\ n > v
        BY <2>2
      <3>2. rec'[n] # NoRecord /\ \A w \in Versions : w > n => rec'[w] = NoRecord
        BY <1>0, <2>1, <3>1 DEF Newest
      <3> QED BY <3>2 DEF NewestExists, Newest
    <2>3. CASE ~ \E n \in Versions : Newest(n) /\ n > v
      <3>1. \A w \in Versions : w > v => rec[w] = NoRecord
        <4>1. CASE \A w \in Versions : rec[w] = NoRecord
          BY <4>1
        <4>2. CASE \E w \in Versions : rec[w] # NoRecord
          <5>1. PICK n \in Versions : Newest(n)
            BY <1>0, <4>2 DEF NewestExists
          <5>2. n <= v
            BY <1>0, <2>3, <5>1
          <5> QED BY <1>0, <5>1, <5>2 DEF Newest
        <4> QED BY <4>1, <4>2
      <3>2. \A w \in Versions : w > v => rec'[w] = NoRecord
        BY <1>0, <2>1, <3>1
      <3> QED BY <2>1, <3>2 DEF NewestExists, Newest
    <2> QED BY <2>2, <2>3
  <1> QED BY <1>1, <1>2, <1>3, StepShape

(* The time a ramp lasts keeps up with its stages.                          *)
LEMMA RampStays ==
    ASSUME HealthInv, [HealthNext]_healthVars
    PROVE  ramped' \in [Versions -> Nat] /\ \A v \in Versions : RampIsTimed(v)'
  <1>0. /\ ramped \in [Versions -> Nat] /\ \A v \in Versions : RampIsTimed(v)
        /\ RampMin \in Nat \ {0} /\ RampMax \in Nat /\ RampMin <= RampMax
    BY Constants DEF HealthInv
  <1>1. CASE UNCHANGED <<rec, ramped>>
    BY <1>0, <1>1 DEF RampIsTimed
  <1>2. CASE Tick
    <2>1. ramped' = [v \in Versions |->
              IF rec[v].state = "ramping" THEN Min2(ramped[v] + 1, 5 * RampMin) ELSE 0]
      BY <1>2 DEF Tick
    <2>2. ramped' \in [Versions -> Nat]
      BY <1>0, <2>1 DEF Min2
    <2>3. ASSUME NEW v \in Versions, rec'[v].state = "ramping"
          PROVE  RampIsTimed(v)'
      <3>1. rec[v] # NoRecord
        BY <1>2, <2>3, TickRows DEF NoRecord
      <3>2. /\ Sound(rec[v]) /\ rec'[v].state = rec[v].state /\ rec'[v].stage = rec[v].stage
            /\ rec[v].state = "ramping" => rec'[v].age = Min2(rec[v].age + 1, RampMax)
        BY <1>2, <3>1, TickRows, AgedRow DEF HealthInv, Records
      <3>3. rec[v].stage \in Stages /\ rec[v].age \in Nat
        BY <2>3, <3>2, Constants DEF Sound, Record
      <3>4. ramped[v] >= Past[rec[v].stage] * RampMin + Min2(rec[v].age, RampMin)
        BY <1>0, <2>3, <3>2 DEF RampIsTimed
      <3>5. ramped'[v] = Min2(ramped[v] + 1, 5 * RampMin)
        BY <2>1, <2>3, <3>2
      <3>6. Past[rec[v].stage] \in 0..3
        BY <3>3 DEF Past, Stages
      <3>7. ramped'[v] >= Past[rec[v].stage] * RampMin + Min2(Min2(rec[v].age + 1, RampMax), RampMin)
        <4>1. ASSUME NEW p \in 0..3, NEW t \in Nat, NEW a \in Nat, t >= p * RampMin + Min2(a, RampMin)
              PROVE  Min2(t + 1, 5 * RampMin) >= p * RampMin + Min2(Min2(a + 1, RampMax), RampMin)
          <5>1. p = 0 \/ p = 1 \/ p = 2 \/ p = 3
            OBVIOUS
          <5>2. Min2(Min2(a + 1, RampMax), RampMin) <= Min2(a, RampMin) + 1
                /\ Min2(Min2(a + 1, RampMax), RampMin) <= RampMin
            BY <1>0 DEF Min2
          <5>3. Min2(a, RampMin) \in Nat /\ Min2(Min2(a + 1, RampMax), RampMin) \in Nat
            BY <1>0 DEF Min2
          <5> DEFINE m == Min2(a, RampMin)
                     n == Min2(Min2(a + 1, RampMax), RampMin)
          <5>4. m \in Nat /\ n \in Nat /\ n <= m + 1 /\ n <= RampMin /\ t >= p * RampMin + m
            BY <4>1, <5>2, <5>3
          <5> HIDE DEF m, n
          <5>5. Min2(t + 1, 5 * RampMin) >= p * RampMin + n
            BY <1>0, <5>1, <5>4 DEF Min2
          <5> QED BY <5>5 DEF n
        <4> QED BY <1>0, <3>3, <3>4, <3>5, <3>6, <4>1
      <3> QED BY <2>3, <3>2, <3>7 DEF RampIsTimed
    <2> QED BY <2>2, <2>3 DEF RampIsTimed
  <1>3. ASSUME NEW v \in Versions, NEW x, Stored(v, x)
        PROVE  ramped' \in [Versions -> Nat] /\ \A w \in Versions : RampIsTimed(w)'
    <2>1. /\ Sound(x) /\ rec'[v] = x
          /\ \A w \in Versions : w # v => rec'[w] = rec[w] /\ ramped'[w] = ramped[w]
          /\ ramped' \in [Versions -> Nat]
          /\ x.state = "ramping" /\ rec[v].state = "ramping" => ramped'[v] = ramped[v]
      BY <1>3, StoredRow
    <2>2. \A w \in Versions : w # v => RampIsTimed(w)'
      BY <1>0, <2>1 DEF RampIsTimed
    <2>3. ASSUME x.state = "ramping"
          PROVE  RampIsTimed(v)'
      <3>1. Climbs(Known(v), x)
        BY <1>3 DEF Stored, Changes
      <3>2. Known(v).state = "ramping" =>
               /\ Known(v) = rec[v] /\ rec[v].stage \in Stages /\ rec[v].age \in Nat
               /\ ramped'[v] = ramped[v]
               /\ ramped[v] >= Past[rec[v].stage] * RampMin + Min2(rec[v].age, RampMin)
        <4>1. SUFFICES ASSUME Known(v).state = "ramping"
                       PROVE  /\ Known(v) = rec[v] /\ rec[v].stage \in Stages /\ rec[v].age \in Nat
                              /\ ramped'[v] = ramped[v]
                              /\ ramped[v] >= Past[rec[v].stage] * RampMin + Min2(rec[v].age, RampMin)
          OBVIOUS
        <4>2. Known(v) = rec[v] /\ Sound(rec[v])
          BY <4>1, KnownIsSound
        <4>3. rec[v].stage \in Stages /\ rec[v].age \in Nat
          BY <4>1, <4>2, Constants DEF Sound, Record
        <4> QED BY <1>0, <2>1, <2>3, <4>1, <4>2, <4>3 DEF RampIsTimed
      <3>3. CASE x.stage = 1 /\ x.age = 0
        <4>1. ramped'[v] \in Nat /\ Past[1] = 0 /\ Min2(0, RampMin) = 0
          BY <1>0, <2>1 DEF Past, Stages, Min2
        <4>2. ramped'[v] >= Past[x.stage] * RampMin + Min2(x.age, RampMin)
          BY <1>0, <3>3, <4>1
        <4> QED BY <2>1, <4>2 DEF RampIsTimed
      <3>4. CASE Known(v).state = "ramping" /\ x.stage = Known(v).stage /\ x.age = Known(v).age
        BY <2>1, <3>2, <3>4 DEF RampIsTimed
      <3>5. CASE /\ Known(v).state = "ramping" /\ Known(v).stage # 100 /\ Known(v).age >= RampMin
                 /\ x.stage = NextStage[Known(v).stage] /\ x.age = 0
        <4>1. rec[v].stage \in {1, 10, 50} /\ rec[v].age >= RampMin /\ x.stage = NextStage[rec[v].stage]
          BY <3>2, <3>5 DEF Stages
        <4>2. Past[x.stage] = Past[rec[v].stage] + 1 /\ Past[rec[v].stage] \in 0..2
          BY <4>1 DEF Past, NextStage, Stages
        <4>3. Min2(rec[v].age, RampMin) = RampMin /\ Min2(x.age, RampMin) = 0
          BY <1>0, <3>2, <3>5, <4>1 DEF Min2
        <4>4. ramped'[v] >= Past[x.stage] * RampMin + Min2(x.age, RampMin)
          <5>1. ramped'[v] >= Past[rec[v].stage] * RampMin + RampMin
            BY <3>2, <3>5, <4>3
          <5>2. \A p \in 0..2 : p * RampMin + RampMin = (p + 1) * RampMin + 0
            BY <1>0
          <5> QED BY <4>2, <4>3, <5>1, <5>2
        <4> QED BY <2>1, <4>4 DEF RampIsTimed
      <3> QED BY <2>3, <3>1, <3>3, <3>4, <3>5 DEF Climbs
    <2> QED BY <2>1, <2>2, <2>3 DEF RampIsTimed
  <1> QED BY <1>1, <1>2, <1>3, StepShape

LEMMA HealthStays ==
    ASSUME HealthInv, [HealthNext]_healthVars
    PROVE  HealthInv'
  BY RestStays, RecordsStay, NewestStays, RampStays DEF HealthInv

LEMMA HealthIsSound == HealthSpec => []HealthInv
  <1>1. HealthInv /\ [HealthNext]_healthVars => HealthInv'
    BY HealthStays
  <1> QED BY InitHealth, <1>1, PTL DEF HealthSpec

LEMMA NewestIsLatest == \A n \in Versions : Newest(n) => Latest = n
  <1> SUFFICES ASSUME NEW n \in Versions, Newest(n) PROVE Latest = n
    OBVIOUS
  <1>1. Latest = CHOOSE v \in Versions :
                     rec[v] # NoRecord /\ \A w \in Versions : w > v => rec[w] = NoRecord
    BY DEF Latest, Newest
  <1>2. \A v \in Versions :
           rec[v] # NoRecord /\ (\A w \in Versions : w > v => rec[w] = NoRecord) => v = n
    BY Constants DEF Newest
  <1> QED BY <1>1, <1>2 DEF Newest

-----------------------------------------------------------------------------
(* The model keeps its types: in particular exactly a ramping account has a *)
(* stage, and a window holds one sample of an attempt at most (service.go). *)
THEOREM HealthTypesHold == HealthSpec => []HealthTypeOK
  <1>1. HealthInv => HealthTypeOK
    <2> SUFFICES ASSUME HealthInv PROVE HealthTypeOK
      OBVIOUS
    <2>1. ASSUME NEW v \in Versions, rec[v] # NoRecord
          PROVE  /\ rec[v].state \in States
                 /\ rec[v].stage \in (IF rec[v].state = "ramping" THEN {1, 10, 50, 100} ELSE {0})
                 /\ rec[v].state = "manual_paused" => rec[v].until = 0
                 /\ rec[v].age \in 0..RampMax /\ rec[v].streak \in 0..MaxLevel
                 /\ rec[v].window \subseteq TypeOfSample
                 /\ \A s, t \in rec[v].window : s.of = t.of => s = t
      <3>1. Sound(rec[v]) /\ Sampled(v)
        BY <2>1 DEF HealthInv, Records
      <3>2. rec[v].stage \in Stages \cup {0} /\ (rec[v].state = "ramping" <=> rec[v].stage # 0)
        BY <3>1 DEF Sound, Record
      <3> QED BY <3>1, <3>2 DEF Sound, Record, Sampled, Stages
    <2>2. \A q \in Requests :
             /\ req[q].pc \in {"idle", "selected", "flying", "forced", "done"}
             /\ req[q].version \in 0..cred
      <3>1. ASSUME NEW q \in Requests
            PROVE  req[q].version \in 0..cred
        <4>1. req[q].version \in 0..MaxVersion /\ req[q].version <= cred /\ cred \in Versions
          BY DEF HealthInv, Rest
        <4> QED BY <4>1, Constants DEF Versions
      <3> QED BY <3>1 DEF HealthInv, Rest
    <2> QED BY <2>1, <2>2 DEF HealthTypeOK, HealthInv, Rest, States
  <1> QED BY <1>1, HealthIsSound, PTL

(* A disabled account leaves that state by an operator, or by what a        *)
(* request that flew with its credential reports, which degrades it or lets *)
(* it cool; no round of the coordinator touches it (service.go:549).        *)
LEMMA WhoTouchesDisabled ==
    ASSUME HealthInv, [HealthNext]_healthVars, NEW v \in Versions, rec[v].state = "disabled",
           rec'[v] # rec[v], ~Tick
    PROVE  ByOperator \/ \E q \in Requests : req[q].version = v /\ req'[q].pc # req[q].pc
  <1>0. \A w \in Versions : \A x : Store(w, x) => w = v \/ rec'[v] = rec[v]
    BY DEF Store
  <1>5. DOMAIN req = Requests /\ \A q \in Requests : DOMAIN req[q] = {"pc", "version"}
    BY DEF HealthInv, Rest
  <1>1. CASE \E q \in Requests : ForceCooldown(q) \/ \E class \in Classes : ApplySignal(q, class)
    <2>1. PICK q \in Requests : ForceCooldown(q) \/ \E class \in Classes : ApplySignal(q, class)
      BY <1>1
    <2>2. \E pc \in {"forced", "done"} : req[q].pc # pc /\ req' = [req EXCEPT ![q].pc = pc]
      BY <2>1 DEF ForceCooldown, ApplySignal
    <2>3. req'[q].pc # req[q].pc
      BY <1>5, <2>2
    <2>4. req[q].version \in Versions /\ \E x : Store(req[q].version, x)
      BY <2>1, FliesWithAVersion DEF ForceCooldown, ApplySignal
    <2> QED BY <1>0, <2>3, <2>4
  <1>2. CASE \E w \in Versions : MaybeStartRamp(w) \/ AdvanceRamp(w)
    <2>1. PICK w \in Versions : MaybeStartRamp(w) \/ AdvanceRamp(w)
      BY <1>2
    <2>2. w # v
      BY <2>1 DEF MaybeStartRamp, AdvanceRamp, CanStart
    <2>3. UNCHANGED rec \/ \E x : Store(w, x)
      BY <2>1 DEF MaybeStartRamp, AdvanceRamp
    <2> QED BY <1>0, <2>2, <2>3
  <1>3. CASE OperatorStep
    BY <1>3, OperatorStores
  <1>4. (\E q \in Requests : Select(q) \/ LoadCredential(q) \/ LoseSignal(q))
        \/ List \/ SkipCall \/ Rotate \/ UNCHANGED healthVars => rec' = rec
    BY DEF Select, LoadCredential, LoseSignal, List, SkipCall, Rotate, healthVars
  <1> QED BY <1>1, <1>2, <1>3, <1>4 DEF HealthNext, ProbeStep

(* So much of it holds of every step: the end of the ban's cooldown is not  *)
(* the end of the ban.                                                      *)
THEOREM BansOutliveCooldowns == HealthSpec => BanOutlivesItsCooldown
  <1>1. ASSUME HealthInv, [HealthNext]_healthVars
        PROVE  \A v \in Versions : rec[v].state = "disabled" /\ rec'[v].state # "disabled" =>
                  \/ ByOperator
                  \/ /\ rec'[v].state \in {"degraded", "cooling_down"}
                     /\ \E q \in Requests : req[q].version = v /\ req'[q].pc # req[q].pc
    <2>1. SUFFICES ASSUME NEW v \in Versions, rec[v].state = "disabled", rec'[v].state # "disabled"
                   PROVE  \/ ByOperator
                          \/ /\ rec'[v].state \in {"degraded", "cooling_down"}
                             /\ \E q \in Requests : req[q].version = v /\ req'[q].pc # req[q].pc
      OBVIOUS
    <2>2. rec[v] # NoRecord
      BY <2>1 DEF NoRecord
    <2>3. ~UNCHANGED <<rec, ramped>>
      BY <2>1
    <2>4. ~Tick
      <3>1. SUFFICES ASSUME Tick PROVE FALSE
        OBVIOUS
      <3>2. rec'[v].state = rec[v].state
        BY <1>1, <2>2, <3>1, TickRows, AgedRow DEF HealthInv, Records
      <3> QED BY <2>1, <3>2
    <2>5. PICK w \in Versions : \E x : Stored(w, x)
      BY <1>1, <2>3, <2>4, StepShape
    <2>6. PICK x : Stored(w, x)
      BY <2>5
    <2>7. w = v /\ rec'[v] = x
      BY <1>1, <2>1, <2>6, StoredRow
    <2>8. Known(v) = rec[v]
      BY <2>2 DEF Known
    <2>9. ByOperator \/ rec'[v].state \in {"degraded", "cooling_down"}
      BY <2>1, <2>6, <2>7, <2>8 DEF Stored, Unaided
    <2>10. ByOperator \/ \E q \in Requests : req[q].version = v /\ req'[q].pc # req[q].pc
      BY <1>1, <2>1, <2>4, WhoTouchesDisabled
    <2> QED BY <2>9, <2>10
  <1> QED BY <1>1, HealthIsSound, PTL DEF HealthSpec, BanOutlivesItsCooldown

(* Whatever arrives while an account cools, the end comes no nearer than    *)
(* time itself brings it (service.go:336).                                  *)
THEOREM CooldownsAreKept == HealthSpec => CooldownNeverShortened
  <1>1. ASSUME HealthInv, [HealthNext]_healthVars
        PROVE  \A v \in Versions :
                  rec[v].state = "cooling_down" /\ rec'[v].state = "cooling_down" =>
                      rec'[v].until + 1 >= rec[v].until
    <2>1. SUFFICES ASSUME NEW v \in Versions, rec[v].state = "cooling_down", rec'[v].state = "cooling_down"
                   PROVE  rec'[v].until + 1 >= rec[v].until
      OBVIOUS
    <2>2. rec[v] # NoRecord
      BY <2>1 DEF NoRecord
    <2>3. Sound(rec[v]) /\ rec[v].until \in Nat /\ Known(v) = rec[v]
      BY <1>1, <2>2 DEF HealthInv, Records, Sound, Record, Known
    <2>4. CASE rec'[v] = rec[v]
      BY <2>3, <2>4
    <2>5. CASE Tick
      BY <1>1, <2>2, <2>3, <2>5, TickRows, AgedRow
    <2>6. ASSUME NEW w \in Versions, NEW x, Stored(w, x), rec'[v] # rec[v]
          PROVE  rec'[v].until + 1 >= rec[v].until
      <3>1. w = v /\ rec'[v] = x /\ Sound(x)
        BY <1>1, <2>6, StoredRow
      <3>2. x.until >= rec[v].until
        BY <2>1, <2>3, <2>6, <3>1 DEF Stored, Changes, Kept
      <3>3. x.until \in Nat
        BY <3>1 DEF Sound, Record
      <3> QED BY <2>3, <3>1, <3>2, <3>3
    <2> QED BY <1>1, <2>4, <2>5, <2>6, StepShape
  <1> QED BY <1>1, HealthIsSound, PTL DEF HealthSpec, CooldownNeverShortened

(* A ramp that ends in full traffic has lasted four shortest stages,        *)
(* whatever was restarted, rolled back or signalled on the way              *)
(* (service.go:228).                                                        *)
THEOREM RampsTakeTheirTime == HealthSpec => RampTakesItsTime
  <1>1. ASSUME HealthInv, [HealthNext]_healthVars
        PROVE  \A v \in Versions :
                  rec[v].state = "ramping" /\ rec'[v].state = "active" /\ ~ByOperator =>
                      ramped[v] >= 4 * RampMin
    <2>1. SUFFICES ASSUME NEW v \in Versions, rec[v].state = "ramping", rec'[v].state = "active", ~ByOperator
                   PROVE  ramped[v] >= 4 * RampMin
      OBVIOUS
    <2>2. rec[v] # NoRecord
      BY <2>1 DEF NoRecord
    <2>3. Sound(rec[v]) /\ Known(v) = rec[v]
      BY <1>1, <2>2 DEF HealthInv, Records, Known
    <2>4. rec'[v] # rec[v]
      BY <2>1
    <2>5. ~Tick
      <3>1. SUFFICES ASSUME Tick PROVE FALSE
        OBVIOUS
      <3>2. rec'[v].state = rec[v].state
        BY <1>1, <2>2, <2>3, <3>1, TickRows, AgedRow
      <3> QED BY <2>1, <3>2
    <2>6. PICK w \in Versions : \E x : Stored(w, x)
      BY <1>1, <2>4, <2>5, StepShape
    <2>7. PICK x : Stored(w, x)
      BY <2>6
    <2>8. w = v /\ rec'[v] = x
      BY <1>1, <2>4, <2>7, StoredRow
    <2>9. rec[v].stage = 100 /\ rec[v].age >= RampMin
      BY <2>1, <2>3, <2>7, <2>8 DEF Stored, Unaided
    <2>10. ramped[v] >= Past[100] * RampMin + Min2(rec[v].age, RampMin)
      BY <1>1, <2>1, <2>9 DEF HealthInv, RampIsTimed
    <2>11. Past[100] = 3 /\ Min2(rec[v].age, RampMin) = RampMin
      <3>1. rec[v].age \in Nat
        BY <2>3, Constants DEF Sound, Record
      <3> QED BY <2>9, <3>1, Constants DEF Past, Stages, Min2
    <2>12. ramped[v] \in Nat
      BY <1>1 DEF HealthInv
    <2> QED BY <2>10, <2>11, <2>12, Constants
  <1> QED BY <1>1, HealthIsSound, PTL DEF HealthSpec, RampTakesItsTime

(* What an attempt on a replaced credential says late changes an old row,   *)
(* and the newest one decides (store_postgres.go:122).                      *)
THEOREM LateSignalsAreHarmless == HealthSpec => LateSignalHarmless
  <1>0. (\A n \in Versions : Newest(n) => Latest = n)'
    BY NewestIsLatest, PTL
  <1>1. ASSUME HealthInv, [HealthNext]_healthVars
        PROVE  \A q \in Requests :
                  req[q].version > 0 /\ req'[q] # req[q] /\ req[q].pc \in {"flying", "forced"}
                  /\ (\E v \in Versions : v > req[q].version /\ rec[v] # NoRecord)
                      => Selectable' = Selectable
    <2>1. SUFFICES ASSUME NEW q \in Requests, req'[q] # req[q], req[q].pc \in {"flying", "forced"},
                          NEW v \in Versions, v > req[q].version, rec[v] # NoRecord
                   PROVE  Selectable' = Selectable
      OBVIOUS
    <2> DEFINE u == req[q].version
    <2>2. \A w \in Versions : w # u => rec'[w] = rec[w]
      <3>1. ForceCooldown(q) \/ LoseSignal(q) \/ \E class \in Classes : ApplySignal(q, class)
        <4>1. req \in [Requests -> [pc : {"idle", "selected", "flying", "forced", "done"}, version : 0..MaxVersion]]
          BY <1>1 DEF HealthInv, Rest
        <4>2. ASSUME NEW p \in Requests, Select(p) \/ LoadCredential(p) PROVE FALSE
          <5>1. p # q
            BY <2>1, <4>2 DEF Select, LoadCredential
          <5> QED BY <2>1, <4>1, <4>2, <5>1 DEF Select, LoadCredential
        <4>3. ASSUME NEW p \in Requests, p # q, ForceCooldown(p) PROVE FALSE
          <5>1. req' = [req EXCEPT ![p].pc = "forced"]
            BY <4>3 DEF ForceCooldown
          <5> QED BY <2>1, <4>1, <4>3, <5>1
        <4>4. ASSUME NEW p \in Requests, p # q,
                     LoseSignal(p) \/ \E class \in Classes : ApplySignal(p, class) PROVE FALSE
          <5>1. req' = [req EXCEPT ![p].pc = "done"]
            BY <4>4 DEF ApplySignal, LoseSignal
          <5> QED BY <2>1, <4>1, <4>4, <5>1
        <4>5. ~(ProbeStep \/ OperatorStep \/ Rotate \/ Tick \/ UNCHANGED healthVars)
          BY <2>1 DEF ProbeStep, List, MaybeStartRamp, AdvanceRamp, SkipCall, OperatorStep, ManualPause,
                 ManualResume, ForceActive, ReadForForce, ForceRead, ClearRateLimit, Rotate, Tick, healthVars
        <4> QED BY <1>1, <4>2, <4>3, <4>4, <4>5 DEF HealthNext
      <3>2. LoseSignal(q) => rec' = rec
        BY DEF LoseSignal
      <3>3. (ForceCooldown(q) \/ \E class \in Classes : ApplySignal(q, class))
               => u \in Versions /\ \E x : Stored(u, x)
        BY <1>1, CooldownStores, SignalStores
      <3> HIDE DEF u
      <3> QED BY <1>1, <3>1, <3>2, <3>3, StoredRow
    <2>3. u \in Nat /\ v > u /\ v \in Versions /\ Versions \subseteq Nat \ {0}
      BY <1>1, <2>1, Constants DEF HealthInv, Rest
    <2> HIDE DEF u
    <2>4. Latest \in Versions /\ Newest(Latest) /\ Latest > 0
      BY <1>1, <2>1, <2>3, LatestIsNewest
    <2>5. Latest # u
      BY <2>1, <2>3, <2>4 DEF Newest
    <2>6. rec'[Latest] = rec[Latest] /\ rec'[Latest] # NoRecord
      BY <2>2, <2>4, <2>5 DEF Newest
    <2>7. \A w \in Versions : w > Latest => rec'[w] = NoRecord
      <3>1. ASSUME NEW w \in Versions, w > Latest PROVE rec'[w] = rec[w] /\ rec[w] = NoRecord
        <4>1. rec[w] = NoRecord
          BY <2>4, <3>1 DEF Newest
        <4>2. w > u
          <5>1. v <= Latest
            BY <2>1, <2>3, <2>4 DEF Newest
          <5> QED BY <2>3, <2>4, <3>1, <5>1
        <4> QED BY <2>2, <2>3, <4>1, <4>2
      <3> QED BY <3>1
    <2>8. Latest' = Latest
      <3> DEFINE n == Latest
      <3>1. n \in Versions /\ rec'[n] # NoRecord /\ \A w \in Versions : w > n => rec'[w] = NoRecord
        BY <2>4, <2>6, <2>7
      <3> HIDE DEF n
      <3>2. Latest' = n
        BY <1>0, <3>1 DEF Newest
      <3> QED BY <3>2 DEF n
    <2> QED BY <2>4, <2>6, <2>7, <2>8 DEF Selectable
  <1> QED BY <1>1, HealthIsSound, PTL DEF HealthSpec, LateSignalHarmless

(* All that is checked of a health record on small instances holds of any.  *)
THEOREM HealthIsKept == HealthSpec => HealthKeepsOrder
  BY HealthTypesHold, BansOutliveCooldowns, CooldownsAreKept, RampsTakeTheirTime,
     LateSignalsAreHarmless, PTL DEF HealthKeepsOrder

===============================================================================
