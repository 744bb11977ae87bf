-------------------------- MODULE BalanceAdjustments --------------------------
(***************************************************************************)
(* Credits and debits given by hand: the platform fills a tenant's wallet   *)
(* or the balance of a user of its own, a tenant moves money between its    *)
(* wallet and its users.  Each adjustment is one SERIALIZABLE transaction   *)
(* whose snapshot is older than the advisory lock on its idempotency key.   *)
(***************************************************************************)
EXTENDS Integers, FiniteSets, Sums

CONSTANTS
    AdjustUsers,
    PlatformUsers,             \* those the platform credits itself
    Tenant,                    \* the account tenant_wallets keeps
    Adjustments,               \* [key, user (Tenant for the wallet), amount]
    Clerks,                    \* requests being served
    MaxUsed,                   \* bound on what a user's requests hold and spend
    MaxAdjustFaults,
    NoAdjustment

Accounts == AdjustUsers \cup {Tenant}
KeysOf == {r.key : r \in Adjustments}

ASSUME AdjustmentAssumption ==
    /\ PlatformUsers \subseteq AdjustUsers /\ Tenant \notin AdjustUsers
    /\ \A r \in Adjustments : r.user \in Accounts /\ r.amount \in Int \ {0}
    /\ NoAdjustment \notin Adjustments
    /\ MaxUsed \in Nat /\ MaxAdjustFaults \in Nat

VARIABLES
    accounts, held,            \* of each account; the wallet holds nothing
    rowVersion,                \* of each account's row
    adjusted,                  \* the request a key recorded
    entries,                   \* what a key's two entries did to each account
    clerk,
    userSpent,                 \* history: what users' requests have spent
    applied,                   \* history: how often a key moved money
    answers,                   \* history: what each request was answered
    adminFaults

adjustVars == <<accounts, held, rowVersion, adjusted, entries, clerk, userSpent,
                applied, answers, adminFaults>>

Resting ==
    [pc |-> "idle", req |-> NoAdjustment, seen |-> {}, rows |-> [a \in Accounts |-> 0]]

AdjustInit ==
    /\ accounts = [a \in Accounts |-> 0]
    /\ held = [a \in Accounts |-> 0]
    /\ rowVersion = [a \in Accounts |-> 0]
    /\ adjusted = [k \in KeysOf |-> NoAdjustment]
    /\ entries = [k \in KeysOf |-> [a \in Accounts |-> 0]]
    /\ clerk = [w \in Clerks |-> Resting]
    /\ userSpent = [u \in AdjustUsers |-> 0]
    /\ applied = [k \in KeysOf |-> 0]
    /\ answers = {}
    /\ adminFaults = 0

-----------------------------------------------------------------------------
(* The two entries of a request, without the platform's, which has no       *)
(* balance: the wallet gives what a tenant's own user gets.                 *)
Delta(r) ==
    [a \in Accounts |->
        IF a = r.user THEN r.amount
        ELSE IF a = Tenant /\ r.user \notin PlatformUsers THEN -r.amount ELSE 0]

Touched(r) == {a \in Accounts : Delta(r)[a] # 0}

(* Fault: a debit may take what is held.                                    *)
Sufficient_IgnoresHeld(r) == \A a \in Touched(r) : accounts[a] + Delta(r)[a] >= 0

Sufficient(r) ==
    \A a \in Touched(r) :
        /\ accounts[a] + Delta(r)[a] >= 0
        /\ Delta(r)[a] < 0 => accounts[a] - held[a] >= -Delta(r)[a]

(* The first statement asks for the advisory lock: it takes the snapshot    *)
(* and then waits.                                                          *)
Snapshot(w, r) ==
    clerk' = [clerk EXCEPT ![w] =
        [pc |-> "waiting", req |-> r,
         seen |-> {k \in KeysOf : adjusted[k] # NoAdjustment}, rows |-> rowVersion]]

BeginAdjust(w) ==
    /\ clerk[w].pc = "idle"
    /\ \E r \in Adjustments : Snapshot(w, r)
    /\ UNCHANGED <<accounts, held, rowVersion, adjusted, entries, userSpent,
                   applied, answers, adminFaults>>

Lock(w) ==
    /\ clerk[w].pc = "waiting"
    /\ \A v \in Clerks : clerk[v].pc = "locked" => clerk[v].req.key # clerk[w].req.key
    /\ clerk' = [clerk EXCEPT ![w].pc = "locked"]
    /\ UNCHANGED <<accounts, held, rowVersion, adjusted, entries, userSpent,
                   applied, answers, adminFaults>>

Answer(w, a) ==
    /\ clerk' = [clerk EXCEPT ![w] = Resting]
    /\ answers' = answers \cup {<<clerk[w].req, a>>}

Seen(w) == clerk[w].req.key \in clerk[w].seen
RowsMoved(w) == \E a \in Touched(clerk[w].req) : rowVersion[a] # clerk[w].rows[a]

(* Fault: a used key is answered without comparing fingerprints.            *)
ReplayKey_Blind(w) ==
    /\ clerk[w].pc = "locked" /\ Seen(w)
    /\ Answer(w, "replayed")
    /\ UNCHANGED <<accounts, held, rowVersion, adjusted, entries, userSpent,
                   applied, adminFaults>>

(* The key was used before the snapshot. *)
ReplayKey(w) ==
    LET r == clerk[w].req IN
    /\ clerk[w].pc = "locked" /\ Seen(w)
    /\ Answer(w, IF adjusted[r.key] = r THEN "replayed" ELSE "conflict")
    /\ UNCHANGED <<accounts, held, rowVersion, adjusted, entries, userSpent,
                   applied, adminFaults>>

(* Fault: the retry goes on in the transaction that failed.                 *)
Retry_OldSnapshot(w) ==
    /\ clerk[w].pc = "locked" /\ ~Seen(w) /\ RowsMoved(w)
    /\ clerk' = [clerk EXCEPT ![w].pc = "waiting"]
    /\ UNCHANGED <<accounts, held, rowVersion, adjusted, entries, userSpent,
                   applied, answers, adminFaults>>

(* A row it locks was changed after the snapshot: a serialization failure,  *)
(* and the transaction starts over.                                         *)
Retry(w) ==
    /\ clerk[w].pc = "locked" /\ ~Seen(w) /\ RowsMoved(w)
    /\ Snapshot(w, clerk[w].req)
    /\ UNCHANGED <<accounts, held, rowVersion, adjusted, entries, userSpent,
                   applied, answers, adminFaults>>

(* The key was used after the snapshot, for other rows: the unique index    *)
(* refuses the transaction record.                                          *)
Collide(w) ==
    LET r == clerk[w].req IN
    /\ clerk[w].pc = "locked" /\ ~Seen(w) /\ ~RowsMoved(w)
    /\ Sufficient(r) /\ adjusted[r.key] # NoAdjustment
    /\ Answer(w, "conflict")
    /\ UNCHANGED <<accounts, held, rowVersion, adjusted, entries, userSpent,
                   applied, adminFaults>>

Refuse(w) ==
    /\ clerk[w].pc = "locked" /\ ~Seen(w) /\ ~RowsMoved(w)
    /\ ~Sufficient(clerk[w].req)
    /\ Answer(w, "insufficient")
    /\ UNCHANGED <<accounts, held, rowVersion, adjusted, entries, userSpent,
                   applied, adminFaults>>

Commit(w) ==
    LET r == clerk[w].req IN
    /\ accounts' = [a \in Accounts |-> accounts[a] + Delta(r)[a]]
    /\ rowVersion' = [a \in Accounts |->
           IF a \in Touched(r) THEN rowVersion[a] + 1 ELSE rowVersion[a]]
    /\ adjusted' = [adjusted EXCEPT ![r.key] = r]
    /\ applied' = [applied EXCEPT ![r.key] = @ + 1]
    /\ Answer(w, "applied")

(* Fault: the key is trusted to the snapshot and the lock alone.            *)
Apply_NoUnique(w) ==
    LET r == clerk[w].req IN
    /\ clerk[w].pc = "locked" /\ ~Seen(w) /\ ~RowsMoved(w) /\ Sufficient(r)
    /\ Commit(w)
    /\ entries' = [entries EXCEPT ![r.key] = Delta(r)]
    /\ UNCHANGED <<held, userSpent, adminFaults>>

(* Fault: only the receiving account's entry is written.                    *)
Apply_OneEntry(w) ==
    LET r == clerk[w].req IN
    /\ clerk[w].pc = "locked" /\ ~Seen(w) /\ ~RowsMoved(w) /\ Sufficient(r)
    /\ adjusted[r.key] = NoAdjustment
    /\ Commit(w)
    /\ entries' = [entries EXCEPT ![r.key] =
           [a \in Accounts |-> IF a = r.user THEN r.amount ELSE 0]]
    /\ UNCHANGED <<held, userSpent, adminFaults>>

Apply(w) ==
    LET r == clerk[w].req IN
    /\ clerk[w].pc = "locked" /\ ~Seen(w) /\ ~RowsMoved(w) /\ Sufficient(r)
    /\ adjusted[r.key] = NoAdjustment
    /\ Commit(w)
    /\ entries' = [entries EXCEPT ![r.key] = Delta(r)]
    /\ UNCHANGED <<held, userSpent, adminFaults>>

(* The process or its connection dies; nothing was committed. *)
Die(w) ==
    /\ clerk[w].pc # "idle" /\ adminFaults < MaxAdjustFaults
    /\ clerk' = [clerk EXCEPT ![w] = Resting] /\ adminFaults' = adminFaults + 1
    /\ UNCHANGED <<accounts, held, rowVersion, adjusted, entries, userSpent,
                   applied, answers>>

-----------------------------------------------------------------------------
(* A user's own requests change the same row.                               *)
HoldUse(u) ==
    /\ accounts[u] - held[u] >= 1 /\ userSpent[u] + held[u] < MaxUsed
    /\ held' = [held EXCEPT ![u] = @ + 1]
    /\ rowVersion' = [rowVersion EXCEPT ![u] = @ + 1]
    /\ UNCHANGED <<accounts, adjusted, entries, clerk, userSpent, applied, answers,
                   adminFaults>>

(* Fault: a hold is captured that was released before.                      *)
CaptureUse_Twice(u) ==
    /\ userSpent[u] < MaxUsed
    /\ held' = [held EXCEPT ![u] = @ - 1]
    /\ accounts' = [accounts EXCEPT ![u] = @ - 1]
    /\ userSpent' = [userSpent EXCEPT ![u] = @ + 1]
    /\ rowVersion' = [rowVersion EXCEPT ![u] = @ + 1]
    /\ UNCHANGED <<adjusted, entries, clerk, applied, answers, adminFaults>>

CaptureUse(u) ==
    /\ held[u] > 0
    /\ held' = [held EXCEPT ![u] = @ - 1]
    /\ accounts' = [accounts EXCEPT ![u] = @ - 1]
    /\ userSpent' = [userSpent EXCEPT ![u] = @ + 1]
    /\ rowVersion' = [rowVersion EXCEPT ![u] = @ + 1]
    /\ UNCHANGED <<adjusted, entries, clerk, applied, answers, adminFaults>>

-----------------------------------------------------------------------------
ServeClerk(w) ==
    Lock(w) \/ ReplayKey(w) \/ Retry(w) \/ Collide(w) \/ Refuse(w) \/ Apply(w)

AdjustNext ==
    \/ \E w \in Clerks : BeginAdjust(w) \/ ServeClerk(w) \/ Die(w)
    \/ \E u \in AdjustUsers : HoldUse(u) \/ CaptureUse(u)

AdjustSpec == AdjustInit /\ [][AdjustNext]_adjustVars

-----------------------------------------------------------------------------
(* Types of the variables (tenant_wallets, user_balances and the two ledger *)
(* tables).                                                                 *)
AdjustTypeOK ==
    /\ accounts \in [Accounts -> Int] /\ held \in [Accounts -> Nat]
    /\ rowVersion \in [Accounts -> Nat]
    /\ adjusted \in [KeysOf -> Adjustments \cup {NoAdjustment}]
    /\ entries \in [KeysOf -> [Accounts -> Int]]
    /\ clerk \in [Clerks -> [pc : {"idle", "waiting", "locked"},
                             req : Adjustments \cup {NoAdjustment},
                             seen : SUBSET KeysOf, rows : [Accounts -> Nat]]]
    /\ \A w \in Clerks : clerk[w].pc # "idle" => clerk[w].req \in Adjustments
    /\ userSpent \in [AdjustUsers -> Nat] /\ applied \in [KeysOf -> Nat]
    /\ answers \subseteq Adjustments \X {"applied", "replayed", "conflict",
                                     "insufficient"}
    /\ adminFaults \in Nat

(* However often and concurrently a key is sent, to one account or to       *)
(* several, it moves money once.                                            *)
KeyMovesMoneyOnce ==
    \A k \in KeysOf : applied[k] = IF adjusted[k] = NoAdjustment THEN 0 ELSE 1

EntriesOf(a) == [k \in KeysOf |-> entries[k][a]]

(* The balances are what the permanent entries add up to.                   *)
EntriesExplainBalances ==
    /\ accounts[Tenant] = NetOf(EntriesOf(Tenant), KeysOf)
    /\ \A u \in AdjustUsers : accounts[u] = NetOf(EntriesOf(u), KeysOf) - userSpent[u]

(* A debit neither overdraws the wallet nor takes what running requests     *)
(* hold.                                                                    *)
NothingOverdrawn ==
    /\ accounts[Tenant] >= 0
    /\ \A u \in AdjustUsers : held[u] <= accounts[u]

(* An administrator is told the truth: a replay of exactly this request, or *)
(* a key that another request owns.                                         *)
AnswersAreTrue ==
    \A r \in Adjustments :
        /\ {<<r, "applied">>, <<r, "replayed">>} \cap answers # {} =>
              adjusted[r.key] = r
        /\ <<r, "conflict">> \in answers => adjusted[r.key] \notin {r, NoAdjustment}

(* Concurrent adjustments under repeated keys move money once per key, are  *)
(* explained by the permanent entries, overdraw nothing and are answered    *)
(* truthfully.                                                              *)
AdjustmentSafety ==
    /\ AdjustTypeOK
    /\ KeyMovesMoneyOnce /\ EntriesExplainBalances
    /\ NothingOverdrawn /\ AnswersAreTrue
=============================================================================
