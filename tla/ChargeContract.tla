--------------------------- MODULE ChargeContract ---------------------------
(***************************************************************************)
(* What the billing core promises a customer, with nothing of how it is    *)
(* done: no acquisition tokens, attempts, pool slots, events or recovery   *)
(* queues.  A claim freezes an amount of its user's wallet, and ends either *)
(* charged (the wallet pays once, for ever) or freed (nothing is paid, and *)
(* the claim may be tried again).  BillingLedger implements it.            *)
(***************************************************************************)
EXTENDS Integers

CONSTANTS
    Claims,          \* one per (tenant, api key, idempotency key)
    Users,
    UserOf,          \* [Claims -> Users]
    Amounts,         \* the amounts that can be frozen or charged, a subset of Nat
    InitialBalance   \* [Users -> Nat]

VARIABLES
    phase,           \* [Claims -> {"idle", "reserved", "charged", "freed"}]
    frozen,          \* what a reserved claim holds of its user's wallet
    charged,         \* what a charged claim has taken from it
    balance,         \* [Users -> Int]
    held             \* [Users -> Int]: the part of the balance that is frozen

vars == <<phase, frozen, charged, balance, held>>

Init ==
    /\ phase = [c \in Claims |-> "idle"]
    /\ frozen = [c \in Claims |-> 0]
    /\ charged = [c \in Claims |-> 0]
    /\ balance = InitialBalance
    /\ held = [u \in Users |-> 0]

(***************************************************************************)
(* Freezing never takes more than what the wallet has left; freezing       *)
(* nothing is always possible (an unmetered claim).                        *)
(***************************************************************************)
Freeze(c) ==
    /\ phase[c] \in {"idle", "freed"}
    /\ \E amount \in Amounts \cup {0} :
          /\ amount = 0 \/ amount <= balance[UserOf[c]] - held[UserOf[c]]
          /\ frozen' = [frozen EXCEPT ![c] = amount]
          /\ held' = [held EXCEPT ![UserOf[c]] = @ + amount]
    /\ phase' = [phase EXCEPT ![c] = "reserved"]
    /\ UNCHANGED <<charged, balance>>

(***************************************************************************)
(* The whole frozen amount is given back in the step that takes the real   *)
(* cost, which may be more or less than it.                                *)
(***************************************************************************)
Charge(c) ==
    /\ phase[c] = "reserved"
    /\ \E cost \in Amounts \cup {0} :
          /\ charged' = [charged EXCEPT ![c] = cost]
          /\ balance' = [balance EXCEPT ![UserOf[c]] = @ - cost]
    /\ held' = [held EXCEPT ![UserOf[c]] = @ - frozen[c]]
    /\ frozen' = [frozen EXCEPT ![c] = 0]
    /\ phase' = [phase EXCEPT ![c] = "charged"]

Free(c) ==
    /\ phase[c] = "reserved"
    /\ held' = [held EXCEPT ![UserOf[c]] = @ - frozen[c]]
    /\ frozen' = [frozen EXCEPT ![c] = 0]
    /\ phase' = [phase EXCEPT ![c] = "freed"]
    /\ UNCHANGED <<charged, balance>>

Next == \E c \in Claims : Freeze(c) \/ Charge(c) \/ Free(c)

Spec == Init /\ [][Next]_vars
=============================================================================
