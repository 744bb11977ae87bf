--------------------------- MODULE MCBillingLedger ---------------------------
(* Small instances of BillingLedger for TLC.                                *)
EXTENDS BillingLedger, TLC

CONSTANTS c1, c2, u1, u2, s1, s2, s3, a1

(* Two claims that compete for one wallet and one account.                  *)
MCUserOf == [c \in Claims |-> u1]
MCInitialBalance == [u \in Users |-> IF u \in Wallets THEN 3 ELSE 0]
MCCap == [a \in Accounts |-> 1]

Symmetry == Permutations(Slots)
=============================================================================
