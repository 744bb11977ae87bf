------------------------ MODULE MCSettlementPipeline ------------------------
(* Small instances of SettlementPipeline for TLC.                           *)
EXTENDS SettlementPipeline, TLC

CONSTANTS c1, u1, r1, r2, s1, s2, a1

(* Two requests under one idempotency key: a client and its retry.          *)
MCUserOf == [c \in Claims |-> u1]
MCInitialBalance == [u \in Users |-> 2]
MCCap == [a \in Accounts |-> 1]
MCClaimOf == [r \in Requests |-> c1]

Symmetry == Permutations(Slots) \cup Permutations(Requests)
=============================================================================
