--------------------------------- MODULE Sums ---------------------------------
(***************************************************************************)
(* Sums of amounts over the rows of a table, as SUM(...) in the queries of  *)
(* the repository.  An amount of n is n coins; the sum of the rows is the   *)
(* number of their coins.  Stated by counting, and not by a fold, a sum can *)
(* be reasoned about with what is known of cardinalities.                   *)
(***************************************************************************)
EXTENDS Integers, FiniteSets

(* The coins of the rows S, f[x] \in Nat of each row x.                     *)
Coins(f, S) == UNION {{x} \X (1..f[x]) : x \in S}

SumOf(f, S) == Cardinality(Coins(f, S))

(* The sum of amounts that may be negative: what comes in, less what goes   *)
(* out.                                                                     *)
Gains(f, S) == [x \in S |-> IF f[x] > 0 THEN f[x] ELSE 0]
Losses(f, S) == [x \in S |-> IF f[x] < 0 THEN -f[x] ELSE 0]

NetOf(f, S) == SumOf(Gains(f, S), S) - SumOf(Losses(f, S), S)
===============================================================================
