------------------------------ MODULE Sums_proof ------------------------------
(***************************************************************************)
(* What the proofs about wallets and orders need to know of a sum: it is    *)
(* empty at first, and follows the one row that a transaction changes.      *)
(***************************************************************************)
EXTENDS Sums, FiniteSetTheorems, TLAPS

(* One row's coins are as many as its amount.                               *)
LEMMA CoinsOfRow ==
    ASSUME NEW x, NEW n \in Nat
    PROVE  IsFiniteSet({x} \X (1..n)) /\ Cardinality({x} \X (1..n)) = n
<1>1. IsFiniteSet(1..n) /\ Cardinality(1..n) = n
    BY FS_Interval
<1>2. IsFiniteSet({x}) /\ Cardinality({x}) = 1
    BY FS_Singleton
<1> QED
    BY <1>1, <1>2, FS_Product

(* A coin is a row and a number up to its amount.                           *)
LEMMA CoinMembership ==
    ASSUME NEW f, NEW S, NEW p
    PROVE  p \in Coins(f, S) <=> \E x \in S : p \in {x} \X (1..f[x])
BY DEF Coins

(* Rows without an amount add nothing.                                      *)
LEMMA SumOfNothing ==
    ASSUME NEW S, NEW f, \A x \in S : f[x] = 0
    PROVE  IsFiniteSet(Coins(f, S)) /\ SumOf(f, S) = 0
<1>1. ASSUME NEW x \in S PROVE 1..f[x] = {}
    BY <1>1
<1>2. ASSUME NEW x \in S PROVE {x} \X (1..f[x]) = {}
    BY <1>1, <1>2
<1>3. Coins(f, S) = {}
    BY <1>2, CoinMembership
<1> QED
    BY <1>3, FS_EmptySet DEF SumOf

(* Rows with the same amounts have the same sum.                            *)
LEMMA SumOfSame ==
    ASSUME NEW S, NEW f, NEW g, \A x \in S : f[x] = g[x]
    PROVE  Coins(f, S) = Coins(g, S)
<1>1. \A x \in S : {x} \X (1..f[x]) = {x} \X (1..g[x])
    OBVIOUS
<1>2. \A p : p \in Coins(f, S) <=> p \in Coins(g, S)
    BY <1>1, CoinMembership
<1> QED
    BY <1>2

(* A finite sum is a natural number, and no less than any of its rows.      *)
LEMMA SumType ==
    ASSUME NEW S, NEW f, IsFiniteSet(Coins(f, S))
    PROVE  SumOf(f, S) \in Nat
BY FS_CardinalityType DEF SumOf

(* The sum without row d, and d's amount on top of it.                      *)
LEMMA SumSplit ==
    ASSUME NEW S, NEW d \in S, NEW f, f[d] \in Nat,
           \/ IsFiniteSet(Coins(f, S))
           \/ IsFiniteSet(Coins(f, S \ {d}))
    PROVE  /\ IsFiniteSet(Coins(f, S)) /\ IsFiniteSet(Coins(f, S \ {d}))
           /\ SumOf(f, S) = SumOf(f, S \ {d}) + f[d]
<1> DEFINE rest == Coins(f, S \ {d})
           row == {d} \X (1..f[d])
<1>1. \A p : p \in Coins(f, S) <=> p \in rest \/ p \in row
    BY CoinMembership
<1>2. rest \cap row = {}
    BY CoinMembership
<1>3. IsFiniteSet(row) /\ Cardinality(row) = f[d]
    BY CoinsOfRow
<1>4. rest \subseteq Coins(f, S)
    BY <1>1
<1>5. IsFiniteSet(rest)
    BY <1>4, FS_Subset
<1> HIDE DEF rest, row
<1>6. /\ IsFiniteSet(rest \cup row)
      /\ Cardinality(rest \cup row) = Cardinality(rest) + Cardinality(row) - Cardinality(rest \cap row)
    BY <1>3, <1>5, FS_Union
<1>7. Coins(f, S) = rest \cup row
    BY <1>1
<1>8. Cardinality(rest) \in Nat
    BY <1>5, FS_CardinalityType
<1> QED
    <2>1. Cardinality(rest \cup row) = Cardinality(rest) + f[d]
        <3>1. Cardinality(rest \cap row) = 0
            BY <1>2, FS_EmptySet
        <3> QED
            BY <1>3, <1>6, <1>8, <3>1
    <2>2. IsFiniteSet(Coins(f, S)) /\ SumOf(f, S) = Cardinality(rest) + f[d]
        BY <1>6, <1>7, <2>1 DEF SumOf
    <2> QED
        BY <1>5, <2>2 DEF SumOf, rest

(* A transaction that changes one row changes the sum by as much.           *)
LEMMA SumFollows ==
    ASSUME NEW S, NEW d \in S, NEW f, NEW g, f[d] \in Nat, g[d] \in Nat,
           \A x \in S \ {d} : g[x] = f[x], IsFiniteSet(Coins(f, S))
    PROVE  /\ IsFiniteSet(Coins(g, S))
           /\ SumOf(g, S) = SumOf(f, S) + g[d] - f[d]
<1>1. /\ IsFiniteSet(Coins(f, S \ {d}))
      /\ SumOf(f, S) = SumOf(f, S \ {d}) + f[d]
    BY SumSplit
<1>2. Coins(g, S \ {d}) = Coins(f, S \ {d})
    BY SumOfSame
<1>3. /\ IsFiniteSet(Coins(g, S))
      /\ SumOf(g, S) = SumOf(g, S \ {d}) + g[d]
    BY <1>1, <1>2, SumSplit
<1>4. SumOf(f, S \ {d}) \in Nat
    BY <1>1, SumType
<1> QED
    BY <1>1, <1>2, <1>3, <1>4 DEF SumOf

(* More rows have no smaller sum, and one row no greater one.               *)
LEMMA SumGrows ==
    ASSUME NEW S, NEW T, NEW f, T \subseteq S, IsFiniteSet(Coins(f, S))
    PROVE  IsFiniteSet(Coins(f, T)) /\ SumOf(f, T) <= SumOf(f, S)
<1>1. Coins(f, T) \subseteq Coins(f, S)
    BY CoinMembership
<1> QED
    BY <1>1, FS_Subset DEF SumOf

(* A row that is added brings its amount into the sum.                      *)
LEMMA SumExtends ==
    ASSUME NEW S, NEW d, d \notin S, NEW f, NEW g, \A x \in S : g[x] = f[x],
           g[d] \in Nat, IsFiniteSet(Coins(f, S))
    PROVE  /\ IsFiniteSet(Coins(g, S \cup {d}))
           /\ SumOf(g, S \cup {d}) = SumOf(f, S) + g[d]
<1>1. Coins(g, S) = Coins(f, S)
    BY SumOfSame
<1>2. (S \cup {d}) \ {d} = S /\ d \in S \cup {d}
    OBVIOUS
<1>3. IsFiniteSet(Coins(g, (S \cup {d}) \ {d}))
    BY <1>1, <1>2
<1>4. /\ IsFiniteSet(Coins(g, S \cup {d}))
      /\ SumOf(g, S \cup {d}) = SumOf(g, (S \cup {d}) \ {d}) + g[d]
    BY <1>2, <1>3, SumSplit
<1> QED
    BY <1>1, <1>2, <1>4 DEF SumOf

(* The same for amounts that may be negative.                               *)
NetIsFinite(f, S) ==
    IsFiniteSet(Coins(Gains(f, S), S)) /\ IsFiniteSet(Coins(Losses(f, S), S))

LEMMA NetType ==
    ASSUME NEW S, NEW f, NetIsFinite(f, S)
    PROVE  NetOf(f, S) \in Int
<1>1. SumOf(Gains(f, S), S) \in Nat /\ SumOf(Losses(f, S), S) \in Nat
    BY SumType DEF NetIsFinite
<1> QED
    BY <1>1 DEF NetOf

LEMMA NetOfNothing ==
    ASSUME NEW S, NEW f, \A x \in S : f[x] = 0
    PROVE  NetIsFinite(f, S) /\ NetOf(f, S) = 0
<1>1. \A x \in S : Gains(f, S)[x] = 0 /\ Losses(f, S)[x] = 0
    BY DEF Gains, Losses
<1>2. /\ IsFiniteSet(Coins(Gains(f, S), S)) /\ SumOf(Gains(f, S), S) = 0
      /\ IsFiniteSet(Coins(Losses(f, S), S)) /\ SumOf(Losses(f, S), S) = 0
    BY <1>1, SumOfNothing
<1> QED
    BY <1>2 DEF NetIsFinite, NetOf

LEMMA NetFollows ==
    ASSUME NEW S, NEW d \in S, NEW f, NEW g, \A x \in S : f[x] \in Int /\ g[x] \in Int,
           \A x \in S \ {d} : g[x] = f[x], NetIsFinite(f, S)
    PROVE  /\ NetIsFinite(g, S)
           /\ NetOf(g, S) = NetOf(f, S) + g[d] - f[d]
<1> DEFINE fu == Gains(f, S)
           gu == Gains(g, S)
           fd == Losses(f, S)
           gd == Losses(g, S)
<1>1. /\ fu[d] \in Nat /\ gu[d] \in Nat /\ fd[d] \in Nat /\ gd[d] \in Nat
      /\ fu[d] - fd[d] = f[d] /\ gu[d] - gd[d] = g[d]
    BY DEF Gains, Losses
<1>2. \A x \in S \ {d} : gu[x] = fu[x] /\ gd[x] = fd[x]
    BY DEF Gains, Losses
<1>3. IsFiniteSet(Coins(fu, S)) /\ IsFiniteSet(Coins(fd, S))
    BY DEF NetIsFinite
<1> HIDE DEF fu, gu, fd, gd
<1>4. /\ IsFiniteSet(Coins(gu, S)) /\ SumOf(gu, S) = SumOf(fu, S) + gu[d] - fu[d]
    BY <1>1, <1>2, <1>3, SumFollows
<1>5. /\ IsFiniteSet(Coins(gd, S)) /\ SumOf(gd, S) = SumOf(fd, S) + gd[d] - fd[d]
    BY <1>1, <1>2, <1>3, SumFollows
<1>6. SumOf(fu, S) \in Nat /\ SumOf(fd, S) \in Nat
    BY <1>3, SumType
<1>7. SumOf(gu, S) - SumOf(gd, S) = SumOf(fu, S) - SumOf(fd, S) + (gu[d] - gd[d]) - (fu[d] - fd[d])
    BY <1>1, <1>4, <1>5, <1>6
<1>8. NetIsFinite(g, S)
    BY <1>4, <1>5 DEF NetIsFinite, gu, gd
<1>9. NetOf(g, S) = SumOf(gu, S) - SumOf(gd, S) /\ NetOf(f, S) = SumOf(fu, S) - SumOf(fd, S)
    BY DEF NetOf, fu, gu, fd, gd
<1> QED
    BY <1>1, <1>7, <1>8, <1>9
===============================================================================
