------------------------------ MODULE Money_proof ------------------------------
(***************************************************************************)
(* Proofs about Payments, for any number of orders, amounts, refund keys    *)
(* and callers: an order is fulfilled once, refunds stay within its credit, *)
(* the wallet, the billing events and the facts agree, what requests hold   *)
(* is not paid back, and orders created at once stay within the caps.       *)
(* About Vouchers, for any number of users, codes and redeemers: a code is  *)
(* redeemed within its cap, once per user and key, and gives what it says.  *)
(* And about BalanceAdjustments, for any number of users, keys and clerks:  *)
(* a key moves money once, and every balance is explained by its entries.   *)
(***************************************************************************)
EXTENDS Payments, Vouchers, BalanceAdjustments, Sums_proof, FiniteSetTheorems, TLAPS

RefundRec == [order : Orders \cup {None}, asked : Nat, exact : BOOLEAN, amount : Nat]
CallerRec == [pc : {"idle", "confirmed", "begun", "mark"}, order : Orders \cup {None}]
Wallets == [balance : Int, held : Nat]
Fulfilled == {"completed", "refunded"}

CallersOK ==
    /\ caller \in [Callers -> CallerRec]
    /\ \A c \in Callers : caller[c].pc # "idle" => caller[c].order \in Orders

(* PaymentTypeOK, one fact for each variable.                               *)
LEMMA Types ==
    PaymentTypeOK <=>
        /\ status \in [Orders -> Status]
        /\ lapsed \subseteq Orders /\ drafts \subseteq Orders /\ recharges \subseteq Orders
        /\ credit \in [Orders -> Nat] /\ grant \in [Orders -> Nat]
        /\ refund \in [RefundKeys -> RefundRec]
        /\ request \in [Orders -> {"none", "pending", "approved", "rejected"}]
        /\ event \in [Orders -> Nat]
        /\ wallet \in Wallets
        /\ CallersOK
        /\ plan \in BOOLEAN /\ spent \in Nat /\ faults \in Nat /\ flips \in Nat
BY DEF PaymentTypeOK, RefundRec, CallerRec, Wallets, CallersOK

(* The sums that the books are made of are finite, though orders and keys   *)
(* may be without end.                                                      *)
Countable ==
    /\ IsFiniteSet(Coins(event, Orders))
    /\ \A o \in Orders : IsFiniteSet(Coins(PaidBack, Facts(o)))

(* A draft's row is not there yet.                                          *)
DraftsAreNew == \A o \in drafts : status[o] = "absent"

Books == FulfilledExactlyOnce /\ RefundsWithinCredit /\ ApprovedMeansRefunded /\ BooksAgree

MoneyInv == PaymentTypeOK /\ Countable /\ DraftsAreNew /\ Books /\ HeldIsCovered

-----------------------------------------------------------------------------
(***************************************************************************)
(* What an order has been credited and refunded.                            *)
(***************************************************************************)
LEMMA CreditedOnce ==
    ASSUME FulfilledExactlyOnce, NEW o \in Orders
    PROVE  Credited(o) = IF Kind[o] = "topup" /\ status[o] \in Fulfilled THEN Amount[o] ELSE 0
<1>1. Amount[o] \in Nat
    BY PaymentAssumption DEF PaymentAssumption
<1>2. credit[o] \in {0, 1} /\ (credit[o] = 1 <=> Kind[o] = "topup" /\ status[o] \in Fulfilled)
    BY DEF FulfilledExactlyOnce, Fulfilled
<1>3. 0 * Amount[o] = 0 /\ 1 * Amount[o] = Amount[o]
    BY <1>1
<1> QED
    BY <1>2, <1>3 DEF Credited

LEMMA RefundedType ==
    ASSUME Countable, NEW o \in Orders
    PROVE  Refunded(o) \in Nat
BY SumType DEF Countable, Refunded

(* An order's rows in the books say how much of it is left.                 *)
LEMMA LeftOfOrder ==
    ASSUME MoneyInv, NEW o \in Orders
    PROVE  /\ Amount[o] \in Nat /\ Amount[o] > 0
           /\ Refunded(o) \in Nat /\ Credited(o) \in Nat /\ event[o] \in Nat
           /\ event[o] = Credited(o) - Refunded(o)
           /\ Credited(o) = IF Kind[o] = "topup" /\ status[o] \in Fulfilled THEN Amount[o] ELSE 0
           /\ status[o] = "refunded" => Refunded(o) = Credited(o)
<1>1. Amount[o] \in Nat /\ Amount[o] > 0
    BY PaymentAssumption DEF PaymentAssumption
<1>2. Refunded(o) \in Nat
    BY RefundedType DEF MoneyInv
<1>3. Credited(o) = IF Kind[o] = "topup" /\ status[o] \in Fulfilled THEN Amount[o] ELSE 0
    BY CreditedOnce DEF MoneyInv, Books
<1>4. event[o] \in Nat /\ event[o] = Credited(o) - Refunded(o)
    BY Types DEF MoneyInv, Books, BooksAgree
<1>5. status[o] = "refunded" => Refunded(o) = Credited(o)
    BY DEF MoneyInv, Books, RefundsWithinCredit
<1> QED
    BY <1>1, <1>2, <1>3, <1>4, <1>5

(* What PayBack pays: something, no more than is left of the order, and it  *)
(* had not been paid back whole.                                            *)
LEMMA PaysWhatIsLeft ==
    ASSUME MoneyInv, NEW k, NEW o \in Orders, NEW asked \in Nat, NEW exact \in BOOLEAN,
           PayBack(k, o, asked, exact)
    PROVE  LET n == RefundAmount(o, asked, exact) IN
           /\ n \in Nat /\ n > 0 /\ Refunded(o) + n <= Credited(o)
           /\ Credited(o) = Amount[o] /\ status[o] = "completed"
           /\ exact => Refunded(o) + n = asked
<1>1. RefundAmount(o, asked, exact) > 0 /\ Refundable(o)
    BY DEF PayBack
<1>2. /\ Refunded(o) \in Nat /\ Amount[o] \in Nat
      /\ Credited(o) = IF Kind[o] = "topup" /\ status[o] \in Fulfilled THEN Amount[o] ELSE 0
      /\ status[o] = "refunded" => Refunded(o) = Credited(o)
    BY LeftOfOrder
<1>3. Credited(o) = Amount[o] /\ status[o] \in Fulfilled
    BY <1>1, <1>2 DEF Refundable, Fulfilled
<1>4. RefundAmount(o, asked, exact) \in Int /\ Refunded(o) + RefundAmount(o, asked, exact) <= Credited(o)
    BY <1>1, <1>2, <1>3 DEF RefundAmount
<1>5. exact => Refunded(o) + RefundAmount(o, asked, exact) = asked
    BY <1>1, <1>2, <1>3 DEF RefundAmount
<1>6. status[o] # "refunded"
    BY <1>1, <1>2, <1>3, <1>4
<1> QED
    BY <1>1, <1>3, <1>4, <1>5, <1>6 DEF Fulfilled

(* A new fact adds its amount to its own order's refunds, and to no other.  *)
LEMMA RefundedFollows ==
    ASSUME PaymentTypeOK, Countable, NEW k \in RefundKeys, NEW o \in Orders, NEW n \in Nat,
           NEW asked \in Nat, NEW exact \in BOOLEAN, refund[k] = NoRefund,
           refund' = [refund EXCEPT ![k] = [order |-> o, asked |-> asked, exact |-> exact, amount |-> n]]
    PROVE  /\ \A h \in Orders : IsFiniteSet(Coins(PaidBack, Facts(h))')
           /\ Refunded(o)' = Refunded(o) + n
           /\ \A h \in Orders \ {o} : Refunded(h)' = Refunded(h)
<1>0. refund \in [RefundKeys -> RefundRec] /\ None \notin Orders
    BY Types, PaymentAssumption DEF PaymentAssumption
<1>1. /\ refund'[k].order = o /\ refund'[k].amount = n /\ refund[k].order = None
      /\ \A j \in RefundKeys \ {k} : refund'[j] = refund[j]
    BY <1>0 DEF NoRefund
<1>2. /\ PaidBack'[k] = n /\ k \notin Facts(o)
      /\ \A j \in RefundKeys \ {k} : PaidBack'[j] = PaidBack[j]
    BY <1>0, <1>1 DEF PaidBack, Facts
<1>3. Facts(o)' = Facts(o) \cup {k}
    BY <1>0, <1>1 DEF Facts
<1>4. \A h \in Orders \ {o} : Facts(h)' = Facts(h) /\ k \notin Facts(h)
    BY <1>0, <1>1 DEF Facts
<1>5. ASSUME NEW h \in Orders, k \notin Facts(h)
      PROVE  Coins(PaidBack', Facts(h)) = Coins(PaidBack, Facts(h))
    <2>1. \A j \in Facts(h) : PaidBack'[j] = PaidBack[j]
        BY <1>2, <1>5 DEF Facts
    <2> QED
        BY <2>1, SumOfSame
<1>6. ASSUME NEW h \in Orders \ {o}
      PROVE  IsFiniteSet(Coins(PaidBack, Facts(h))') /\ Refunded(h)' = Refunded(h)
    <2>1. Coins(PaidBack, Facts(h))' = Coins(PaidBack', Facts(h)')
        BY DEF Coins
    <2>2. Coins(PaidBack', Facts(h)') = Coins(PaidBack, Facts(h))
        BY <1>4, <1>5
    <2> QED
        BY <2>1, <2>2 DEF Countable, Refunded, SumOf
<1>7. IsFiniteSet(Coins(PaidBack, Facts(o))') /\ Refunded(o)' = Refunded(o) + n
    <2> DEFINE S == Facts(o) \cup {k}
               f == PaidBack'
    <2>1. Coins(PaidBack, Facts(o))' = Coins(f, S)
        BY <1>3 DEF Coins
    <2>2. S \ {k} = Facts(o) /\ f[k] = n /\ k \in S
        BY <1>2
    <2>3. Coins(f, Facts(o)) = Coins(PaidBack, Facts(o))
        BY <1>2, <1>5
    <2>4. IsFiniteSet(Coins(f, S \ {k}))
        BY <2>2, <2>3 DEF Countable
    <2> HIDE DEF S, f
    <2>5. IsFiniteSet(Coins(f, S)) /\ SumOf(f, S) = SumOf(f, S \ {k}) + n
        BY <2>2, <2>4, SumSplit
    <2>6. SumOf(f, S \ {k}) = Refunded(o)
        BY <2>2, <2>3 DEF SumOf, Refunded
    <2>7. Refunded(o)' = SumOf(f, S)
        BY <2>1 DEF SumOf, Refunded
    <2> QED
        BY <2>1, <2>5, <2>6, <2>7
<1> QED
    BY <1>6, <1>7

-----------------------------------------------------------------------------
(***************************************************************************)
(* The steps that move no money: orders open, move on and close, callers    *)
(* come and go, requests are made and rejected.                             *)
(***************************************************************************)
Quiet ==
    /\ UNCHANGED books
    /\ \A o \in Orders : /\ status'[o] = status[o] \/ (status'[o] \notin Fulfilled /\ status[o] \notin Fulfilled)
                         /\ request'[o] = "approved" => request[o] = "approved"

Moving(c) == CreditTopup(c) \/ ActivateSubscription(c)

Refunding(o) == \E k \in Keys, n \in Asks, exact \in BOOLEAN : RefundOrder(k, o, n, exact)
PayingBack(o) == ApproveRefundRequest(o) \/ Refunding(o)

LEMMA QuietOrders ==
    ASSUME PaymentTypeOK, DraftsAreNew, NEW o \in Orders, Ordering(o), ~PayingBack(o)
    PROVE  Quiet
<1>0. status \in [Orders -> Status] /\ request \in [Orders -> {"none", "pending", "approved", "rejected"}]
    BY Types
<1>1. CASE CreateOrder(o) \/ OpenRecharge(o) \/ RollbackOrder(o) \/ Lapse(o)
    BY <1>1 DEF CreateOrder, OpenRecharge, Insert, RollbackOrder, Lapse, Quiet
<1>2. CASE CommitOrder(o)
    BY <1>0, <1>2 DEF CommitOrder, DraftsAreNew, Quiet, Fulfilled
<1>3. CASE CancelOrder(o) \/ Expire(o)
    BY <1>0, <1>3 DEF CancelOrder, Expire, Move, Quiet, Fulfilled
<1>4. CASE CreateRefundRequest(o) \/ RejectRefundRequest(o)
    BY <1>0, <1>4 DEF CreateRefundRequest, RejectRefundRequest, Quiet
<1> QED
    BY <1>1, <1>2, <1>3, <1>4 DEF Ordering, PayingBack, Refunding

LEMMA QuietCallers ==
    ASSUME PaymentTypeOK, NEW c \in Callers
    PROVE  /\ \A o \in Orders, early \in BOOLEAN : ConfirmPaid(c, o, early) => Quiet
           /\ (Fulfill(c) \/ Abandon(c)) /\ ~Moving(c) => Quiet
<1>0. /\ status \in [Orders -> Status]
      /\ caller[c].pc # "idle" => caller[c].order \in Orders
    BY Types DEF CallersOK
<1>1. ASSUME NEW o \in Orders, NEW early \in BOOLEAN, ConfirmPaid(c, o, early) PROVE Quiet
    BY <1>0, <1>1 DEF ConfirmPaid, Move, Quiet, Fulfilled
<1>2. ASSUME BeginFulfill(c) PROVE Quiet
    BY <1>0, <1>2 DEF BeginFulfill, Move, Quiet, Fulfilled
<1>3. ASSUME RefuseSubscription(c) \/ FindDecided(c) \/ Abandon(c) PROVE Quiet
    BY <1>3 DEF RefuseSubscription, FindDecided, Abandon, Quiet
<1>4. ASSUME MarkFailed(c) PROVE Quiet
    BY <1>0, <1>4 DEF MarkFailed, Quiet, Fulfilled
<1> QED
    BY <1>1, <1>2, <1>3, <1>4 DEF Fulfill, Moving

LEMMA QuietSteps ==
    ASSUME PaymentTypeOK, DraftsAreNew, [Next]_vars
    PROVE  \/ Quiet
           \/ \E o \in Orders : PayingBack(o)
           \/ \E c \in Callers : Moving(c)
           \/ Hold \/ Settle
<1>1. SwitchPlan \/ UNCHANGED vars => Quiet
    BY DEF SwitchPlan, Quiet, vars, books
<1> QED
    BY <1>1, QuietOrders, QuietCallers DEF Next

(* The refunds of an order are what its facts say, whatever else changes.   *)
LEMMA SameFacts ==
    ASSUME UNCHANGED refund, NEW o \in Orders
    PROVE  /\ Coins(PaidBack, Facts(o))' = Coins(PaidBack, Facts(o))
           /\ Refunded(o)' = Refunded(o)
<1>1. PaidBack' = PaidBack /\ Facts(o)' = Facts(o)
    BY DEF PaidBack, Facts
<1> QED
    BY <1>1 DEF Coins, Refunded, SumOf

LEMMA QuietKeepsBooks ==
    ASSUME MoneyInv, Quiet
    PROVE  Countable' /\ Books' /\ HeldIsCovered'
<1>0. UNCHANGED <<credit, grant, refund, event, wallet, spent>>
    BY DEF Quiet, books
<1>1. \A o \in Orders : Refunded(o)' = Refunded(o) /\ Credited(o)' = Credited(o)
    BY <1>0, SameFacts DEF Credited
<1>2. /\ Coins(event, Orders)' = Coins(event, Orders)
      /\ \A o \in Orders : Coins(PaidBack, Facts(o))' = Coins(PaidBack, Facts(o))
    BY <1>0, SameFacts DEF Coins
<1>3. Countable'
    BY <1>2 DEF MoneyInv, Countable
<1>4. \A o \in Orders : /\ status'[o] = status[o] \/ (status'[o] \notin Fulfilled /\ status[o] \notin Fulfilled)
                        /\ request'[o] = "approved" => request[o] = "approved"
    BY DEF Quiet
<1>5. FulfilledExactlyOnce'
    BY <1>0, <1>4 DEF MoneyInv, Books, FulfilledExactlyOnce, Fulfilled
<1>6. RefundsWithinCredit'
    <2>1. ASSUME NEW o \in Orders
          PROVE  status'[o] = "refunded" <=> status[o] = "refunded"
        BY <1>4 DEF Fulfilled
    <2> QED
        BY <1>1, <2>1 DEF MoneyInv, Books, RefundsWithinCredit
<1>7. ApprovedMeansRefunded'
    BY <1>1, <1>4 DEF MoneyInv, Books, ApprovedMeansRefunded, Fulfilled
<1>8. BooksAgree'
    BY <1>0, <1>1, <1>2 DEF MoneyInv, Books, BooksAgree, SumOf
<1>9. HeldIsCovered'
    BY <1>0 DEF MoneyInv, HeldIsCovered
<1> QED
    BY <1>3, <1>5, <1>6, <1>7, <1>8, <1>9 DEF Books

-----------------------------------------------------------------------------
(***************************************************************************)
(* The steps that move money: one order's rows and the wallet change alike. *)
(***************************************************************************)
(* A credit: the order was in recharging, which no credit left it in.       *)
LEMMA CreditKeepsBooks ==
    ASSUME MoneyInv, NEW c \in Callers, CreditTopup(c)
    PROVE  Countable' /\ Books' /\ HeldIsCovered'
<1>1. PICK o \in Orders :
      /\ status[o] = "recharging" /\ Kind[o] = "topup"
      /\ credit' = [credit EXCEPT ![o] = credit[o] + 1]
      /\ event' = [event EXCEPT ![o] = event[o] + Amount[o]]
      /\ wallet' = [wallet EXCEPT !.balance = @ + Amount[o]]
      /\ status' = [status EXCEPT ![o] = "completed"]
      /\ UNCHANGED <<grant, refund, request, spent>>
    BY Types DEF CreditTopup, Begun, Move, MoneyInv, CallersOK
<1>2. /\ status \in [Orders -> Status] /\ credit \in [Orders -> Nat] /\ event \in [Orders -> Nat]
      /\ wallet \in Wallets /\ spent \in Nat
    BY Types DEF MoneyInv
<1>3. \A h \in Orders \ {o} : /\ status'[h] = status[h] /\ credit'[h] = credit[h]
                              /\ event'[h] = event[h]
    BY <1>1, <1>2
<1>4. /\ Amount[o] \in Nat /\ Amount[o] > 0
      /\ Refunded(o) \in Nat /\ event[o] = Credited(o) - Refunded(o) /\ event[o] \in Nat
      /\ Credited(o) = 0 /\ credit[o] = 0
    <2>1. credit[o] = 0
        BY <1>1 DEF MoneyInv, Books, FulfilledExactlyOnce
    <2> QED
        BY <1>1, <2>1, LeftOfOrder DEF Fulfilled
<1>5. Refunded(o) = 0 /\ event[o] = 0
    BY <1>4
<1>6. status'[o] = "completed" /\ credit'[o] = 1 /\ event'[o] = Amount[o]
    BY <1>1, <1>2, <1>4, <1>5
<1>7. /\ \A h \in Orders : Refunded(h)' = Refunded(h)
      /\ \A h \in Orders : Coins(PaidBack, Facts(h))' = Coins(PaidBack, Facts(h))
    BY <1>1, SameFacts
<1>8. Credited(o)' = Amount[o] /\ \A h \in Orders \ {o} : Credited(h)' = Credited(h)
    <2>1. 1 * Amount[o] = Amount[o]
        BY <1>4
    <2> QED
        BY <1>3, <1>6, <2>1 DEF Credited
<1>9. IsFiniteSet(Coins(event', Orders)) /\ SumOf(event', Orders) = SumOf(event, Orders) + event'[o] - event[o]
    <2>1. event'[o] \in Nat /\ event[o] \in Nat /\ \A h \in Orders \ {o} : event'[h] = event[h]
        BY <1>3, <1>4, <1>6
    <2>2. IsFiniteSet(Coins(event, Orders))
        BY DEF MoneyInv, Countable
    <2> QED
        BY <2>1, <2>2, SumFollows
<1>10. Countable'
    <2>1. Coins(event, Orders)' = Coins(event', Orders)
        BY DEF Coins
    <2> QED
        BY <1>7, <1>9, <2>1 DEF MoneyInv, Countable
<1>11. FulfilledExactlyOnce'
    <2>1. grant' = grant /\ grant[o] = 0
        BY <1>1 DEF MoneyInv, Books, FulfilledExactlyOnce
    <2> QED
        BY <1>1, <1>3, <1>6, <2>1 DEF MoneyInv, Books, FulfilledExactlyOnce
<1>12. RefundsWithinCredit'
    <2>1. Refunded(o)' <= Credited(o)' /\ Refunded(o)' # Credited(o)' /\ status'[o] # "refunded"
        BY <1>4, <1>5, <1>6, <1>7, <1>8
    <2> QED
        BY <1>3, <1>7, <1>8, <2>1 DEF MoneyInv, Books, RefundsWithinCredit
<1>13. ApprovedMeansRefunded'
    BY <1>1, <1>3, <1>7 DEF MoneyInv, Books, ApprovedMeansRefunded
<1>14. BooksAgree'
    <2>1. \A h \in Orders : event'[h] = Credited(h)' - Refunded(h)'
        BY <1>3, <1>4, <1>5, <1>6, <1>7, <1>8 DEF MoneyInv, Books, BooksAgree
    <2>2. wallet'.balance + spent' = SumOf(event', Orders)
        <3>1. wallet'.balance = wallet.balance + Amount[o]
            BY <1>1, <1>2 DEF Wallets
        <3>2. wallet.balance + spent = SumOf(event, Orders)
            BY DEF MoneyInv, Books, BooksAgree
        <3> QED
            BY <1>1, <1>2, <1>4, <1>5, <1>6, <1>9, <3>1, <3>2 DEF Wallets
    <2>3. SumOf(event, Orders)' = SumOf(event', Orders)
        BY DEF SumOf, Coins
    <2> QED
        BY <2>1, <2>2, <2>3 DEF BooksAgree
<1>15. HeldIsCovered'
    BY <1>1, <1>2, <1>4 DEF MoneyInv, HeldIsCovered, Wallets
<1> QED
    BY <1>10, <1>11, <1>12, <1>13, <1>14, <1>15 DEF Books

LEMMA ActivationKeepsBooks ==
    ASSUME MoneyInv, NEW c \in Callers, ActivateSubscription(c)
    PROVE  Countable' /\ Books' /\ HeldIsCovered'
<1>1. PICK o \in Orders :
      /\ status[o] = "recharging" /\ Kind[o] = "subscription"
      /\ grant' = [grant EXCEPT ![o] = grant[o] + 1]
      /\ status' = [status EXCEPT ![o] = "completed"]
      /\ UNCHANGED <<credit, refund, event, wallet, request, spent>>
    BY Types DEF ActivateSubscription, Begun, Move, MoneyInv, CallersOK
<1>2. status \in [Orders -> Status] /\ grant \in [Orders -> Nat]
    BY Types DEF MoneyInv
<1>3. /\ \A h \in Orders \ {o} : status'[h] = status[h] /\ grant'[h] = grant[h]
      /\ status'[o] = "completed" /\ grant'[o] = grant[o] + 1
    BY <1>1, <1>2
<1>4. \A h \in Orders : Refunded(h)' = Refunded(h) /\ Credited(h)' = Credited(h)
    BY <1>1, SameFacts DEF Credited
<1>5. Countable'
    BY <1>1, SameFacts DEF MoneyInv, Countable, Coins
<1>6. FulfilledExactlyOnce'
    BY <1>1, <1>3 DEF MoneyInv, Books, FulfilledExactlyOnce
<1>7. RefundsWithinCredit'
    BY <1>1, <1>3, <1>4 DEF MoneyInv, Books, RefundsWithinCredit
<1>8. ApprovedMeansRefunded'
    BY <1>1, <1>3, <1>4 DEF MoneyInv, Books, ApprovedMeansRefunded
<1>9. BooksAgree' /\ HeldIsCovered'
    BY <1>1, <1>4 DEF MoneyInv, Books, BooksAgree, HeldIsCovered, SumOf, Coins
<1> QED
    BY <1>5, <1>6, <1>7, <1>8, <1>9 DEF Books

(* A refund takes as much from the order's credit, its event and the        *)
(* wallet, and is the last when nothing is left.                            *)
LEMMA PayBackKeepsBooks ==
    ASSUME MoneyInv, NEW k \in RefundKeys, NEW o \in Orders, NEW asked \in Nat, NEW exact \in BOOLEAN,
           PayBack(k, o, asked, exact), UNCHANGED <<credit, grant, spent>>,
           \A h \in Orders : request'[h] = "approved" =>
               request[h] = "approved" \/ (h = o /\ exact /\ asked = Amount[o])
    PROVE  Countable' /\ Books' /\ HeldIsCovered'
<1> DEFINE n == RefundAmount(o, asked, exact)
<1>1. /\ n \in Nat /\ n > 0 /\ Refunded(o) + n <= Credited(o)
      /\ Credited(o) = Amount[o] /\ status[o] = "completed"
      /\ exact => Refunded(o) + n = asked
    BY PaysWhatIsLeft
<1>2. /\ refund[k] = NoRefund /\ Refundable(o)
      /\ wallet.balance - wallet.held >= n
      /\ wallet' = [wallet EXCEPT !.balance = @ - n]
      /\ refund' = [refund EXCEPT ![k] = [order |-> o, asked |-> asked, exact |-> exact, amount |-> n]]
      /\ event' = [event EXCEPT ![o] = event[o] - n]
      /\ status' = [status EXCEPT ![o] = IF Refunded(o) + n = Credited(o) THEN "refunded" ELSE "completed"]
    BY DEF PayBack, Move
<1> HIDE DEF n
<1>3. /\ status \in [Orders -> Status] /\ event \in [Orders -> Nat]
      /\ wallet \in Wallets /\ spent \in Nat
    BY Types DEF MoneyInv
<1>4. /\ \A h \in Orders \ {o} : status'[h] = status[h] /\ event'[h] = event[h]
      /\ status'[o] = IF Refunded(o) + n = Credited(o) THEN "refunded" ELSE "completed"
      /\ event'[o] = event[o] - n
    BY <1>2, <1>3
<1>5. /\ \A h \in Orders : IsFiniteSet(Coins(PaidBack, Facts(h))')
      /\ Refunded(o)' = Refunded(o) + n
      /\ \A h \in Orders \ {o} : Refunded(h)' = Refunded(h)
    BY <1>1, <1>2, RefundedFollows DEF MoneyInv
<1>6. \A h \in Orders : Credited(h)' = Credited(h)
    BY DEF Credited
<1>7. /\ Refunded(o) \in Nat /\ Credited(o) \in Nat /\ event[o] \in Nat
      /\ event[o] = Credited(o) - Refunded(o) /\ Amount[o] > 0 /\ Amount[o] \in Nat
    BY LeftOfOrder
<1>8. event'[o] \in Nat
    BY <1>1, <1>4, <1>7
<1>9. IsFiniteSet(Coins(event', Orders)) /\ SumOf(event', Orders) = SumOf(event, Orders) + event'[o] - event[o]
    BY <1>3, <1>4, <1>7, <1>8, SumFollows DEF MoneyInv, Countable
<1>10. Countable'
    <2>1. Coins(event, Orders)' = Coins(event', Orders)
        BY DEF Coins
    <2> QED
        BY <1>5, <1>9, <2>1 DEF Countable
<1>11. FulfilledExactlyOnce'
    BY <1>1, <1>2, <1>4 DEF MoneyInv, Books, FulfilledExactlyOnce, Refundable
<1>12. RefundsWithinCredit'
    <2>1. /\ Refunded(o)' <= Credited(o)' /\ Credited(o)' > 0
          /\ status'[o] = "refunded" <=> Refunded(o)' = Credited(o)'
        BY <1>1, <1>4, <1>5, <1>6, <1>7
    <2> QED
        BY <1>4, <1>5, <1>6, <2>1 DEF MoneyInv, Books, RefundsWithinCredit
<1>13. ApprovedMeansRefunded'
    <2>1. ASSUME NEW h \in Orders, request'[h] = "approved"
          PROVE  status'[h] = "refunded" /\ Refunded(h)' = Amount[h]
        <3>1. CASE h # o
            BY <1>4, <1>5, <2>1, <3>1 DEF MoneyInv, Books, ApprovedMeansRefunded
        <3>2. CASE h = o
            <4>1. request[o] # "approved"
                BY <1>1 DEF MoneyInv, Books, ApprovedMeansRefunded
            <4> QED
                BY <1>1, <1>4, <1>5, <2>1, <3>2, <4>1
        <3> QED
            BY <3>1, <3>2
    <2> QED
        BY <2>1 DEF ApprovedMeansRefunded
<1>14. BooksAgree'
    <2>1. \A h \in Orders : event'[h] = Credited(h)' - Refunded(h)'
        BY <1>1, <1>4, <1>5, <1>6, <1>7 DEF MoneyInv, Books, BooksAgree
    <2>2. wallet'.balance + spent' = SumOf(event', Orders)
        <3>1. wallet'.balance = wallet.balance - n
            BY <1>2, <1>3 DEF Wallets
        <3>2. wallet.balance + spent = SumOf(event, Orders)
            BY DEF MoneyInv, Books, BooksAgree
        <3> QED
            BY <1>1, <1>3, <1>4, <1>7, <1>9, <3>1, <3>2 DEF Wallets
    <2>3. SumOf(event, Orders)' = SumOf(event', Orders)
        BY DEF SumOf, Coins
    <2> QED
        BY <2>1, <2>2, <2>3 DEF BooksAgree
<1>15. HeldIsCovered'
    BY <1>1, <1>2, <1>3 DEF HeldIsCovered, Wallets
<1> QED
    BY <1>10, <1>11, <1>12, <1>13, <1>14, <1>15 DEF Books

(* A request holds a cent that is free, or spends or frees one it held.     *)
LEMMA WalletKeepsBooks ==
    ASSUME MoneyInv, Hold \/ Settle
    PROVE  Countable' /\ Books' /\ HeldIsCovered'
<1>0. /\ wallet \in Wallets /\ spent \in Nat
      /\ wallet.held <= wallet.balance
      /\ wallet.balance + spent = SumOf(event, Orders)
    BY Types DEF MoneyInv, HeldIsCovered, Books, BooksAgree
<1>1. UNCHANGED <<status, credit, grant, refund, request, event>>
    BY DEF Hold, Settle
<1>2. wallet'.balance + spent' = wallet.balance + spent /\ wallet'.held <= wallet'.balance
    <2>1. CASE Hold
        BY <1>0, <2>1 DEF Hold, Wallets
    <2>2. ASSUME wallet.held > 0, wallet' = [wallet EXCEPT !.held = @ - 1, !.balance = @ - 1], spent' = spent + 1
          PROVE  <1>2
        <3>1. wallet'.held = wallet.held - 1 /\ wallet'.balance = wallet.balance - 1
            BY <1>0, <2>2 DEF Wallets
        <3> QED
            BY <1>0, <2>2, <3>1 DEF Wallets
    <2>3. ASSUME wallet.held > 0, wallet' = [wallet EXCEPT !.held = @ - 1], spent' = spent
          PROVE  <1>2
        BY <1>0, <2>3 DEF Wallets
    <2> QED
        BY <2>1, <2>2, <2>3 DEF Settle
<1>3. \A h \in Orders : Refunded(h)' = Refunded(h) /\ Credited(h)' = Credited(h)
    BY <1>1, SameFacts DEF Credited
<1>4. Countable'
    BY <1>1, SameFacts DEF MoneyInv, Countable, Coins
<1>5. FulfilledExactlyOnce'
    BY <1>1 DEF MoneyInv, Books, FulfilledExactlyOnce
<1>6. RefundsWithinCredit' /\ ApprovedMeansRefunded'
    BY <1>1, <1>3 DEF MoneyInv, Books, RefundsWithinCredit, ApprovedMeansRefunded
<1>7. BooksAgree'
    BY <1>0, <1>1, <1>2, <1>3 DEF MoneyInv, Books, BooksAgree, SumOf, Coins
<1> QED
    BY <1>2, <1>4, <1>5, <1>6, <1>7 DEF Books, HeldIsCovered

LEMMA AsksAreNat == Asks \subseteq Nat
BY PaymentAssumption DEF PaymentAssumption, Asks

(* A refund of either kind, as PayBack: under an administrator's key, or    *)
(* under the request's own and for the whole order; or there was nothing    *)
(* left to pay back and the request is approved.                            *)
LEMMA RefundSteps ==
    ASSUME MoneyInv, NEW o \in Orders, PayingBack(o)
    PROVE  /\ UNCHANGED <<lapsed, drafts, recharges, credit, grant, caller, plan, spent, faults, flips>>
           /\ request' \in [Orders -> {"none", "pending", "approved", "rejected"}]
           /\ \/ /\ \E k \in RefundKeys, asked \in Nat, exact \in BOOLEAN : PayBack(k, o, asked, exact)
                 /\ UNCHANGED request
              \/ /\ PayBack(o, o, Amount[o], TRUE)
                 /\ \A h \in Orders \ {o} : request'[h] = request[h]
              \/ /\ UNCHANGED <<status, refund, event, wallet>>
                 /\ status[o] = "refunded" /\ Refunded(o) = Amount[o]
                 /\ \A h \in Orders \ {o} : request'[h] = request[h]
<1>0. /\ request \in [Orders -> {"none", "pending", "approved", "rejected"}]
      /\ Keys \subseteq RefundKeys /\ Orders \subseteq RefundKeys
      /\ Amount[o] \in Nat /\ Amount[o] > 0
    BY Types, PaymentAssumption DEF MoneyInv, RefundKeys, PaymentAssumption
<1>1. ASSUME NEW k \in Keys, NEW n \in Asks, NEW exact \in BOOLEAN, RefundOrder(k, o, n, exact)
      PROVE  /\ PayBack(k, o, n, exact) /\ n \in Nat /\ k \in RefundKeys
             /\ UNCHANGED <<lapsed, drafts, recharges, credit, grant, request, caller, plan, spent, faults, flips>>
    BY <1>0, <1>1, AsksAreNat DEF RefundOrder
<1>2. CASE ApproveRefundRequest(o)
    <2>1. /\ UNCHANGED <<lapsed, drafts, recharges, credit, grant, caller, plan, spent, faults, flips>>
          /\ request' = [request EXCEPT ![o] = "approved"] /\ Refundable(o)
          /\ \/ PayBack(o, o, Amount[o], TRUE)
             \/ Refunded(o) = Amount[o] /\ UNCHANGED <<status, refund, event, wallet>>
        BY <1>2 DEF ApproveRefundRequest
    <2>2. /\ request' \in [Orders -> {"none", "pending", "approved", "rejected"}]
          /\ \A h \in Orders \ {o} : request'[h] = request[h]
        BY <1>0, <2>1
    <2>3. CASE PayBack(o, o, Amount[o], TRUE)
        BY <1>0, <2>1, <2>2, <2>3
    <2>4. CASE Refunded(o) = Amount[o] /\ UNCHANGED <<status, refund, event, wallet>>
        <3>1. Credited(o) = Amount[o]
            BY <2>1, CreditedOnce DEF MoneyInv, Books, Refundable, Fulfilled
        <3>2. status[o] = "refunded"
            BY <1>0, <2>4, <3>1 DEF MoneyInv, Books, RefundsWithinCredit
        <3> QED
            BY <2>1, <2>2, <2>4, <3>2
    <2> QED
        BY <2>1, <2>3, <2>4
<1>3. CASE Refunding(o)
    <2>1. PICK k \in Keys, n \in Asks, exact \in BOOLEAN : RefundOrder(k, o, n, exact)
        BY <1>3 DEF Refunding
    <2>2. /\ PayBack(k, o, n, exact) /\ n \in Nat /\ k \in RefundKeys
          /\ UNCHANGED <<lapsed, drafts, recharges, credit, grant, request, caller, plan, spent, faults, flips>>
        BY <1>1, <2>1
    <2>5. /\ UNCHANGED <<lapsed, drafts, recharges, credit, grant, caller, plan, spent, faults, flips>>
          /\ request' \in [Orders -> {"none", "pending", "approved", "rejected"}]
        BY <1>0, <2>2
    <2> QED
        BY <2>2, <2>5
<1> QED
    BY <1>2, <1>3 DEF PayingBack

LEMMA RefundsKeepBooks ==
    ASSUME MoneyInv, NEW o \in Orders, PayingBack(o)
    PROVE  Countable' /\ Books' /\ HeldIsCovered'
<1>0. UNCHANGED <<credit, grant, spent>> /\ o \in RefundKeys /\ Amount[o] \in Nat
    BY RefundSteps, PaymentAssumption DEF RefundKeys, PaymentAssumption
<1>1. CASE (\E k \in RefundKeys, asked \in Nat, exact \in BOOLEAN : PayBack(k, o, asked, exact))
           /\ UNCHANGED request
    BY <1>0, <1>1, PayBackKeepsBooks
<1>3. CASE /\ PayBack(o, o, Amount[o], TRUE)
           /\ \A h \in Orders \ {o} : request'[h] = request[h]
    <2>1. \A h \in Orders : request'[h] = "approved" =>
             request[h] = "approved" \/ (h = o /\ TRUE /\ Amount[o] = Amount[o])
        BY <1>3
    <2> QED
        BY <1>0, <1>3, <2>1, PayBackKeepsBooks
<1>2. CASE /\ UNCHANGED <<status, refund, event, wallet>>
           /\ status[o] = "refunded" /\ Refunded(o) = Amount[o]
           /\ \A h \in Orders \ {o} : request'[h] = request[h]
    <2>1. UNCHANGED <<credit, grant, spent>>
        BY RefundSteps
    <2>2. \A h \in Orders : Refunded(h)' = Refunded(h) /\ Credited(h)' = Credited(h)
        BY <1>2, <2>1, SameFacts DEF Credited
    <2>3. Countable'
        BY <1>2, SameFacts DEF MoneyInv, Countable, Coins
    <2>4. FulfilledExactlyOnce' /\ RefundsWithinCredit'
        BY <1>2, <2>1, <2>2 DEF MoneyInv, Books, FulfilledExactlyOnce, RefundsWithinCredit
    <2>5. ApprovedMeansRefunded'
        BY <1>2, <2>2 DEF MoneyInv, Books, ApprovedMeansRefunded
    <2>6. BooksAgree' /\ HeldIsCovered'
        BY <1>2, <2>1, <2>2 DEF MoneyInv, Books, BooksAgree, HeldIsCovered, SumOf, Coins
    <2> QED
        BY <2>3, <2>4, <2>5, <2>6 DEF Books
<1> QED
    BY <1>1, <1>2, <1>3, RefundSteps

LEMMA StepBooks ==
    ASSUME MoneyInv, [Next]_vars
    PROVE  Countable' /\ Books' /\ HeldIsCovered'
<1>1. \/ Quiet
      \/ \E o \in Orders : PayingBack(o)
      \/ \E c \in Callers : Moving(c)
      \/ Hold \/ Settle
    BY QuietSteps DEF MoneyInv
<1> QED
    BY <1>1, QuietKeepsBooks, RefundsKeepBooks, CreditKeepsBooks, ActivationKeepsBooks,
       WalletKeepsBooks DEF Moving

-----------------------------------------------------------------------------
(***************************************************************************)
(* Types, and drafts.                                                       *)
(***************************************************************************)
LEMMA Goes ==
    ASSUME CallersOK, NEW c \in Callers, NEW o \in Orders
    PROVE  /\ \A pc \in {"confirmed", "begun", "mark"} : Go(c, pc, o) => CallersOK'
           /\ Stop(c) => CallersOK'
<1>1. ASSUME NEW pc \in {"confirmed", "begun", "mark"}, Go(c, pc, o) PROVE CallersOK'
    <2>1. [pc |-> pc, order |-> o] \in CallerRec
        BY DEF CallerRec
    <2> QED
        BY <1>1, <2>1 DEF Go, CallersOK
<1>2. ASSUME Stop(c) PROVE CallersOK'
    <2>1. [pc |-> "idle", order |-> None] \in CallerRec
        BY DEF CallerRec
    <2> QED
        BY <1>2, <2>1 DEF Stop, Go, CallersOK
<1> QED
    BY <1>1, <1>2

(* The rows whose types depend on nothing else.                             *)
RowsOK ==
    /\ status \in [Orders -> Status]
    /\ lapsed \subseteq Orders /\ drafts \subseteq Orders /\ recharges \subseteq Orders
    /\ request \in [Orders -> {"none", "pending", "approved", "rejected"}]
    /\ CallersOK
    /\ plan \in BOOLEAN /\ faults \in Nat /\ flips \in Nat

MoneyOK ==
    /\ credit \in [Orders -> Nat] /\ grant \in [Orders -> Nat]
    /\ refund \in [RefundKeys -> RefundRec]
    /\ event \in [Orders -> Nat]
    /\ wallet \in Wallets /\ spent \in Nat

LEMMA TwoHalves == PaymentTypeOK <=> RowsOK /\ MoneyOK
BY Types DEF RowsOK, MoneyOK

LEMMA StatusStates ==
    \A s \in {"absent", "pending", "paid", "recharging", "completed", "refunded",
              "expired", "cancelled", "failed"} : s \in Status
BY DEF Status, Open, Closed

LEMMA OrderingKeepsRows ==
    ASSUME RowsOK, DraftsAreNew, NEW o \in Orders, Ordering(o), ~PayingBack(o)
    PROVE  RowsOK' /\ DraftsAreNew'
<1> USE StatusStates
<1>1. CASE CreateOrder(o) \/ OpenRecharge(o)
    BY <1>1 DEF CreateOrder, OpenRecharge, Insert, RowsOK, CallersOK, DraftsAreNew
<1>2. CASE CommitOrder(o)
    BY <1>2 DEF CommitOrder, RowsOK, CallersOK, DraftsAreNew
<1>3. CASE RollbackOrder(o)
    BY <1>3 DEF RollbackOrder, RowsOK, CallersOK, DraftsAreNew
<1>4. CASE CancelOrder(o) \/ Lapse(o) \/ Expire(o)
    BY <1>4 DEF CancelOrder, Lapse, Expire, Move, RowsOK, CallersOK, DraftsAreNew
<1>5. CASE CreateRefundRequest(o) \/ RejectRefundRequest(o)
    BY <1>5 DEF CreateRefundRequest, RejectRefundRequest, RowsOK, CallersOK, DraftsAreNew
<1> QED
    BY <1>1, <1>2, <1>3, <1>4, <1>5 DEF Ordering, PayingBack, Refunding

LEMMA CallersKeepRows ==
    ASSUME RowsOK, DraftsAreNew, NEW c \in Callers,
           Fulfill(c) \/ Abandon(c) \/ \E o \in Orders, early \in BOOLEAN : ConfirmPaid(c, o, early)
    PROVE  RowsOK' /\ DraftsAreNew'
<1> USE StatusStates
<1>0. caller[c].pc # "idle" => caller[c].order \in Orders
    BY DEF RowsOK, CallersOK
<1>1. ASSUME NEW o \in Orders, NEW early \in BOOLEAN, ConfirmPaid(c, o, early)
      PROVE  RowsOK' /\ DraftsAreNew'
    <2>1. CallersOK'
        <3>1. UNCHANGED caller \/ Go(c, "confirmed", o)
            BY <1>1 DEF ConfirmPaid
        <3> QED
            BY <3>1, Goes DEF RowsOK, CallersOK
    <2> QED
        BY <1>1, <2>1 DEF ConfirmPaid, Move, RowsOK, DraftsAreNew
<1>2. ASSUME NEW o \in Orders, o = caller[c].order, BeginFulfill(c)
      PROVE  RowsOK' /\ DraftsAreNew'
    <2>1. CallersOK'
        <3>1. Go(c, "begun", o) \/ Stop(c)
            BY <1>2 DEF BeginFulfill
        <3> QED
            BY <3>1, Goes DEF RowsOK
    <2> QED
        BY <1>2, <2>1 DEF BeginFulfill, Move, RowsOK, DraftsAreNew
<1>3. ASSUME NEW o \in Orders, o = caller[c].order, CreditTopup(c) \/ ActivateSubscription(c)
      PROVE  RowsOK' /\ DraftsAreNew'
    <2>1. CallersOK'
        BY <1>3, Goes DEF CreditTopup, ActivateSubscription, RowsOK
    <2> QED
        BY <1>3, <2>1 DEF CreditTopup, ActivateSubscription, Move, RowsOK, DraftsAreNew
<1>4. ASSUME NEW o \in Orders, o = caller[c].order, RefuseSubscription(c) \/ FindDecided(c)
      PROVE  RowsOK' /\ DraftsAreNew'
    <2>1. CallersOK'
        BY <1>4, Goes DEF RefuseSubscription, FindDecided, RowsOK
    <2> QED
        BY <1>4, <2>1 DEF RefuseSubscription, FindDecided, RowsOK, DraftsAreNew
<1>5. ASSUME NEW o \in Orders, o = caller[c].order, MarkFailed(c)
      PROVE  RowsOK' /\ DraftsAreNew'
    <2>1. CallersOK'
        BY <1>5, Goes DEF MarkFailed, RowsOK
    <2> QED
        BY <1>5, <2>1 DEF MarkFailed, RowsOK, DraftsAreNew
<1>6. ASSUME NEW o \in Orders, o = caller[c].order, Abandon(c)
      PROVE  RowsOK' /\ DraftsAreNew'
    <2>1. CallersOK'
        BY <1>6, Goes DEF Abandon, RowsOK
    <2> QED
        BY <1>6, <2>1 DEF Abandon, RowsOK, DraftsAreNew
<1>7. Fulfill(c) \/ Abandon(c) => caller[c].order \in Orders
    BY <1>0 DEF Fulfill, BeginFulfill, CreditTopup, ActivateSubscription, RefuseSubscription,
                FindDecided, MarkFailed, Abandon, Begun
<1> QED
    BY <1>1, <1>2, <1>3, <1>4, <1>5, <1>6, <1>7 DEF Fulfill

LEMMA RefundsKeepTypes ==
    ASSUME MoneyInv, NEW o \in Orders, PayingBack(o)
    PROVE  PaymentTypeOK' /\ DraftsAreNew'
<1>0. RowsOK /\ MoneyOK /\ DraftsAreNew
    BY TwoHalves DEF MoneyInv
<1>1. UNCHANGED <<lapsed, drafts, recharges, credit, grant, caller, plan, spent, faults, flips>>
    BY RefundSteps
<1>2. request' \in [Orders -> {"none", "pending", "approved", "rejected"}]
    BY RefundSteps
<1>3. ASSUME NEW k \in RefundKeys, NEW asked \in Nat, NEW exact \in BOOLEAN, PayBack(k, o, asked, exact)
      PROVE  /\ status' \in [Orders -> Status] /\ DraftsAreNew'
             /\ refund' \in [RefundKeys -> RefundRec]
             /\ event' \in [Orders -> Nat] /\ wallet' \in Wallets
    <2> DEFINE n == RefundAmount(o, asked, exact)
    <2>1. /\ n \in Nat /\ n > 0 /\ Refunded(o) + n <= Credited(o) /\ status[o] = "completed"
        BY <1>3, PaysWhatIsLeft
    <2>2. /\ wallet' = [wallet EXCEPT !.balance = @ - n]
          /\ refund' = [refund EXCEPT ![k] = [order |-> o, asked |-> asked, exact |-> exact, amount |-> n]]
          /\ event' = [event EXCEPT ![o] = event[o] - n]
          /\ status' \in {[status EXCEPT ![o] = "refunded"], [status EXCEPT ![o] = "completed"]}
        BY <1>3 DEF PayBack, Move
    <2> HIDE DEF n
    <2>3. event[o] - n \in Nat
        BY <2>1, LeftOfOrder
    <2>4. [order |-> o, asked |-> asked, exact |-> exact, amount |-> n] \in RefundRec
        BY <2>1 DEF RefundRec
    <2>5. status' \in [Orders -> Status] /\ DraftsAreNew'
        BY <1>0, <1>1, <2>1, <2>2, StatusStates DEF RowsOK, DraftsAreNew
    <2>6. refund' \in [RefundKeys -> RefundRec] /\ event' \in [Orders -> Nat]
        BY <1>0, <2>2, <2>3, <2>4 DEF MoneyOK
    <2>7. wallet' \in Wallets
        BY <1>0, <2>1, <2>2 DEF MoneyOK, Wallets
    <2> QED
        BY <2>5, <2>6, <2>7
<1>4. CASE UNCHANGED <<status, refund, event, wallet>>
    <2>1. RowsOK' /\ MoneyOK' /\ DraftsAreNew'
        BY <1>0, <1>1, <1>2, <1>4 DEF RowsOK, MoneyOK, CallersOK, DraftsAreNew
    <2> QED
        BY <2>1, TwoHalves DEF PaymentTypeOK, RowsOK, MoneyOK, CallersOK, CallerRec, RefundRec, Wallets
<1>5. CASE \E k \in RefundKeys, asked \in Nat, exact \in BOOLEAN : PayBack(k, o, asked, exact)
    <2>1. RowsOK' /\ MoneyOK' /\ DraftsAreNew'
        BY <1>0, <1>1, <1>2, <1>3, <1>5 DEF RowsOK, MoneyOK, CallersOK
    <2> QED
        BY <2>1, TwoHalves DEF PaymentTypeOK, RowsOK, MoneyOK, CallersOK, CallerRec, RefundRec, Wallets
<1>6. o \in RefundKeys /\ Amount[o] \in Nat
    BY PaymentAssumption DEF RefundKeys, PaymentAssumption
<1> QED
    BY <1>4, <1>5, <1>6, RefundSteps

LEMMA StepTypes ==
    ASSUME MoneyInv, [Next]_vars
    PROVE  PaymentTypeOK' /\ DraftsAreNew'
<1>0. RowsOK /\ MoneyOK /\ DraftsAreNew
    BY TwoHalves DEF MoneyInv
<1>1. ASSUME RowsOK', MoneyOK' PROVE PaymentTypeOK'
    BY <1>1 DEF PaymentTypeOK, RowsOK, MoneyOK, CallersOK, CallerRec, RefundRec, Wallets
<1>2. ASSUME Quiet PROVE MoneyOK'
    BY <1>0, <1>2 DEF Quiet, books, MoneyOK
<1>3. ASSUME NEW c \in Callers, Moving(c) PROVE MoneyOK'
    <2>1. caller[c].order \in Orders
        BY <1>0, <1>3 DEF Moving, CreditTopup, ActivateSubscription, Begun, RowsOK, CallersOK
    <2>2. Amount[caller[c].order] \in Nat
        BY <2>1, PaymentAssumption DEF PaymentAssumption
    <2>3. CASE CreditTopup(c)
        BY <1>0, <2>1, <2>2, <2>3 DEF CreditTopup, MoneyOK, Wallets
    <2>4. CASE ActivateSubscription(c)
        BY <1>0, <2>1, <2>4 DEF ActivateSubscription, MoneyOK
    <2> QED
        BY <1>3, <2>3, <2>4 DEF Moving
<1>4. ASSUME Hold \/ Settle PROVE MoneyOK' /\ RowsOK' /\ DraftsAreNew'
    <2>1. CASE Hold
        BY <1>0, <2>1 DEF Hold, MoneyOK, RowsOK, CallersOK, Wallets, DraftsAreNew
    <2>2. CASE Settle
        <3>1. wallet.held \in Nat /\ wallet.held > 0 /\ wallet.balance \in Int /\ spent \in Nat
            BY <1>0, <2>2 DEF Settle, MoneyOK, Wallets
        <3>2. wallet' \in Wallets /\ spent' \in Nat
            <4>1. CASE wallet' = [wallet EXCEPT !.held = @ - 1, !.balance = @ - 1] /\ spent' = spent + 1
                <5> DEFINE w == [wallet EXCEPT !.held = wallet.held - 1]
                <5>1. wallet.held - 1 \in Nat /\ wallet.balance - 1 \in Int /\ spent + 1 \in Nat
                    BY <3>1
                <5>2. w \in Wallets
                    BY <1>0, <5>1 DEF MoneyOK, Wallets
                <5>3. wallet' = [w EXCEPT !.balance = wallet.balance - 1]
                    BY <4>1
                <5> HIDE DEF w
                <5>4. wallet' \in Wallets
                    BY <5>1, <5>2, <5>3 DEF Wallets
                <5> QED
                    BY <4>1, <5>1, <5>4
            <4>2. CASE wallet' = [wallet EXCEPT !.held = @ - 1] /\ spent' = spent
                BY <1>0, <3>1, <4>2 DEF MoneyOK, Wallets
            <4> QED
                BY <2>2, <4>1, <4>2 DEF Settle
        <3> QED
            BY <1>0, <2>2, <3>2 DEF Settle, MoneyOK, RowsOK, CallersOK, DraftsAreNew
    <2> QED
        BY <1>4, <2>1, <2>2
<1>5. CASE SwitchPlan \/ UNCHANGED vars
    <2>1. plan' \in BOOLEAN
        BY <1>0, <1>5, Zenon DEF SwitchPlan, vars, RowsOK
    <2>2. MoneyOK' /\ DraftsAreNew'
        BY <1>0, <1>5 DEF SwitchPlan, vars, books, MoneyOK, DraftsAreNew
    <2>3. flips' \in Nat /\ UNCHANGED <<status, lapsed, drafts, recharges, request, caller, faults>>
        BY <1>0, <1>5 DEF SwitchPlan, vars, RowsOK
    <2>4. RowsOK'
        BY <1>0, <2>1, <2>3 DEF RowsOK, CallersOK
    <2> QED
        BY <1>1, <2>2, <2>4
<1>6. ASSUME NEW o \in Orders, Ordering(o) PROVE PaymentTypeOK' /\ DraftsAreNew'
    <2>1. CASE PayingBack(o)
        BY <2>1, RefundsKeepTypes
    <2>2. CASE ~PayingBack(o)
        BY <1>0, <1>1, <1>2, <1>6, <2>2, OrderingKeepsRows, QuietOrders DEF MoneyInv
    <2> QED
        BY <2>1, <2>2
<1>7. ASSUME NEW c \in Callers,
             Fulfill(c) \/ Abandon(c) \/ \E o \in Orders, early \in BOOLEAN : ConfirmPaid(c, o, early)
      PROVE  PaymentTypeOK' /\ DraftsAreNew'
    <2>1. RowsOK' /\ DraftsAreNew'
        BY <1>0, <1>7, CallersKeepRows
    <2>2. MoneyOK'
        BY <1>2, <1>3, <1>7, QuietCallers DEF MoneyInv
    <2> QED
        BY <1>1, <2>1, <2>2
<1> QED
    BY <1>1, <1>4, <1>5, <1>6, <1>7 DEF Next

LEMMA InitMoney == ASSUME Init PROVE MoneyInv
<1>1. RowsOK /\ MoneyOK
    BY StatusStates DEF Init, RowsOK, MoneyOK, CallersOK, CallerRec, RefundRec, Wallets, NoRefund
<1>2. \A o \in Orders : /\ Facts(o) = {} /\ Credited(o) = 0
                        /\ status[o] = "absent" /\ request[o] = "none"
                        /\ credit[o] = 0 /\ grant[o] = 0 /\ event[o] = 0
    <2>1. \A o \in Orders : 0 * Amount[o] = 0
        BY PaymentAssumption DEF PaymentAssumption
    <2> QED
        BY <2>1, PaymentAssumption DEF PaymentAssumption, Init, Facts, NoRefund, Credited
<1>3. \A o \in Orders : IsFiniteSet(Coins(PaidBack, Facts(o))) /\ Refunded(o) = 0
    BY <1>2, SumOfNothing DEF Refunded
<1>4. IsFiniteSet(Coins(event, Orders)) /\ SumOf(event, Orders) = 0
    BY <1>2, SumOfNothing
<1>5. wallet.balance = 0 /\ wallet.held = 0 /\ spent = 0 /\ drafts = {}
    BY DEF Init
<1>6. Countable /\ DraftsAreNew
    BY <1>3, <1>4, <1>5 DEF Countable, DraftsAreNew
<1>7. Books /\ HeldIsCovered
    BY <1>2, <1>3, <1>4, <1>5 DEF Books, FulfilledExactlyOnce, RefundsWithinCredit, ApprovedMeansRefunded,
                                  BooksAgree, HeldIsCovered
<1> QED
    BY <1>1, <1>6, <1>7, TwoHalves DEF MoneyInv

LEMMA StepMoney == ASSUME MoneyInv, [Next]_vars PROVE MoneyInv'
BY StepTypes, StepBooks DEF MoneyInv

LEMMA MoneySteps == PaymentSpec => []MoneyInv
<1>1. Init => MoneyInv
    BY InitMoney
<1>2. MoneyInv /\ [Next]_vars => MoneyInv'
    BY StepMoney
<1> QED
    BY <1>1, <1>2, PTL DEF PaymentSpec

-----------------------------------------------------------------------------
(***************************************************************************)
(* How orders move: one at a time, and never back among those that count.   *)
(***************************************************************************)
Counting == {"pending", "paid", "recharging", "completed"}
Timely == CountedToday(recharges) \ lapsed

(* One order at most moves; none becomes pending again, or counts in time   *)
(* that did not; a closed one moves only from completed to refunded.        *)
MoveOf(x) ==
    /\ \A o \in Orders \ {x} : status'[o] = status[o]
    /\ status'[x] = "pending" => status[x] = "pending"
    /\ x \notin lapsed /\ status'[x] \in Counting => status[x] \in Counting
    /\ status[x] \in Closed /\ status'[x] # status[x] =>
           status[x] = "completed" /\ status'[x] = "refunded"

Onward == lapsed \subseteq lapsed' /\ (UNCHANGED status \/ \E x \in Orders : MoveOf(x))

LEMMA OnwardOrders ==
    ASSUME MoneyInv, NEW o \in Orders, Ordering(o), ~CommitOrder(o)
    PROVE  Onward
<1>0. status \in [Orders -> Status]
    BY Types DEF MoneyInv
<1>1. CASE \/ CreateOrder(o) \/ OpenRecharge(o) \/ RollbackOrder(o) \/ Lapse(o)
           \/ CreateRefundRequest(o) \/ RejectRefundRequest(o)
    BY <1>1 DEF CreateOrder, OpenRecharge, Insert, RollbackOrder, Lapse, CreateRefundRequest, RejectRefundRequest, Onward
<1>2. CASE CancelOrder(o) \/ Expire(o)
    <2>1. MoveOf(o)
        BY <1>0, <1>2 DEF CancelOrder, Expire, Move, MoveOf, Closed, Counting
    <2> QED
        BY <1>2, <2>1 DEF CancelOrder, Expire, Onward
<1>3. CASE PayingBack(o)
    <2>1. UNCHANGED lapsed
        BY <1>3, RefundSteps
    <2>2. ASSUME NEW k, NEW asked \in Nat, NEW exact \in BOOLEAN, PayBack(k, o, asked, exact)
          PROVE  MoveOf(o)
        <3>1. status[o] = "completed"
            BY <2>2, PaysWhatIsLeft
        <3>2. status' \in {[status EXCEPT ![o] = "refunded"], [status EXCEPT ![o] = "completed"]}
            BY <2>2 DEF PayBack, Move
        <3> QED
            BY <1>0, <3>1, <3>2 DEF MoveOf, Closed, Counting
    <2>3. Amount[o] \in Nat
        BY PaymentAssumption DEF PaymentAssumption
    <2> QED
        BY <1>3, <2>1, <2>2, <2>3, RefundSteps DEF Onward
<1> QED
    BY <1>1, <1>2, <1>3 DEF Ordering, PayingBack, Refunding

LEMMA OnwardCallers ==
    ASSUME MoneyInv, NEW c \in Callers,
           Fulfill(c) \/ Abandon(c) \/ \E o \in Orders, early \in BOOLEAN : ConfirmPaid(c, o, early)
    PROVE  Onward
<1>0. /\ status \in [Orders -> Status]
      /\ caller[c].pc # "idle" => caller[c].order \in Orders
    BY Types DEF MoneyInv, CallersOK
<1>1. ASSUME NEW o \in Orders, NEW early \in BOOLEAN, ConfirmPaid(c, o, early) PROVE Onward
    <2>1. UNCHANGED status \/ MoveOf(o)
        BY <1>0, <1>1 DEF ConfirmPaid, Move, MoveOf, Closed, Counting
    <2> QED
        BY <1>1, <2>1 DEF ConfirmPaid, Onward
<1>2. CASE RefuseSubscription(c) \/ FindDecided(c) \/ Abandon(c)
    BY <1>2 DEF RefuseSubscription, FindDecided, Abandon, Onward
<1>3. ASSUME NEW o \in Orders, o = caller[c].order,
             BeginFulfill(c) \/ CreditTopup(c) \/ ActivateSubscription(c) \/ MarkFailed(c)
      PROVE  Onward
    <2>1. UNCHANGED status \/ MoveOf(o)
        <3>1. CASE BeginFulfill(c)
            BY <1>0, <1>3, <3>1 DEF BeginFulfill, Move, MoveOf, Closed, Counting
        <3>2. CASE CreditTopup(c) \/ ActivateSubscription(c)
            BY <1>0, <1>3, <3>2 DEF CreditTopup, ActivateSubscription, Move, MoveOf, Closed, Counting
        <3>3. CASE MarkFailed(c)
            BY <1>0, <1>3, <3>3 DEF MarkFailed, MoveOf, Closed, Counting
        <3> QED
            BY <1>3, <3>1, <3>2, <3>3
    <2> QED
        BY <1>3, <2>1 DEF BeginFulfill, CreditTopup, ActivateSubscription, MarkFailed, Onward
<1>4. BeginFulfill(c) \/ CreditTopup(c) \/ ActivateSubscription(c) \/ MarkFailed(c) => caller[c].order \in Orders
    BY <1>0 DEF BeginFulfill, CreditTopup, ActivateSubscription, MarkFailed, Begun
<1> QED
    BY <1>1, <1>2, <1>3, <1>4 DEF Fulfill

LEMMA OnwardSteps ==
    ASSUME MoneyInv, [Next]_vars, \A o \in Orders : ~CommitOrder(o)
    PROVE  Onward
<1>1. SwitchPlan \/ Hold \/ Settle \/ UNCHANGED vars => Onward
    BY DEF SwitchPlan, Hold, Settle, vars, Onward
<1> QED
    BY <1>1, OnwardOrders, OnwardCallers DEF Next

-----------------------------------------------------------------------------
(***************************************************************************)
(* The caps: a recharge that passed the recheck is alone until it commits.  *)
(* The orders it was checked against are more than those the caps bound.    *)
(***************************************************************************)
Fits(o) ==
    /\ MaxPending > 0 => Cardinality(Live(recharges)) + 1 <= MaxPending
    /\ DailyLimit > 0 => SumOf(Amount, Timely) + Amount[o] <= DailyLimit

RechargeDrafts == drafts \cap recharges

CapsInv ==
    /\ IsFiniteSet(Live(Orders)) /\ IsFiniteSet(Coins(Amount, CountedToday(Orders)))
    /\ CapsHold
    /\ Capped => \A o \in RechargeDrafts : Fits(o) /\ \A d \in RechargeDrafts : d = o

(* Whatever becomes a recharge in this step has no row.                     *)
OnlyNewOnes == \A o \in recharges' \ recharges : status[o] = "absent" /\ status'[o] = "absent"

LEMMA TimelySum ==
    ASSUME MoneyInv, CapsInv
    PROVE  /\ IsFiniteSet(Coins(Amount, Timely)) /\ SumOf(Amount, Timely) \in Nat
           /\ SumOf(Amount, Timely) <= SumOf(Amount, CountedToday(Orders))
           /\ SumOf(Amount, CountedToday(Orders)) \in Nat
<1>1. Timely \subseteq CountedToday(Orders)
    BY Types DEF MoneyInv, Timely, CountedToday, Live
<1> QED
    BY <1>1, SumGrows, SumType DEF CapsInv

LEMMA LiveRecharges ==
    ASSUME MoneyInv, CapsInv
    PROVE  /\ IsFiniteSet(Live(recharges)) /\ Cardinality(Live(recharges)) \in Nat
           /\ Cardinality(Live(recharges)) <= Cardinality(Live(Orders))
           /\ Cardinality(Live(Orders)) \in Nat
<1>1. Live(recharges) \subseteq Live(Orders)
    BY Types DEF MoneyInv, Live
<1> QED
    BY <1>1, FS_Subset, FS_CardinalityType DEF CapsInv

(* Nothing is added to what counts, but perhaps an overdue order.           *)
LEMMA OnwardCounts ==
    ASSUME MoneyInv, Onward, OnlyNewOnes
    PROVE  /\ Live(Orders)' \subseteq Live(Orders)
           /\ Live(recharges)' \subseteq Live(recharges) /\ Timely' \subseteq Timely
           /\ \/ CountedToday(Orders)' \subseteq CountedToday(Orders)
              \/ \E x \in Orders : CountedToday(Orders)' \subseteq CountedToday(Orders) \cup {x}
<1>0. recharges \subseteq Orders
    BY Types DEF MoneyInv
<1>1. CASE UNCHANGED status
    BY <1>0, <1>1 DEF Onward, OnlyNewOnes, Live, CountedToday, Timely
<1>2. ASSUME NEW x \in Orders, MoveOf(x)
      PROVE  /\ Live(Orders)' \subseteq Live(Orders)
             /\ Live(recharges)' \subseteq Live(recharges) /\ Timely' \subseteq Timely
             /\ CountedToday(Orders)' \subseteq CountedToday(Orders) \cup {x}
    <2>1. \A o \in recharges' : o \in recharges \/ status'[o] = "absent"
        BY DEF OnlyNewOnes
    <2> QED
        BY <1>0, <1>2, <2>1 DEF Onward, MoveOf, Live, CountedToday, Timely, Counting
<1> QED
    BY <1>1, <1>2 DEF Onward

(* A sum of finitely many coins stays one when a row is added.              *)
LEMMA OneMore ==
    ASSUME NEW S, NEW T, NEW x \in Orders, IsFiniteSet(Coins(Amount, S)), T \subseteq S \cup {x}
    PROVE  IsFiniteSet(Coins(Amount, T)) /\ SumOf(Amount, T) <= SumOf(Amount, S) + Amount[x]
<1>0. Amount[x] \in Nat
    BY PaymentAssumption DEF PaymentAssumption
<1>1. IsFiniteSet(Coins(Amount, S \ {x})) /\ SumOf(Amount, S \ {x}) <= SumOf(Amount, S)
    BY SumGrows
<1>2. (S \cup {x}) \ {x} = S \ {x}
    OBVIOUS
<1>3. /\ IsFiniteSet(Coins(Amount, S \cup {x}))
      /\ SumOf(Amount, S \cup {x}) = SumOf(Amount, S \ {x}) + Amount[x]
    BY <1>0, <1>1, <1>2, SumSplit
<1>4. IsFiniteSet(Coins(Amount, T)) /\ SumOf(Amount, T) <= SumOf(Amount, S \cup {x})
    BY <1>3, SumGrows
<1>5. SumOf(Amount, T) \in Nat /\ SumOf(Amount, S \ {x}) \in Nat /\ SumOf(Amount, S) \in Nat
    BY <1>1, <1>4, SumType
<1> QED
    BY <1>0, <1>1, <1>3, <1>4, <1>5

LEMMA OnwardKeepsCaps ==
    ASSUME MoneyInv, CapsInv, Onward, OnlyNewOnes
    PROVE  /\ IsFiniteSet(Live(Orders)') /\ IsFiniteSet(Coins(Amount, CountedToday(Orders)'))
           /\ CapsHold'
           /\ \A o \in Orders : Fits(o) => Fits(o)'
<1>0. MaxPending \in Nat /\ DailyLimit \in Nat /\ \A o \in Orders : Amount[o] \in Nat
    BY PaymentAssumption DEF PaymentAssumption
<1>1. /\ Cardinality(Live(recharges)') <= Cardinality(Live(recharges))
      /\ Cardinality(Live(recharges)') \in Nat /\ Cardinality(Live(recharges)) \in Nat
    BY OnwardCounts, LiveRecharges, FS_Subset, FS_CardinalityType
<1>2. /\ IsFiniteSet(Live(Orders)')
      /\ IsFiniteSet(Coins(Amount, CountedToday(Orders)'))
    BY OnwardCounts, FS_Subset, OneMore, SumGrows DEF CapsInv
<1>3. /\ SumOf(Amount, Timely') <= SumOf(Amount, Timely)
      /\ SumOf(Amount, Timely') \in Nat /\ SumOf(Amount, Timely) \in Nat
    <2>1. IsFiniteSet(Coins(Amount, Timely')) /\ SumOf(Amount, Timely') <= SumOf(Amount, Timely)
        BY OnwardCounts, TimelySum, SumGrows
    <2> QED
        BY <2>1, TimelySum, SumType
<1>4. /\ Cardinality(Live(recharges))' = Cardinality(Live(recharges)')
      /\ SumOf(Amount, Timely)' = SumOf(Amount, Timely')
    BY DEF SumOf, Coins
<1>5. CapsHold'
    BY <1>0, <1>1, <1>3, <1>4 DEF CapsInv, CapsHold, Timely
<1>6. \A o \in Orders : Fits(o) => Fits(o)'
    BY <1>0, <1>1, <1>3, <1>4 DEF Fits
<1> QED
    BY <1>2, <1>5, <1>6

LEMMA CommitKeepsCaps ==
    ASSUME MoneyInv, CapsInv, NEW o \in Orders, CommitOrder(o)
    PROVE  CapsInv'
<1>0. /\ MaxPending \in Nat /\ DailyLimit \in Nat /\ \A x \in Orders : Amount[x] \in Nat
      /\ status \in [Orders -> Status] /\ status[o] = "absent" /\ o \in drafts
      /\ recharges \subseteq Orders /\ drafts \subseteq Orders
      /\ drafts' = drafts \ {o} /\ UNCHANGED <<lapsed, recharges>>
      /\ status' = [status EXCEPT ![o] = "pending"]
    BY PaymentAssumption, Types DEF PaymentAssumption, MoneyInv, DraftsAreNew, CommitOrder
<1>1. /\ Live(Orders)' \subseteq Live(Orders) \cup {o}
      /\ CountedToday(Orders)' \subseteq CountedToday(Orders) \cup {o}
      /\ Live(recharges)' \subseteq Live(recharges) \cup {o} /\ o \notin Live(recharges)
      /\ Timely' \subseteq Timely \cup {o}
    BY <1>0 DEF Live, CountedToday, Timely
<1>2. /\ IsFiniteSet(Live(Orders)') /\ IsFiniteSet(Coins(Amount, CountedToday(Orders))')
    <2>1. IsFiniteSet(Live(Orders) \cup {o})
        BY FS_AddElement DEF CapsInv
    <2>2. IsFiniteSet(Coins(Amount, CountedToday(Orders)'))
        BY <1>1, OneMore DEF CapsInv
    <2>3. Coins(Amount, CountedToday(Orders))' = Coins(Amount, CountedToday(Orders)')
        BY DEF Coins
    <2> QED
        BY <1>1, <2>1, <2>2, <2>3, FS_Subset
<1>3. /\ Cardinality(Live(recharges))' = Cardinality(Live(recharges)')
      /\ SumOf(Amount, Timely)' = SumOf(Amount, Timely')
    BY DEF SumOf, Coins
<1>4. CASE o \in recharges /\ Capped
    <2>1. /\ Cardinality(Live(recharges)') <= Cardinality(Live(recharges)) + 1
          /\ Cardinality(Live(recharges)') \in Nat /\ Cardinality(Live(recharges)) \in Nat
        <3>1. /\ IsFiniteSet(Live(recharges) \cup {o})
              /\ Cardinality(Live(recharges) \cup {o}) = Cardinality(Live(recharges)) + 1
            BY <1>1, LiveRecharges, FS_AddElement
        <3>2. /\ IsFiniteSet(Live(recharges)')
              /\ Cardinality(Live(recharges)') <= Cardinality(Live(recharges) \cup {o})
            BY <1>1, <3>1, FS_Subset
        <3> QED
            BY <3>1, <3>2, LiveRecharges, FS_CardinalityType
    <2>2. /\ SumOf(Amount, Timely') <= SumOf(Amount, Timely) + Amount[o]
          /\ SumOf(Amount, Timely') \in Nat /\ SumOf(Amount, Timely) \in Nat
        <3>1. IsFiniteSet(Coins(Amount, Timely')) /\ SumOf(Amount, Timely') <= SumOf(Amount, Timely) + Amount[o]
            BY <1>1, OneMore, TimelySum
        <3> QED
            BY <3>1, TimelySum, SumType
    <2>3. Fits(o) /\ RechargeDrafts' = {}
        BY <1>0, <1>4 DEF CapsInv, RechargeDrafts
    <2>4. CapsHold'
        BY <1>0, <1>3, <2>1, <2>2, <2>3 DEF Fits, CapsHold, Timely
    <2> QED
        BY <1>2, <2>3, <2>4 DEF CapsInv
<1>5. CASE o \notin recharges
    <2>1. /\ Live(recharges)' = Live(recharges) /\ Timely' = Timely
          /\ RechargeDrafts' \subseteq RechargeDrafts
        BY <1>0, <1>5 DEF Live, CountedToday, Timely, RechargeDrafts
    <2>2. CapsHold' /\ \A x \in RechargeDrafts : Fits(x) => Fits(x)'
        BY <1>3, <2>1 DEF CapsInv, CapsHold, Fits, Timely
    <2>3. Capped' <=> Capped
        BY DEF Capped
    <2> QED
        BY <1>2, <2>1, <2>2, <2>3 DEF CapsInv
<1>6. CASE ~Capped
    <2>1. CapsHold'
        BY <1>6 DEF CapsHold, Capped
    <2>2. ~Capped'
        BY <1>6 DEF Capped
    <2> QED
        BY <1>2, <2>1, <2>2 DEF CapsInv
<1> QED
    BY <1>4, <1>5, <1>6

(* What a step that commits nothing does to drafts and recharges.           *)
LEMMA DraftSteps ==
    ASSUME MoneyInv, [Next]_vars, \A o \in Orders : ~CommitOrder(o)
    PROVE  /\ OnlyNewOnes
           /\ RechargeDrafts' \subseteq RechargeDrafts \/ \E o \in Orders : OpenRecharge(o)
<1>1. ASSUME NEW o \in Orders, CreateOrder(o) \/ OpenRecharge(o)
      PROVE  /\ OnlyNewOnes
             /\ RechargeDrafts' \subseteq RechargeDrafts \/ \E x \in Orders : OpenRecharge(x)
    BY <1>1 DEF CreateOrder, OpenRecharge, Insert, OnlyNewOnes, RechargeDrafts
<1>2. ASSUME NEW o \in Orders, Ordering(o), ~CreateOrder(o), ~OpenRecharge(o)
      PROVE  drafts' \subseteq drafts /\ UNCHANGED recharges
    <2>1. CASE PayingBack(o)
        BY <2>1, RefundSteps
    <2>2. CASE ~PayingBack(o)
        BY <1>2, <2>2 DEF Ordering, PayingBack, Refunding, RollbackOrder, CancelOrder,
                Lapse, Expire, CreateRefundRequest, RejectRefundRequest
    <2> QED
        BY <2>1, <2>2
<1>3. ASSUME NEW c \in Callers, Fulfill(c) \/ Abandon(c)
      PROVE  drafts' \subseteq drafts /\ UNCHANGED recharges
    BY <1>3 DEF Fulfill, BeginFulfill, CreditTopup, ActivateSubscription, RefuseSubscription,
            FindDecided, MarkFailed, Abandon
<1>4. ASSUME NEW c \in Callers, NEW o \in Orders, NEW early \in BOOLEAN, ConfirmPaid(c, o, early)
      PROVE  drafts' \subseteq drafts /\ UNCHANGED recharges
    BY <1>4 DEF ConfirmPaid
<1>5. SwitchPlan \/ Hold \/ Settle \/ UNCHANGED vars => drafts' \subseteq drafts /\ UNCHANGED recharges
    BY DEF SwitchPlan, Hold, Settle, vars
<1>6. CASE drafts' \subseteq drafts /\ UNCHANGED recharges
    BY <1>6 DEF OnlyNewOnes, RechargeDrafts
<1> QED
    BY <1>1, <1>2, <1>3, <1>4, <1>5, <1>6 DEF Next

LEMMA StepCaps ==
    ASSUME MoneyInv, CapsInv, [Next]_vars
    PROVE  CapsInv'
<1>1. CASE \E o \in Orders : CommitOrder(o)
    BY <1>1, CommitKeepsCaps
<1>2. CASE \A o \in Orders : ~CommitOrder(o)
    <2>1. Onward /\ OnlyNewOnes
        BY <1>2, OnwardSteps, DraftSteps
    <2>2. /\ IsFiniteSet(Live(Orders))' /\ IsFiniteSet(Coins(Amount, CountedToday(Orders)))'
          /\ CapsHold' /\ \A o \in Orders : Fits(o) => Fits(o)'
        <3>1. Coins(Amount, CountedToday(Orders))' = Coins(Amount, CountedToday(Orders)')
            BY DEF Coins
        <3> QED
            BY <2>1, <3>1, OnwardKeepsCaps
    <2>3. ASSUME NEW o \in Orders, OpenRecharge(o), Capped
          PROVE  RechargeDrafts' = {o} /\ Fits(o)
        <3>1. RechargeDrafts' = {o} /\ WithinCaps(o)
            BY <2>3 DEF OpenRecharge, Insert, RechargeDrafts
        <3>2. Amount[o] \in Nat /\ DailyLimit \in Nat /\ MaxPending \in Nat
            BY PaymentAssumption DEF PaymentAssumption
        <3> QED
            BY <3>1, <3>2, TimelySum, LiveRecharges DEF WithinCaps, Fits
    <2>4. Capped' => \A o \in RechargeDrafts' : Fits(o)' /\ \A d \in RechargeDrafts' : d = o
        <3>1. RechargeDrafts \subseteq Orders /\ (Capped' <=> Capped)
            BY Types DEF MoneyInv, Capped, RechargeDrafts
        <3>2. CASE RechargeDrafts' \subseteq RechargeDrafts
            BY <2>2, <3>1, <3>2 DEF CapsInv
        <3>3. CASE \E o \in Orders : OpenRecharge(o)
            BY <2>2, <2>3, <3>1, <3>3
        <3> QED
            BY <1>2, <3>2, <3>3, DraftSteps
    <2> QED
        BY <2>2, <2>4 DEF CapsInv
<1> QED
    BY <1>1, <1>2

LEMMA InitCaps == ASSUME Init PROVE CapsInv
<1>1. /\ Live(Orders) = {} /\ CountedToday(Orders) = {}
      /\ Live(recharges) = {} /\ Timely = {} /\ RechargeDrafts = {}
    BY DEF Init, Live, CountedToday, Timely, RechargeDrafts
<1>2. IsFiniteSet(Live(Orders)) /\ Cardinality(Live(recharges)) = 0
    BY <1>1, FS_EmptySet
<1>3. /\ IsFiniteSet(Coins(Amount, CountedToday(Orders)))
      /\ SumOf(Amount, CountedToday(recharges) \ lapsed) = 0
    BY <1>1, SumOfNothing DEF Timely
<1>4. CapsHold
    BY <1>2, <1>3, PaymentAssumption DEF PaymentAssumption, CapsHold
<1> QED
    BY <1>1, <1>2, <1>3, <1>4 DEF CapsInv

-----------------------------------------------------------------------------
(***************************************************************************)
(* Results.                                                                 *)
(***************************************************************************)
LEMMA PaymentSteps == PaymentSpec => [](MoneyInv /\ CapsInv)
<1>1. Init => MoneyInv /\ CapsInv
    BY InitMoney, InitCaps
<1>2. MoneyInv /\ CapsInv /\ [Next]_vars => MoneyInv' /\ CapsInv'
    BY StepMoney, StepCaps
<1> QED
    BY <1>1, <1>2, PTL DEF PaymentSpec

(* However callbacks, confirmations, refunds, the sweeper and concurrent    *)
(* creations interleave, for any orders and amounts: fulfilled once, no     *)
(* more paid back than credited, equal books, held money kept, caps kept.   *)
THEOREM PaymentsAreSafe == PaymentSpec => []PaymentSafety
<1>1. MoneyInv /\ CapsInv => PaymentSafety
    BY DEF MoneyInv, Books, CapsInv, PaymentSafety
<1> QED
    BY <1>1, PaymentSteps, PTL

(* No late payment revives a closed order and no late refusal fails a       *)
(* completed one.                                                           *)
THEOREM ClosedStayClosed == PaymentSpec => ClosedIsFinal
<1>1. MoneyInv /\ [Next]_vars =>
        [\A o \in Orders : status[o] \in Closed /\ status'[o] # status[o] =>
          status[o] = "completed" /\ status'[o] = "refunded"]_vars
    <2> SUFFICES ASSUME MoneyInv, [Next]_vars, NEW o \in Orders,
                        status[o] \in Closed, status'[o] # status[o]
                 PROVE  status[o] = "completed" /\ status'[o] = "refunded"
        OBVIOUS
    <2>1. \A x \in Orders : ~CommitOrder(x) \/ \A h \in Orders \ {x} : status'[h] = status[h]
        BY Types DEF MoneyInv, CommitOrder
    <2>2. ~CommitOrder(o)
        BY DEF MoneyInv, DraftsAreNew, CommitOrder, Closed
    <2>3. \A x \in Orders : ~CommitOrder(x)
        BY <2>1, <2>2
    <2> QED
        BY <2>3, OnwardSteps DEF Onward, MoveOf
<1> QED
    BY <1>1, PaymentSteps, PTL DEF PaymentSpec, ClosedIsFinal

(* A refund key acts once: what it did is neither repeated nor rewritten.   *)
THEOREM RefundKeysActOnce == PaymentSpec => RefundFactsAreFinal
<1>1. MoneyInv /\ [Next]_vars =>
        [\A k \in RefundKeys : refund[k] # NoRefund => refund'[k] = refund[k]]_vars
    <2> SUFFICES ASSUME MoneyInv, [Next]_vars, NEW k \in RefundKeys, refund[k] # NoRefund
                 PROVE  refund'[k] = refund[k]
        OBVIOUS
    <2>1. CASE Quiet \/ Hold \/ Settle
        BY <2>1 DEF Quiet, books, Hold, Settle
    <2>2. ASSUME NEW c \in Callers, Moving(c) PROVE refund'[k] = refund[k]
        BY <2>2 DEF Moving, CreditTopup, ActivateSubscription
    <2>3. ASSUME NEW o \in Orders, PayingBack(o) PROVE refund'[k] = refund[k]
        <3>1. ASSUME NEW j, NEW asked, NEW exact, PayBack(j, o, asked, exact) PROVE refund'[k] = refund[k]
            BY <3>1, Types DEF MoneyInv, PayBack
        <3> QED
            BY <2>3, <3>1, RefundSteps
    <2> QED
        BY <2>1, <2>2, <2>3, QuietSteps DEF MoneyInv
<1> QED
    BY <1>1, PaymentSteps, PTL DEF PaymentSpec, RefundFactsAreFinal

-----------------------------------------------------------------------------
(***************************************************************************)
(* Vouchers.  A redemption is made from what a transaction read when it     *)
(* began; its row has not been written since, so it is the row there is.    *)
(***************************************************************************)
RowRec == [status : {"active", "exhausted", "revoked"}, count : Nat]
RedemptionRec ==
    [user : Users, voucher : Vouchers, key : VoucherKeys \cup {NoKey}, single : BOOLEAN]

(* An open transaction whose voucher row has not been written since its     *)
(* snapshot has read the row as it is.                                      *)
ReadsTheRow(w) ==
    /\ redeemer[w].req \in Requests
    /\ redeemer[w].version \in Nat
    /\ redeemer[w].version <= voucherVersion[Req(w).voucher]
    /\ redeemer[w].version = voucherVersion[Req(w).voucher] =>
         redeemer[w].row = voucher[Req(w).voucher]

RedeemersRead ==
    \A w \in Workers : redeemer[w].pc = "open" => ReadsTheRow(w)

(* What a redemption records of its voucher, and every plan is in the       *)
(* effect ledger.                                                           *)
RecordsAreTrue ==
    /\ \A i \in DOMAIN redemptions :
         redemptions[i].single <=> redemptions[i].voucher \in SingleUse
    /\ effects = {i \in DOMAIN redemptions : redemptions[i].voucher \in Subscriptions}

WorthIsFinite == \A u \in Users : IsFiniteSet(Coins(Worth(u), DOMAIN redemptions))

VoucherInv ==
    /\ VoucherSafety
    /\ DOMAIN redeemer = Workers /\ RedeemersRead
    /\ RecordsAreTrue /\ WorthIsFinite

(* VoucherTypeOK, one fact for each variable.                               *)
LEMMA VoucherTypes ==
    VoucherTypeOK <=>
        /\ voucher \in [Vouchers -> RowRec]
        /\ voucherVersion \in [Vouchers -> Nat] /\ voucherLapsed \subseteq Vouchers
        /\ redemptions \in Seq(RedemptionRec)
        /\ effects \subseteq DOMAIN redemptions
        /\ given \in [Users -> Nat] /\ plans \in [Users -> Nat] /\ credits \in [Users -> Nat]
        /\ succeeded \subseteq Requests
BY DEF VoucherTypeOK, RowRec, RedemptionRec

LEMMA VouchersStart == VoucherInit => VoucherInv
<1> SUFFICES ASSUME VoucherInit PROVE VoucherInv
    OBVIOUS
<1> USE DEF VoucherInit
<1>1. VoucherTypeOK
    <2>1. voucher \in [Vouchers -> RowRec]
        BY DEF RowRec
    <2>2. redemptions \in Seq(RedemptionRec) /\ effects \subseteq DOMAIN redemptions
        OBVIOUS
    <2>3. voucherVersion \in [Vouchers -> Nat] /\ voucherLapsed \subseteq Vouchers
            /\ succeeded \subseteq Requests
        OBVIOUS
    <2>4. given \in [Users -> Nat] /\ plans \in [Users -> Nat] /\ credits \in [Users -> Nat]
        OBVIOUS
    <2> QED
        BY <2>1, <2>2, <2>3, <2>4, VoucherTypes
<1>2. DOMAIN redemptions = {} /\ \A v : RedemptionsOf(v) = {}
    BY DEF RedemptionsOf
<1>3. CountedAndCapped
    <2>1. ASSUME NEW v \in Vouchers
          PROVE  /\ voucher[v].count = 0 /\ voucher[v].status = "active"
                 /\ Cardinality(RedemptionsOf(v)) = 0
                 /\ MaxRedemptions[v] \in Nat \ {0}
        BY <1>2, VoucherAssumption, FS_EmptySet DEF VoucherAssumption
    <2> HIDE DEF VoucherInit
    <2> QED
        BY <2>1 DEF CountedAndCapped
<1>4. OncePerUser /\ OncePerKey /\ SuccessIsRecorded
    BY <1>2 DEF OncePerUser, OncePerKey, SuccessIsRecorded
<1>5. ASSUME NEW u \in Users
      PROVE  /\ GrantsTo(u) = {} /\ SumOf(Worth(u), DOMAIN redemptions) = 0
             /\ IsFiniteSet(Coins(Worth(u), DOMAIN redemptions))
    BY <1>2, SumOfNothing DEF GrantsTo
<1>6. GivenIsRedeemed /\ WorthIsFinite
    BY <1>5, FS_EmptySet DEF GivenIsRedeemed, WorthIsFinite
<1>7. RedeemersRead /\ RecordsAreTrue /\ DOMAIN redeemer = Workers
    BY <1>2 DEF RedeemersRead, RecordsAreTrue, Idle
<1> QED
    BY <1>1, <1>3, <1>4, <1>6, <1>7 DEF VoucherInv, VoucherSafety

-----------------------------------------------------------------------------
(* A step that redeems nothing leaves the books as they are.                *)
BooksRest == UNCHANGED <<redemptions, effects, given, plans>>

LEMMA RestingBooks ==
    ASSUME VoucherInv, BooksRest
    PROVE  /\ (OncePerUser /\ OncePerKey /\ GivenIsRedeemed)'
           /\ (RecordsAreTrue /\ WorthIsFinite)'
           /\ \A v : RedemptionsOf(v)' = RedemptionsOf(v)
<1>1. \A u : Worth(u)' = Worth(u) /\ GrantsTo(u)' = GrantsTo(u)
    BY DEF BooksRest, Worth, GrantsTo
<1>2. (GivenIsRedeemed /\ WorthIsFinite)'
    BY <1>1 DEF BooksRest, VoucherInv, VoucherSafety, GivenIsRedeemed, WorthIsFinite
<1> QED
    BY <1>2 DEF BooksRest, VoucherInv, VoucherSafety, OncePerUser, OncePerKey, RecordsAreTrue,
        RedemptionsOf

(* Redeemers who were open and stay so, while rows are written only with a  *)
(* new version.                                                             *)
LEMMA RedeemersKeepReading ==
    ASSUME VoucherInv, voucherVersion' \in [Vouchers -> Nat],
           \A v \in Vouchers : voucherVersion[v] <= voucherVersion'[v],
           \A v \in Vouchers : voucherVersion'[v] = voucherVersion[v] => voucher'[v] = voucher[v],
           DOMAIN redeemer' = Workers,
           \A w \in Workers : redeemer'[w].pc = "open" => redeemer'[w] = redeemer[w]
    PROVE  RedeemersRead'
<1> SUFFICES ASSUME NEW w \in Workers, redeemer'[w].pc = "open" PROVE ReadsTheRow(w)'
    BY DEF RedeemersRead
<1>1. redeemer'[w] = redeemer[w] /\ ReadsTheRow(w)
    BY DEF VoucherInv, RedeemersRead
<1>2. Req(w)' = Req(w) /\ Req(w).voucher \in Vouchers
    BY <1>1 DEF Req, ReadsTheRow, Requests
<1>3. voucherVersion \in [Vouchers -> Nat]
    BY VoucherTypes DEF VoucherInv, VoucherSafety
<1>4. redeemer'[w].version <= voucherVersion'[Req(w).voucher]
    BY <1>1, <1>2, <1>3 DEF ReadsTheRow
<1>5. redeemer'[w].version = voucherVersion'[Req(w).voucher] =>
        redeemer'[w].row = voucher'[Req(w).voucher]
    BY <1>1, <1>2, <1>3 DEF ReadsTheRow
<1> QED
    BY <1>1, <1>2, <1>4, <1>5 DEF ReadsTheRow

LEMMA DoneIsIdle ==
    ASSUME VoucherInv, NEW x \in Workers, Done(x)
    PROVE  /\ DOMAIN redeemer' = Workers
           /\ \A w \in Workers : redeemer'[w].pc = "open" => redeemer'[w] = redeemer[w]
BY DEF VoucherInv, Done, Idle

(* Nothing but a caller's transaction, or the clock, moves.                 *)
LEMMA BeginKeeps ==
    ASSUME VoucherInv, NEW w \in Workers, Begin(w) PROVE VoucherInv'
<1>1. BooksRest /\ UNCHANGED <<voucher, voucherVersion, voucherLapsed, credits, succeeded>>
    BY DEF Begin, BooksRest
<1>2. VoucherTypeOK' /\ SuccessIsRecorded'
    BY <1>1 DEF VoucherInv, VoucherSafety, VoucherTypeOK, SuccessIsRecorded, BooksRest
<1>3. CountedAndCapped'
    BY <1>1, RestingBooks DEF VoucherInv, VoucherSafety, CountedAndCapped
<1>4. PICK r \in Requests :
         redeemer' = [redeemer EXCEPT ![w] =
             [pc |-> "open", req |-> r, row |-> voucher[r.voucher],
              version |-> voucherVersion[r.voucher], credits |-> credits[r.user],
              late |-> r.voucher \in voucherLapsed, seen |-> Len(redemptions)]]
    BY DEF Begin
<1>5. DOMAIN redeemer' = Workers
    BY <1>4 DEF VoucherInv
<1>6. voucherVersion \in [Vouchers -> Nat] /\ r.voucher \in Vouchers
    BY VoucherTypes DEF VoucherInv, VoucherSafety, Requests
<1>7. ReadsTheRow(w)'
    <2>1. redeemer'[w].req = r /\ redeemer'[w].version = voucherVersion[r.voucher]
            /\ redeemer'[w].row = voucher[r.voucher]
        BY <1>4 DEF VoucherInv
    <2> QED
        BY <1>1, <1>6, <2>1 DEF ReadsTheRow, Req
<1>8. ASSUME NEW x \in Workers \ {w}, redeemer'[x].pc = "open" PROVE ReadsTheRow(x)'
    <2>1. redeemer'[x] = redeemer[x]
        BY <1>4, <1>8 DEF VoucherInv
    <2> QED
        BY <1>1, <1>8, <2>1 DEF VoucherInv, RedeemersRead, ReadsTheRow, Req
<1>9. RedeemersRead'
    BY <1>7, <1>8 DEF RedeemersRead
<1> QED
    BY <1>1, <1>2, <1>3, <1>5, <1>9, RestingBooks DEF VoucherInv, VoucherSafety

LEMMA RowStepsKeep ==
    ASSUME VoucherInv, NEW v \in Vouchers, RevokeVoucher(v) \/ ValidityEnds(v)
    PROVE  VoucherInv'
<1>1. BooksRest /\ UNCHANGED <<credits, redeemer, succeeded>>
    BY DEF RevokeVoucher, ValidityEnds, BooksRest
<1>2. /\ voucher \in [Vouchers -> RowRec] /\ voucherVersion \in [Vouchers -> Nat]
      /\ voucherLapsed \subseteq Vouchers
    BY VoucherTypes DEF VoucherInv, VoucherSafety
<1>3. CASE ValidityEnds(v)
    <2>1. voucher' = voucher /\ voucherVersion' = voucherVersion /\ voucherLapsed' \subseteq Vouchers
        BY <1>2, <1>3 DEF ValidityEnds
    <2>2. VoucherTypeOK' /\ SuccessIsRecorded'
        BY <1>1, <2>1 DEF VoucherInv, VoucherSafety, VoucherTypeOK, SuccessIsRecorded, BooksRest
    <2>3. CountedAndCapped'
        BY <1>1, <2>1, RestingBooks DEF VoucherInv, VoucherSafety, CountedAndCapped
    <2>4. RedeemersRead' /\ DOMAIN redeemer' = Workers
        BY <1>1, <2>1 DEF VoucherInv, RedeemersRead, ReadsTheRow, Req
    <2> QED
        BY <1>1, <2>2, <2>3, <2>4, RestingBooks DEF VoucherInv, VoucherSafety
<1>4. CASE RevokeVoucher(v)
    <2>1. /\ voucher' = [voucher EXCEPT ![v] = [@ EXCEPT !.status = "revoked"]]
          /\ voucherVersion' = [voucherVersion EXCEPT ![v] = @ + 1]
          /\ voucherLapsed' = voucherLapsed
        BY <1>4 DEF RevokeVoucher
    <2>2. /\ voucher' \in [Vouchers -> RowRec] /\ voucherVersion' \in [Vouchers -> Nat]
          /\ voucher'[v].status = "revoked" /\ voucher'[v].count = voucher[v].count
          /\ voucherVersion'[v] = voucherVersion[v] + 1
          /\ \A x \in Vouchers \ {v} :
               voucher'[x] = voucher[x] /\ voucherVersion'[x] = voucherVersion[x]
        BY <1>2, <2>1 DEF RowRec
    <2>3. VoucherTypeOK'
        BY <1>1, <2>1, <2>2 DEF VoucherInv, VoucherSafety, VoucherTypeOK, BooksRest, RowRec
    <2>4. SuccessIsRecorded'
        BY <1>1 DEF VoucherInv, VoucherSafety, SuccessIsRecorded, BooksRest
    <2>5. CountedAndCapped'
        BY <1>1, <2>2, RestingBooks DEF VoucherInv, VoucherSafety, CountedAndCapped
    <2>6. RedeemersRead' /\ DOMAIN redeemer' = Workers
        <3>1. \A x \in Vouchers : /\ voucherVersion[x] <= voucherVersion'[x]
                                  /\ voucherVersion'[x] = voucherVersion[x] => voucher'[x] = voucher[x]
            BY <1>2, <2>2
        <3> QED
            BY <1>1, <2>2, <3>1, RedeemersKeepReading DEF VoucherInv
    <2> QED
        BY <1>1, <2>3, <2>4, <2>5, <2>6, RestingBooks DEF VoucherInv, VoucherSafety
<1> QED
    BY <1>3, <1>4

LEMMA FailKeeps ==
    ASSUME VoucherInv, NEW w \in Workers, Fail(w) PROVE VoucherInv'
<1>1. BooksRest /\ UNCHANGED <<voucher, voucherVersion, voucherLapsed, credits, succeeded>> /\ Done(w)
    BY DEF Fail, BooksRest
<1>2. VoucherTypeOK' /\ SuccessIsRecorded'
    BY <1>1 DEF VoucherInv, VoucherSafety, VoucherTypeOK, SuccessIsRecorded, BooksRest
<1>3. CountedAndCapped'
    BY <1>1, RestingBooks DEF VoucherInv, VoucherSafety, CountedAndCapped
<1>4. voucherVersion \in [Vouchers -> Nat]
    BY VoucherTypes DEF VoucherInv, VoucherSafety
<1>5. RedeemersRead' /\ DOMAIN redeemer' = Workers
    BY <1>1, <1>4, DoneIsIdle, RedeemersKeepReading
<1> QED
    BY <1>1, <1>2, <1>3, <1>5, RestingBooks DEF VoucherInv, VoucherSafety

(* A replay finds its plan in the effect ledger: it gives nothing.          *)
LEMMA ReplayGivesNothing ==
    ASSUME VoucherInv, NEW w \in Workers, Replay(w)
    PROVE  /\ BooksRest
           /\ \E i \in DOMAIN redemptions : /\ redemptions[i].user = Req(w).user
                                            /\ redemptions[i].voucher = Req(w).voucher
                                            /\ redemptions[i].key = Req(w).key
<1>1. PICK i \in KeyRow(w) :
         /\ redemptions[i].voucher = Req(w).voucher
         /\ IF redemptions[i].voucher \in Subscriptions THEN Fulfil(Req(w).user, i)
            ELSE UNCHANGED <<effects, plans>>
    BY DEF Replay
<1>2. i \in DOMAIN redemptions /\ SameKey(Req(w), redemptions[i])
    BY DEF KeyRow, Visible
<1>3. UNCHANGED <<effects, plans>>
    <2>1. CASE redemptions[i].voucher \in Subscriptions
        <3>1. i \in effects
            BY <1>2, <2>1 DEF VoucherInv, RecordsAreTrue
        <3> QED
            BY <1>1, <2>1, <3>1 DEF Fulfil
    <2> QED
        BY <1>1, <2>1
<1> QED
    BY <1>1, <1>2, <1>3 DEF Replay, BooksRest, SameKey

LEMMA ReplayKeeps ==
    ASSUME VoucherInv, NEW w \in Workers, Replay(w) PROVE VoucherInv'
<1>1. /\ BooksRest /\ UNCHANGED <<voucher, voucherVersion, voucherLapsed, credits>>
      /\ Done(w) /\ succeeded' = succeeded \cup {Req(w)}
    BY ReplayGivesNothing DEF Replay, Succeed
<1>2. Req(w) \in Requests
    BY DEF Replay, VoucherInv, RedeemersRead, ReadsTheRow, Req
<1>3. VoucherTypeOK'
    BY <1>1, <1>2 DEF VoucherInv, VoucherSafety, VoucherTypeOK, BooksRest
<1>4. SuccessIsRecorded'
    <2> SUFFICES ASSUME NEW r \in succeeded'
                 PROVE  \E i \in DOMAIN redemptions : /\ redemptions[i].user = r.user
                                                      /\ redemptions[i].voucher = r.voucher
                                                      /\ redemptions[i].key = r.key
        BY <1>1 DEF SuccessIsRecorded, BooksRest
    <2>1. CASE r \in succeeded
        BY <2>1 DEF VoucherInv, VoucherSafety, SuccessIsRecorded
    <2>2. CASE r = Req(w)
        BY <2>2, ReplayGivesNothing
    <2> QED
        BY <1>1, <2>1, <2>2
<1>5. CountedAndCapped'
    BY <1>1, RestingBooks DEF VoucherInv, VoucherSafety, CountedAndCapped
<1>6. voucherVersion \in [Vouchers -> Nat]
    BY VoucherTypes DEF VoucherInv, VoucherSafety
<1>7. RedeemersRead' /\ DOMAIN redeemer' = Workers
    BY <1>1, <1>6, DoneIsIdle, RedeemersKeepReading
<1> QED
    BY <1>1, <1>3, <1>4, <1>5, <1>7, RestingBooks DEF VoucherInv, VoucherSafety

-----------------------------------------------------------------------------
(***************************************************************************)
(* A redemption.  Its row is the one it read, so the row was active and     *)
(* under its cap; no row collides with the new one in either unique index.  *)
(***************************************************************************)
LEMMA RedeemsWhatIsThere ==
    ASSUME VoucherInv, NEW w \in Workers, Redeem(w)
    PROVE  /\ Req(w) \in Requests
           /\ voucher[Req(w).voucher].status = "active"
           /\ voucher[Req(w).voucher].count < MaxRedemptions[Req(w).voucher]
<1>1. ReadsTheRow(w)
    BY DEF VoucherInv, RedeemersRead, Redeem
<1>2. redeemer[w].row = voucher[Req(w).voucher]
    BY <1>1 DEF Redeem, Stale, ReadsTheRow
<1> QED
    BY <1>1, <1>2 DEF Redeem, Usable, ReadsTheRow, Req

(* The new row, the old ones in their places, and nothing else.             *)
LEMMA RedemptionAdded ==
    ASSUME VoucherInv, NEW w \in Workers, Redeem(w), NEW n, n = Len(redemptions) + 1
    PROVE  /\ n \in Nat /\ n \notin DOMAIN redemptions
           /\ redemptions' \in Seq(RedemptionRec)
           /\ DOMAIN redemptions' = DOMAIN redemptions \cup {n}
           /\ redemptions'[n] = Row(Req(w), Req(w).voucher)
           /\ \A i \in DOMAIN redemptions : redemptions'[i] = redemptions[i]
<1>1. redemptions \in Seq(RedemptionRec)
    BY VoucherTypes DEF VoucherInv, VoucherSafety
<1>2. Row(Req(w), Req(w).voucher) \in RedemptionRec
    BY RedeemsWhatIsThere DEF Row, RedemptionRec, Requests
<1>3. redemptions' = Append(redemptions, Row(Req(w), Req(w).voucher))
    BY DEF Redeem, Record
<1> QED
    BY <1>1, <1>2, <1>3

LEMMA RedeemKeepsRows ==
    ASSUME VoucherInv, NEW w \in Workers, Redeem(w), NEW v, v = Req(w).voucher
    PROVE  /\ voucher' \in [Vouchers -> RowRec] /\ voucherVersion' \in [Vouchers -> Nat]
           /\ CountedAndCapped'
           /\ RedeemersRead' /\ DOMAIN redeemer' = Workers
<1> DEFINE n == Len(redemptions) + 1
<1>1. voucher \in [Vouchers -> RowRec] /\ voucherVersion \in [Vouchers -> Nat] /\ v \in Vouchers
    BY VoucherTypes, RedeemsWhatIsThere DEF VoucherInv, VoucherSafety, Requests
<1>2. MaxRedemptions[v] \in Nat /\ voucher[v].status = "active" /\ voucher[v].count \in Nat
        /\ voucher[v].count < MaxRedemptions[v]
    BY <1>1, RedeemsWhatIsThere, VoucherAssumption DEF VoucherAssumption, RowRec
<1>3. /\ voucher' = [voucher EXCEPT ![v] =
            [count |-> voucher[v].count + 1,
             status |-> IF voucher[v].count + 1 >= MaxRedemptions[v] THEN "exhausted"
                        ELSE voucher[v].status]]
      /\ voucherVersion' = [voucherVersion EXCEPT ![v] = @ + 1]
    BY <1>1 DEF Redeem, Spend
<1>4. /\ voucher'[v].count = voucher[v].count + 1
      /\ voucher'[v].status =
           IF voucher[v].count + 1 >= MaxRedemptions[v] THEN "exhausted" ELSE "active"
      /\ \A x \in Vouchers \ {v} : voucher'[x] = voucher[x]
    BY <1>1, <1>2, <1>3
<1>5. voucher' \in [Vouchers -> RowRec] /\ voucherVersion' \in [Vouchers -> Nat]
    BY <1>1, <1>2, <1>3 DEF RowRec
<1>6. /\ DOMAIN redemptions' = DOMAIN redemptions \cup {n} /\ n \notin DOMAIN redemptions
      /\ redemptions'[n].voucher = v
      /\ \A i \in DOMAIN redemptions : redemptions'[i] = redemptions[i]
    <2>1. /\ DOMAIN redemptions' = DOMAIN redemptions \cup {n} /\ n \notin DOMAIN redemptions
          /\ redemptions'[n] = Row(Req(w), v)
          /\ \A i \in DOMAIN redemptions : redemptions'[i] = redemptions[i]
        BY RedemptionAdded
    <2> QED
        BY <2>1 DEF Row
<1>7. RedemptionsOf(v)' = RedemptionsOf(v) \cup {n} /\ n \notin RedemptionsOf(v)
    BY <1>6 DEF RedemptionsOf
<1>8. \A x \in Vouchers \ {v} : RedemptionsOf(x)' = RedemptionsOf(x)
    BY <1>6 DEF RedemptionsOf
<1>9. IsFiniteSet(RedemptionsOf(v))
    <2>1. redemptions \in Seq(RedemptionRec)
        BY VoucherTypes DEF VoucherInv, VoucherSafety
    <2>2. DOMAIN redemptions = 1..Len(redemptions) /\ Len(redemptions) \in Nat
        BY <2>1
    <2>3. IsFiniteSet(1..Len(redemptions))
        BY <2>2, FS_Interval
    <2>4. RedemptionsOf(v) \subseteq 1..Len(redemptions)
        BY <2>2 DEF RedemptionsOf
    <2> QED
        BY <2>3, <2>4, FS_Subset
<1>10. Cardinality(RedemptionsOf(v))' = Cardinality(RedemptionsOf(v)) + 1
    BY <1>7, <1>9, FS_AddElement
<1>11. voucher[v].count = Cardinality(RedemptionsOf(v))
    BY <1>1 DEF VoucherInv, VoucherSafety, CountedAndCapped
<1>12. CountedAndCapped'
    <2> SUFFICES ASSUME NEW x \in Vouchers
                 PROVE  /\ voucher'[x].count = Cardinality(RedemptionsOf(x)')
                        /\ voucher'[x].count <= MaxRedemptions[x]
                        /\ voucher'[x].status = "active" <=>
                             voucher'[x].status # "revoked" /\ voucher'[x].count < MaxRedemptions[x]
        BY DEF CountedAndCapped
    <2>1. CASE x = v
        <3>1. voucher'[x].count = Cardinality(RedemptionsOf(x)')
            BY <1>4, <1>10, <1>11, <2>1
        <3>2. voucher'[x].count <= MaxRedemptions[x]
            BY <1>2, <1>4, <2>1
        <3>3. voucher'[x].status = "active" <=>
                voucher'[x].status # "revoked" /\ voucher'[x].count < MaxRedemptions[x]
            BY <1>2, <1>4, <2>1
        <3> QED
            BY <3>1, <3>2, <3>3
    <2>2. CASE x # v
        BY <1>4, <1>8, <2>2 DEF VoucherInv, VoucherSafety, CountedAndCapped
    <2> QED
        BY <2>1, <2>2
<1>13. \A x \in Vouchers : /\ voucherVersion[x] <= voucherVersion'[x]
                           /\ voucherVersion'[x] = voucherVersion[x] => voucher'[x] = voucher[x]
    BY <1>1, <1>3, <1>4
<1>14. RedeemersRead' /\ DOMAIN redeemer' = Workers
    BY <1>5, <1>13, DoneIsIdle, RedeemersKeepReading DEF Redeem, Succeed
<1> QED
    BY <1>5, <1>12, <1>14

(* The unique indexes, and what a request that succeeded finds.             *)
LEMMA RedeemKeepsRecords ==
    ASSUME VoucherInv, NEW w \in Workers, Redeem(w)
    PROVE  (OncePerUser /\ OncePerKey /\ SuccessIsRecorded)'
<1> DEFINE r == Req(w)
           n == Len(redemptions) + 1
<1>1. /\ DOMAIN redemptions' = DOMAIN redemptions \cup {n} /\ n \notin DOMAIN redemptions
      /\ redemptions'[n] = Row(r, r.voucher)
      /\ \A i \in DOMAIN redemptions : redemptions'[i] = redemptions[i]
    BY RedemptionAdded
<1>2. \A i \in DOMAIN redemptions :
        /\ ~SameKey(r, redemptions[i])
        /\ r.voucher \in SingleUse => ~SameUse(r, redemptions[i])
    BY DEF Redeem, Duplicate
<1>3. OncePerUser'
    <2> SUFFICES ASSUME NEW i \in DOMAIN redemptions', NEW j \in DOMAIN redemptions',
                        redemptions'[i].voucher \in SingleUse,
                        redemptions'[i].voucher = redemptions'[j].voucher,
                        redemptions'[i].user = redemptions'[j].user
                 PROVE  i = j
        BY DEF OncePerUser
    <2>1. ASSUME NEW k \in DOMAIN redemptions, r.voucher \in SingleUse,
                 redemptions[k].voucher = r.voucher
          PROVE  redemptions[k].user # r.user
        BY <1>2, <2>1 DEF SameUse, VoucherInv, RecordsAreTrue
    <2>2. CASE i \in DOMAIN redemptions /\ j \in DOMAIN redemptions
        BY <1>1, <2>2 DEF VoucherInv, VoucherSafety, OncePerUser
    <2> QED
        BY <1>1, <2>1, <2>2 DEF Row
<1>4. OncePerKey'
    <2> SUFFICES ASSUME NEW i \in DOMAIN redemptions', NEW j \in DOMAIN redemptions',
                        SameKey(redemptions'[i], redemptions'[j])
                 PROVE  i = j
        BY DEF OncePerKey, SameKey
    <2>1. CASE i \in DOMAIN redemptions /\ j \in DOMAIN redemptions
        BY <1>1, <2>1 DEF VoucherInv, VoucherSafety, OncePerKey
    <2> QED
        BY <1>1, <1>2, <2>1 DEF Row, SameKey
<1>5. SuccessIsRecorded'
    <2>1. succeeded' = succeeded \cup {r}
        BY DEF Redeem, Succeed
    <2> SUFFICES ASSUME NEW q \in succeeded'
                 PROVE  \E i \in DOMAIN redemptions' : /\ redemptions'[i].user = q.user
                                                       /\ redemptions'[i].voucher = q.voucher
                                                       /\ redemptions'[i].key = q.key
        BY DEF SuccessIsRecorded
    <2>2. CASE q \in succeeded
        <3>1. PICK i \in DOMAIN redemptions : /\ redemptions[i].user = q.user
                                              /\ redemptions[i].voucher = q.voucher
                                              /\ redemptions[i].key = q.key
            BY <2>2 DEF VoucherInv, VoucherSafety, SuccessIsRecorded
        <3> QED
            BY <1>1, <3>1
    <2>3. CASE q = r
        BY <1>1, <2>3 DEF Row
    <2> QED
        BY <2>1, <2>2, <2>3
<1> QED
    BY <1>3, <1>4, <1>5

(* What is given is what the new row says: the money of the voucher to its  *)
(* user, or one plan, which is then in the effect ledger.                   *)
LEMMA RedeemKeepsGifts ==
    ASSUME VoucherInv, NEW w \in Workers, Redeem(w)
    PROVE  /\ (GivenIsRedeemed /\ WorthIsFinite /\ RecordsAreTrue)'
           /\ given' \in [Users -> Nat] /\ plans' \in [Users -> Nat]
           /\ credits' \in [Users -> Nat]
<1> DEFINE r == Req(w)
           n == Len(redemptions) + 1
           D == DOMAIN redemptions
           grants == r.voucher \in Subscriptions
<1>1. /\ DOMAIN redemptions' = D \cup {n} /\ n \notin D
      /\ redemptions'[n] = Row(r, r.voucher)
      /\ \A i \in D : redemptions'[i] = redemptions[i]
    BY RedemptionAdded
<1>2. /\ given \in [Users -> Nat] /\ plans \in [Users -> Nat] /\ credits \in [Users -> Nat]
      /\ r.user \in Users /\ r.voucher \in Vouchers /\ Value[r.voucher] \in Nat
    BY VoucherTypes, RedeemsWhatIsThere, VoucherAssumption
    DEF VoucherInv, VoucherSafety, Requests, VoucherAssumption
<1>3. n \notin effects
    BY <1>1 DEF VoucherInv, RecordsAreTrue
<1>4. /\ plans' = IF grants THEN [plans EXCEPT ![r.user] = @ + 1] ELSE plans
      /\ effects' = IF grants THEN effects \cup {n} ELSE effects
      /\ given' = IF grants THEN given ELSE [given EXCEPT ![r.user] = @ + Value[r.voucher]]
      /\ credits' = IF grants THEN credits ELSE [credits EXCEPT ![r.user] = @ + 1]
    BY <1>3 DEF Redeem, Fulfil
<1>5. given' \in [Users -> Nat] /\ plans' \in [Users -> Nat] /\ credits' \in [Users -> Nat]
    BY <1>2, <1>4
<1>6. RecordsAreTrue'
    <2>1. \A i \in D \cup {n} :
            redemptions'[i].single <=> redemptions'[i].voucher \in SingleUse
        <3>1. redemptions'[n].single <=> redemptions'[n].voucher \in SingleUse
            <4>1. redemptions'[n].single = (r.voucher \in SingleUse)
                BY <1>1 DEF Row
            <4>2. redemptions'[n].voucher = r.voucher
                BY <1>1 DEF Row
            <4> QED
                BY <4>1, <4>2
        <3>2. \A i \in D : redemptions'[i].single <=> redemptions'[i].voucher \in SingleUse
            BY <1>1 DEF VoucherInv, RecordsAreTrue
        <3> QED
            BY <3>1, <3>2
    <2>2. effects' = {i \in D \cup {n} : redemptions'[i].voucher \in Subscriptions}
        BY <1>1, <1>4 DEF VoucherInv, RecordsAreTrue, Row
    <2> QED
        BY <1>1, <2>1, <2>2 DEF RecordsAreTrue
<1>7. ASSUME NEW u \in Users
      PROVE  /\ plans'[u] = Cardinality(GrantsTo(u)')
             /\ given'[u] = SumOf(Worth(u)', DOMAIN redemptions')
             /\ IsFiniteSet(Coins(Worth(u)', DOMAIN redemptions'))
    <2> DEFINE f == Worth(u)
               g == Worth(u)'
    <2>1. IsFiniteSet(GrantsTo(u)) /\ plans[u] = Cardinality(GrantsTo(u))
        <3>1. redemptions \in Seq(RedemptionRec)
            BY VoucherTypes DEF VoucherInv, VoucherSafety
        <3>2. D = 1..Len(redemptions) /\ Len(redemptions) \in Nat
            BY <3>1
        <3>3. GrantsTo(u) \subseteq D
            BY DEF GrantsTo
        <3> QED
            BY <3>2, <3>3, FS_Interval, FS_Subset DEF VoucherInv, VoucherSafety, GivenIsRedeemed
    <2>2. GrantsTo(u)' = IF grants /\ r.user = u THEN GrantsTo(u) \cup {n} ELSE GrantsTo(u)
        BY <1>1 DEF GrantsTo, Row
    <2>3. n \notin GrantsTo(u)
        BY <1>1 DEF GrantsTo
    <2>4. plans'[u] = Cardinality(GrantsTo(u)')
        <3>1. Cardinality(GrantsTo(u) \cup {n}) = Cardinality(GrantsTo(u)) + 1
            BY <2>1, <2>3, FS_AddElement
        <3>2. plans'[u] = IF grants /\ r.user = u THEN plans[u] + 1 ELSE plans[u]
            BY <1>2, <1>4
        <3> QED
            BY <2>1, <2>2, <3>1, <3>2
    <2>5. /\ \A i \in D : g[i] = f[i]
          /\ g[n] = IF r.user = u /\ ~grants THEN Value[r.voucher] ELSE 0
        BY <1>1 DEF Worth, Row
    <2>6. IsFiniteSet(Coins(f, D)) /\ SumOf(f, D) = given[u]
        BY DEF VoucherInv, VoucherSafety, WorthIsFinite, GivenIsRedeemed
    <2>7. g[n] \in Nat
        BY <1>2, <2>5
    <2>8. /\ IsFiniteSet(Coins(g, D \cup {n}))
          /\ SumOf(g, D \cup {n}) = given[u] + g[n]
        <3>1. n \notin D
            BY <1>1
        <3>2. \A i \in D : g[i] = f[i]
            BY <2>5
        <3>3. IsFiniteSet(Coins(f, D))
            BY <2>6
        <3> HIDE DEF g, f, D, n
        <3>4. /\ IsFiniteSet(Coins(g, D \cup {n}))
              /\ SumOf(g, D \cup {n}) = SumOf(f, D) + g[n]
            BY ONLY <2>7, <3>1, <3>2, <3>3, SumExtends, Zenon
        <3> QED
            BY <2>6, <3>4
    <2>9. given'[u] = given[u] + g[n]
        BY <1>2, <1>4, <2>5
    <2> QED
        BY <1>1, <2>4, <2>8, <2>9
<1>8. (GivenIsRedeemed /\ WorthIsFinite)'
    BY <1>7 DEF GivenIsRedeemed, WorthIsFinite
<1> QED
    BY <1>5, <1>6, <1>8

LEMMA RedeemKeeps ==
    ASSUME VoucherInv, NEW w \in Workers, Redeem(w) PROVE VoucherInv'
<1>1. VoucherTypeOK'
    <2>1. effects' \subseteq DOMAIN redemptions'
        BY RedeemKeepsGifts DEF RecordsAreTrue
    <2>2. voucherLapsed' \subseteq Vouchers /\ succeeded' \subseteq Requests
        BY VoucherTypes, RedeemsWhatIsThere DEF VoucherInv, VoucherSafety, Redeem, Succeed
    <2>3. redemptions' \in Seq(RedemptionRec)
        BY RedemptionAdded
    <2> QED
        BY <2>1, <2>2, <2>3, RedeemKeepsRows, RedeemKeepsGifts
        DEF VoucherTypeOK, RowRec, RedemptionRec
<1> QED
    BY <1>1, RedeemKeepsRows, RedeemKeepsRecords, RedeemKeepsGifts DEF VoucherInv, VoucherSafety

-----------------------------------------------------------------------------
LEMMA VoucherSteps ==
    ASSUME VoucherInv, [VoucherNext]_voucherVars PROVE VoucherInv'
<1>1. CASE UNCHANGED voucherVars
    <2>1. BooksRest /\ UNCHANGED <<voucher, voucherVersion, voucherLapsed, credits, redeemer, succeeded>>
        BY <1>1 DEF voucherVars, BooksRest
    <2>2. VoucherTypeOK' /\ SuccessIsRecorded'
        BY <2>1 DEF VoucherInv, VoucherSafety, VoucherTypeOK, SuccessIsRecorded, BooksRest
    <2>3. CountedAndCapped'
        BY <2>1, RestingBooks DEF VoucherInv, VoucherSafety, CountedAndCapped
    <2>4. RedeemersRead' /\ DOMAIN redeemer' = Workers
        BY <2>1 DEF VoucherInv, RedeemersRead, ReadsTheRow, Req
    <2> QED
        BY <2>1, <2>2, <2>3, <2>4, RestingBooks DEF VoucherInv, VoucherSafety
<1> QED
    BY <1>1, BeginKeeps, ReplayKeeps, RedeemKeeps, FailKeeps, RowStepsKeep DEF VoucherNext

(* Concurrent redemptions of one code stay within its cap, once per user    *)
(* and key, give what they record and are never confirmed without a record. *)
THEOREM VouchersAreSafe == VoucherSpec => []VoucherSafety
<1>1. VoucherInv => VoucherSafety
    BY DEF VoucherInv
<1> QED
    BY <1>1, VouchersStart, VoucherSteps, PTL DEF VoucherSpec

(* No transaction redeems a revoked voucher, whatever it read before: its   *)
(* row would have to be the one it read, and that one was active.           *)
THEOREM RevokedStaysRevoked == VoucherSpec => RevokedIsFinal
<1>1. VoucherInv /\ [VoucherNext]_voucherVars =>
        [\A v \in Vouchers : voucher[v].status = "revoked" => voucher'[v] = voucher[v]]_voucherVars
    <2> SUFFICES ASSUME VoucherInv, VoucherNext, NEW v \in Vouchers, voucher[v].status = "revoked"
                 PROVE  voucher'[v] = voucher[v]
        OBVIOUS
    <2>1. ASSUME NEW w \in Workers, Redeem(w) PROVE voucher'[v] = voucher[v]
        <3>1. Req(w).voucher # v
            BY <2>1, RedeemsWhatIsThere
        <3> QED
            BY <2>1, <3>1, VoucherTypes DEF VoucherInv, VoucherSafety, Redeem, Spend
    <2>2. ASSUME NEW w \in Workers, Begin(w) \/ Replay(w) \/ Fail(w) PROVE voucher' = voucher
        BY <2>2 DEF Begin, Replay, Fail
    <2>3. ASSUME NEW x \in Vouchers, RevokeVoucher(x) \/ ValidityEnds(x)
          PROVE  voucher'[v] = voucher[v]
        BY <2>3, VoucherTypes DEF VoucherInv, VoucherSafety, RevokeVoucher, ValidityEnds
    <2> QED
        BY <2>1, <2>2, <2>3 DEF VoucherNext
<1> QED
    BY <1>1, VouchersStart, VoucherSteps, PTL DEF VoucherSpec, RevokedIsFinal

-----------------------------------------------------------------------------
(* Hand adjustments.                                                        *)

(* What a transaction under way saw of the keys was so and stays so; if its *)
(* key was then recorded for the very same request, the row that this       *)
(* request touches has been written since.                                  *)
SawTheTruth(w) ==
    /\ clerk[w].req \in Adjustments
    /\ \A k \in clerk[w].seen : adjusted[k] # NoAdjustment
    /\ \A a \in Accounts : clerk[w].rows[a] <= rowVersion[a]
    /\ adjusted[clerk[w].req.key] = clerk[w].req =>
         \/ Seen(w)
         \/ clerk[w].rows[clerk[w].req.user] < rowVersion[clerk[w].req.user]

ClerksSawTheTruth == \A w \in Clerks : clerk[w].pc # "idle" => SawTheTruth(w)

(* An entry is of a key that was recorded, and the sums are finite.         *)
EntriesAreRecorded ==
    \A k \in KeysOf : adjusted[k] = NoAdjustment => \A a \in Accounts : entries[k][a] = 0

EntriesAreFinite == \A a \in Accounts : NetIsFinite(EntriesOf(a), KeysOf)

AdjustInv ==
    /\ AdjustmentSafety
    /\ ClerksSawTheTruth /\ EntriesAreRecorded /\ EntriesAreFinite

(* AdjustTypeOK, one fact for each variable.                                *)
ClerkRec ==
    [pc : {"idle", "waiting", "locked"}, req : Adjustments \cup {NoAdjustment},
     seen : SUBSET KeysOf, rows : [Accounts -> Nat]]
Replies == {"applied", "replayed", "conflict", "insufficient"}

LEMMA AdjustTypes ==
    AdjustTypeOK <=>
        /\ accounts \in [Accounts -> Int] /\ held \in [Accounts -> Nat]
        /\ rowVersion \in [Accounts -> Nat]
        /\ adjusted \in [KeysOf -> Adjustments \cup {NoAdjustment}]
        /\ entries \in [KeysOf -> [Accounts -> Int]]
        /\ clerk \in [Clerks -> ClerkRec]
        /\ \A w \in Clerks : clerk[w].pc # "idle" => clerk[w].req \in Adjustments
        /\ userSpent \in [AdjustUsers -> Nat] /\ applied \in [KeysOf -> Nat]
        /\ answers \subseteq Adjustments \X Replies
        /\ adminFaults \in Nat
BY DEF AdjustTypeOK, ClerkRec, Replies

LEMMA AdjustStart == AdjustInit => AdjustInv
<1> SUFFICES ASSUME AdjustInit PROVE AdjustInv
    OBVIOUS
<1>1. AdjustTypeOK
    <2>1. Resting \in ClerkRec /\ Resting.pc = "idle"
        BY DEF Resting, ClerkRec
    <2>2. clerk \in [Clerks -> ClerkRec] /\ \A w \in Clerks : clerk[w].pc = "idle"
        BY <2>1 DEF AdjustInit
    <2>3. /\ accounts \in [Accounts -> Int] /\ held \in [Accounts -> Nat]
          /\ rowVersion \in [Accounts -> Nat]
          /\ adjusted \in [KeysOf -> Adjustments \cup {NoAdjustment}]
          /\ entries \in [KeysOf -> [Accounts -> Int]]
        BY DEF AdjustInit
    <2>4. /\ userSpent \in [AdjustUsers -> Nat] /\ applied \in [KeysOf -> Nat]
          /\ answers \subseteq Adjustments \X Replies
          /\ adminFaults \in Nat
        BY DEF AdjustInit
    <2> QED
        BY <2>2, <2>3, <2>4, AdjustTypes
<1>2. KeyMovesMoneyOnce /\ EntriesAreRecorded
    BY DEF AdjustInit, KeyMovesMoneyOnce, EntriesAreRecorded
<1>3. ASSUME NEW a \in Accounts
      PROVE  NetIsFinite(EntriesOf(a), KeysOf) /\ NetOf(EntriesOf(a), KeysOf) = 0
    <2>1. \A k \in KeysOf : EntriesOf(a)[k] = 0
        BY DEF AdjustInit, EntriesOf
    <2> QED
        BY <2>1, NetOfNothing
<1>4. EntriesExplainBalances /\ EntriesAreFinite
    BY <1>3 DEF AdjustInit, EntriesExplainBalances, EntriesAreFinite, Accounts
<1>5. NothingOverdrawn /\ AnswersAreTrue
    BY DEF AdjustInit, NothingOverdrawn, AnswersAreTrue, Accounts
<1>6. ClerksSawTheTruth
    BY DEF AdjustInit, ClerksSawTheTruth, Resting
<1> QED
    BY <1>1, <1>2, <1>3, <1>4, <1>5, <1>6 DEF AdjustInv, AdjustmentSafety, EntriesAreFinite

-----------------------------------------------------------------------------
(* What a request is given to a step: its key, its account and its two      *)
(* entries, of which the account's own is not nothing.                      *)
LEMMA DeltaType ==
    ASSUME NEW r \in Adjustments
    PROVE  /\ r.key \in KeysOf /\ r.user \in Accounts
           /\ Delta(r) \in [Accounts -> Int]
           /\ r.user \in Touched(r)
           /\ \A a \in Accounts : a \in Touched(r) <=> Delta(r)[a] # 0
<1>1. r.user \in Accounts /\ r.amount \in Int /\ r.amount # 0
    BY AdjustmentAssumption DEF AdjustmentAssumption
<1>2. Delta(r) \in [Accounts -> Int]
    BY <1>1 DEF Delta
<1>3. Delta(r)[r.user] = r.amount
    BY <1>1 DEF Delta
<1> QED
    BY <1>1, <1>2, <1>3 DEF KeysOf, Touched

(* Steps that leave the keys, the entries and what they made alone.         *)
BooksStand ==
    /\ UNCHANGED <<adjusted, entries, applied>>
    /\ \A u \in AdjustUsers : accounts'[u] + userSpent'[u] = accounts[u] + userSpent[u]
    /\ accounts'[Tenant] = accounts[Tenant]

LEMMA StandingBooks ==
    ASSUME AdjustInv, BooksStand,
           accounts' \in [Accounts -> Int], userSpent' \in [AdjustUsers -> Nat]
    PROVE  /\ (KeyMovesMoneyOnce /\ EntriesExplainBalances)'
           /\ (EntriesAreRecorded /\ EntriesAreFinite)'
<1>1. \A a : EntriesOf(a)' = EntriesOf(a)
    BY DEF BooksStand, EntriesOf
<1>2. EntriesExplainBalances'
    <2>1. accounts'[Tenant] = NetOf(EntriesOf(Tenant)', KeysOf)
        BY <1>1 DEF BooksStand, AdjustInv, AdjustmentSafety, EntriesExplainBalances
    <2>2. ASSUME NEW u \in AdjustUsers
          PROVE  accounts'[u] = NetOf(EntriesOf(u)', KeysOf) - userSpent'[u]
        <3>1. accounts[u] = NetOf(EntriesOf(u), KeysOf) - userSpent[u]
            BY DEF AdjustInv, AdjustmentSafety, EntriesExplainBalances
        <3>2. NetOf(EntriesOf(u), KeysOf) \in Int
            BY NetType DEF AdjustInv, EntriesAreFinite, Accounts
        <3>3. /\ accounts[u] \in Int /\ userSpent[u] \in Int
              /\ accounts'[u] \in Int /\ userSpent'[u] \in Int
            BY AdjustTypes DEF AdjustInv, AdjustmentSafety, Accounts
        <3>4. accounts'[u] + userSpent'[u] = accounts[u] + userSpent[u]
            BY DEF BooksStand
        <3> QED
            BY <1>1, <3>1, <3>2, <3>3, <3>4
    <2> QED
        BY <2>1, <2>2 DEF EntriesExplainBalances
<1> QED
    BY <1>1, <1>2 DEF BooksStand, AdjustInv, AdjustmentSafety, KeyMovesMoneyOnce,
        EntriesAreRecorded, EntriesAreFinite

(* Rows of those that stay where they are.                                  *)
LEMMA ClerksKeepTheTruth ==
    ASSUME AdjustInv, adjusted' = adjusted, rowVersion' \in [Accounts -> Nat],
           \A a \in Accounts : rowVersion[a] <= rowVersion'[a],
           \A w \in Clerks : clerk'[w].pc # "idle" =>
               SawTheTruth(w)' \/
               /\ clerk[w].pc # "idle" /\ clerk'[w].req = clerk[w].req
               /\ clerk'[w].seen = clerk[w].seen /\ clerk'[w].rows = clerk[w].rows
    PROVE  ClerksSawTheTruth'
<1> SUFFICES ASSUME NEW w \in Clerks, clerk'[w].pc # "idle", clerk[w].pc # "idle",
                    clerk'[w].req = clerk[w].req, clerk'[w].seen = clerk[w].seen,
                    clerk'[w].rows = clerk[w].rows
             PROVE  SawTheTruth(w)'
    BY DEF ClerksSawTheTruth
<1>1. SawTheTruth(w)
    BY DEF AdjustInv, ClerksSawTheTruth
<1>2. clerk[w].rows \in [Accounts -> Nat] /\ rowVersion \in [Accounts -> Nat]
    BY AdjustTypes DEF AdjustInv, AdjustmentSafety, ClerkRec
<1>3. \A a \in Accounts : clerk[w].rows[a] <= rowVersion'[a]
    BY <1>1, <1>2 DEF SawTheTruth
<1>4. clerk[w].req.user \in Accounts
    BY <1>1, DeltaType DEF SawTheTruth
<1>5. clerk[w].rows[clerk[w].req.user] < rowVersion[clerk[w].req.user] =>
        clerk[w].rows[clerk[w].req.user] < rowVersion'[clerk[w].req.user]
    BY <1>2, <1>4
<1> QED
    BY <1>1, <1>3, <1>5 DEF SawTheTruth, Seen

(* A clerk takes its snapshot, waits, starts over, answers or dies.         *)
LEMMA ClerkStepsKeep ==
    ASSUME AdjustInv, NEW w \in Clerks,
           BeginAdjust(w) \/ Lock(w) \/ ReplayKey(w) \/ Retry(w) \/ Collide(w) \/ Refuse(w) \/ Die(w)
    PROVE  AdjustInv'
<1>1. UNCHANGED <<accounts, held, rowVersion, adjusted, entries, userSpent, applied>>
    BY DEF BeginAdjust, Lock, ReplayKey, Retry, Collide, Refuse, Die
<1>2. /\ accounts \in [Accounts -> Int] /\ held \in [Accounts -> Nat]
      /\ rowVersion \in [Accounts -> Nat] /\ clerk \in [Clerks -> ClerkRec]
      /\ userSpent \in [AdjustUsers -> Nat] /\ adminFaults \in Nat
      /\ answers \subseteq Adjustments \X Replies
      /\ \A v \in Clerks : clerk[v].pc # "idle" => clerk[v].req \in Adjustments
    BY AdjustTypes DEF AdjustInv, AdjustmentSafety
<1>3. BooksStand
    BY <1>1 DEF BooksStand
<1>4. /\ (KeyMovesMoneyOnce /\ EntriesExplainBalances)'
      /\ (EntriesAreRecorded /\ EntriesAreFinite)'
    BY <1>1, <1>2, <1>3, StandingBooks
<1>5. NothingOverdrawn'
    BY <1>1 DEF AdjustInv, AdjustmentSafety, NothingOverdrawn
<1>6. ASSUME NEW r \in Adjustments, Snapshot(w, r)
      PROVE  /\ clerk' \in [Clerks -> ClerkRec]
             /\ \A v \in Clerks : clerk'[v].pc # "idle" => clerk'[v].req \in Adjustments
             /\ ClerksSawTheTruth'
    <2> DEFINE new == [pc |-> "waiting", req |-> r,
                       seen |-> {k \in KeysOf : adjusted[k] # NoAdjustment}, rows |-> rowVersion]
    <2>1. new \in ClerkRec /\ clerk' = [clerk EXCEPT ![w] = new]
        BY <1>2, <1>6 DEF ClerkRec, Snapshot
    <2>2. clerk' \in [Clerks -> ClerkRec] /\ clerk'[w] = new
            /\ \A v \in Clerks \ {w} : clerk'[v] = clerk[v]
        BY <1>2, <2>1
    <2>3. SawTheTruth(w)'
        <3>1. \A a \in Accounts : rowVersion[a] <= rowVersion[a]
            BY <1>2
        <3>2. r.key \in KeysOf
            BY DeltaType
        <3>3. adjusted[r.key] = r => r.key \in new.seen
            BY <3>2, AdjustmentAssumption DEF AdjustmentAssumption
        <3> QED
            BY <1>1, <2>2, <3>1, <3>3 DEF SawTheTruth, Seen
    <2>4. \A a \in Accounts : rowVersion[a] <= rowVersion'[a]
        BY <1>1, <1>2
    <2>5. ClerksSawTheTruth'
        BY <1>1, <1>2, <2>2, <2>3, <2>4, ClerksKeepTheTruth
    <2> QED
        BY <1>2, <2>2, <2>5
<1>7. ASSUME clerk' = [clerk EXCEPT ![w] = Resting]
      PROVE  /\ clerk' \in [Clerks -> ClerkRec]
             /\ \A v \in Clerks : clerk'[v].pc # "idle" => clerk'[v].req \in Adjustments
             /\ ClerksSawTheTruth'
    <2>1. Resting \in ClerkRec /\ Resting.pc = "idle"
        BY DEF Resting, ClerkRec
    <2>2. clerk' \in [Clerks -> ClerkRec] /\ clerk'[w] = Resting
            /\ \A v \in Clerks \ {w} : clerk'[v] = clerk[v]
        BY <1>2, <1>7, <2>1
    <2>3. \A a \in Accounts : rowVersion[a] <= rowVersion'[a]
        BY <1>1, <1>2
    <2>4. \A v \in Clerks : clerk'[v].pc # "idle" => clerk'[v] = clerk[v]
        BY <2>1, <2>2
    <2>5. ClerksSawTheTruth'
        BY <1>1, <1>2, <2>3, <2>4, ClerksKeepTheTruth
    <2> QED
        BY <1>2, <2>4, <2>2, <2>5
<1>8. ASSUME Lock(w)
      PROVE  /\ clerk' \in [Clerks -> ClerkRec]
             /\ \A v \in Clerks : clerk'[v].pc # "idle" => clerk'[v].req \in Adjustments
             /\ ClerksSawTheTruth'
    <2>1. clerk[w].pc # "idle" /\ clerk' = [clerk EXCEPT ![w] = [@ EXCEPT !.pc = "locked"]]
        BY <1>8 DEF Lock
    <2>2. /\ clerk' \in [Clerks -> ClerkRec]
          /\ \A v \in Clerks : /\ clerk'[v].pc # "idle" => clerk[v].pc # "idle"
                               /\ clerk'[v].req = clerk[v].req /\ clerk'[v].seen = clerk[v].seen
                               /\ clerk'[v].rows = clerk[v].rows
        BY <1>2, <2>1 DEF ClerkRec
    <2>3. \A a \in Accounts : rowVersion[a] <= rowVersion'[a]
        BY <1>1, <1>2
    <2>4. ClerksSawTheTruth'
        BY <1>1, <1>2, <2>2, <2>3, ClerksKeepTheTruth
    <2> QED
        BY <1>2, <2>2, <2>4
<1>9. /\ clerk' \in [Clerks -> ClerkRec]
      /\ \A v \in Clerks : clerk'[v].pc # "idle" => clerk'[v].req \in Adjustments
      /\ ClerksSawTheTruth'
    <2>1. CASE BeginAdjust(w)
        BY <1>6, <2>1 DEF BeginAdjust
    <2>2. CASE Retry(w)
        <3>1. clerk[w].req \in Adjustments /\ Snapshot(w, clerk[w].req)
            BY <1>2, <2>2 DEF Retry
        <3> QED
            BY <1>6, <3>1
    <2>3. CASE ReplayKey(w) \/ Collide(w) \/ Refuse(w) \/ Die(w)
        BY <1>7, <2>3 DEF ReplayKey, Collide, Refuse, Die, Answer
    <2> QED
        BY <1>8, <2>1, <2>2, <2>3
<1>10. answers' \subseteq Adjustments \X Replies /\ AnswersAreTrue'
    <2>1. CASE BeginAdjust(w) \/ Lock(w) \/ Retry(w) \/ Die(w)
        BY <1>1, <1>2, <2>1
        DEF BeginAdjust, Lock, Retry, Die, AdjustInv, AdjustmentSafety, AnswersAreTrue
    <2>2. ASSUME NEW r, NEW x \in Replies, clerk[w].pc # "idle", r = clerk[w].req,
                 answers' = answers \cup {<<r, x>>},
                 x \in {"applied", "replayed"} => adjusted[r.key] = r,
                 x = "conflict" => adjusted[r.key] \notin {r, NoAdjustment}
          PROVE  answers' \subseteq Adjustments \X Replies /\ AnswersAreTrue'
        <3>1. answers' \subseteq Adjustments \X Replies
            BY <1>2, <2>2
        <3>2. \A q \in Adjustments, y \in Replies :
                <<q, y>> \in answers' => <<q, y>> \in answers \/ (q = r /\ y = x)
            BY <2>2
        <3>3. \A q \in Adjustments :
                /\ {<<q, "applied">>, <<q, "replayed">>} \cap answers' # {} =>
                     \/ {<<q, "applied">>, <<q, "replayed">>} \cap answers # {}
                     \/ q = r /\ x \in {"applied", "replayed"}
                /\ <<q, "conflict">> \in answers' => \/ <<q, "conflict">> \in answers
                                                     \/ q = r /\ x = "conflict"
            BY <3>2 DEF Replies
        <3>4. AnswersAreTrue'
            BY <1>1, <2>2, <3>3 DEF AdjustInv, AdjustmentSafety, AnswersAreTrue
        <3> QED
            BY <3>1, <3>4
    <2>3. CASE ReplayKey(w)
        <3>1. SawTheTruth(w)
            BY <2>3 DEF ReplayKey, AdjustInv, ClerksSawTheTruth
        <3>2. adjusted[clerk[w].req.key] # NoAdjustment
            BY <2>3, <3>1 DEF ReplayKey, Seen, SawTheTruth
        <3> QED
            BY <2>2, <2>3, <3>2 DEF ReplayKey, Answer, Replies
    <2>4. CASE Refuse(w)
        BY <2>2, <2>4 DEF Refuse, Answer, Replies
    <2>5. CASE Collide(w)
        <3>1. SawTheTruth(w)
            BY <2>5 DEF Collide, AdjustInv, ClerksSawTheTruth
        <3>2. clerk[w].req.user \in Touched(clerk[w].req) /\ clerk[w].req.user \in Accounts
            BY <3>1, DeltaType DEF SawTheTruth
        <3>3. rowVersion[clerk[w].req.user] = clerk[w].rows[clerk[w].req.user]
            BY <2>5, <3>2 DEF Collide, RowsMoved
        <3>4. rowVersion[clerk[w].req.user] \in Nat
            BY <1>2, <3>2
        <3>5. adjusted[clerk[w].req.key] # clerk[w].req
            BY <2>5, <3>1, <3>3, <3>4 DEF Collide, SawTheTruth
        <3> QED
            BY <2>2, <2>5, <3>5 DEF Collide, Answer, Replies
    <2> QED
        BY <2>1, <2>3, <2>4, <2>5
<1>11. adminFaults' \in Nat
    BY <1>2 DEF BeginAdjust, Lock, ReplayKey, Retry, Collide, Refuse, Die
<1>12. AdjustTypeOK'
    BY <1>1, <1>9, <1>10, <1>11, AdjustTypes DEF AdjustTypeOK, AdjustInv, AdjustmentSafety, ClerkRec, Replies
<1> QED
    BY <1>4, <1>5, <1>9, <1>10, <1>12 DEF AdjustInv, AdjustmentSafety

(* A user's own requests move its row only.                                 *)
LEMMA UseStepsKeep ==
    ASSUME AdjustInv, NEW u \in AdjustUsers, HoldUse(u) \/ CaptureUse(u)
    PROVE  AdjustInv'
<1>1. UNCHANGED <<adjusted, entries, clerk, applied, answers, adminFaults>>
    BY DEF HoldUse, CaptureUse
<1>2. /\ accounts \in [Accounts -> Int] /\ held \in [Accounts -> Nat]
      /\ rowVersion \in [Accounts -> Nat] /\ userSpent \in [AdjustUsers -> Nat]
      /\ u \in Accounts /\ u # Tenant
    BY AdjustTypes, AdjustmentAssumption
    DEF AdjustInv, AdjustmentSafety, Accounts, AdjustmentAssumption
<1>3. held[u] <= accounts[u] /\ held[u] \in Nat /\ accounts[u] \in Int /\ userSpent[u] \in Nat
    BY <1>2 DEF AdjustInv, AdjustmentSafety, NothingOverdrawn
<1>4. /\ rowVersion' = [rowVersion EXCEPT ![u] = @ + 1]
      /\ \/ /\ accounts[u] - held[u] >= 1 /\ held' = [held EXCEPT ![u] = @ + 1]
            /\ accounts' = accounts /\ userSpent' = userSpent
         \/ /\ held[u] > 0 /\ held' = [held EXCEPT ![u] = @ - 1]
            /\ accounts' = [accounts EXCEPT ![u] = @ - 1]
            /\ userSpent' = [userSpent EXCEPT ![u] = @ + 1]
    BY DEF HoldUse, CaptureUse
<1>5. /\ accounts' \in [Accounts -> Int] /\ held' \in [Accounts -> Nat]
      /\ rowVersion' \in [Accounts -> Nat] /\ userSpent' \in [AdjustUsers -> Nat]
      /\ \A a \in Accounts : rowVersion[a] <= rowVersion'[a]
    BY <1>2, <1>3, <1>4
<1>6. /\ held'[u] <= accounts'[u] /\ accounts'[u] + userSpent'[u] = accounts[u] + userSpent[u]
      /\ \A a \in Accounts \ {u} : held'[a] = held[a] /\ accounts'[a] = accounts[a]
      /\ \A x \in AdjustUsers \ {u} : userSpent'[x] = userSpent[x]
    BY <1>2, <1>3, <1>4
<1>7. NothingOverdrawn'
    BY <1>2, <1>6 DEF AdjustInv, AdjustmentSafety, NothingOverdrawn, Accounts
<1>8. BooksStand
    BY <1>1, <1>2, <1>6 DEF BooksStand, Accounts
<1>9. /\ (KeyMovesMoneyOnce /\ EntriesExplainBalances)'
      /\ (EntriesAreRecorded /\ EntriesAreFinite)'
    BY <1>5, <1>8, StandingBooks
<1>10. ClerksSawTheTruth'
    BY <1>1, <1>5, ClerksKeepTheTruth
<1>11. AdjustTypeOK' /\ AnswersAreTrue'
    BY <1>1, <1>5 DEF AdjustTypeOK, AnswersAreTrue, AdjustInv, AdjustmentSafety
<1> QED
    BY <1>7, <1>9, <1>10, <1>11 DEF AdjustInv, AdjustmentSafety

(* The commit: nobody used the key, so the entries it had were none, and no *)
(* other transaction of this request stays unaware of it.                   *)
LEMMA ApplyKeeps ==
    ASSUME AdjustInv, NEW w \in Clerks, Apply(w) PROVE AdjustInv'
<1> DEFINE r == clerk[w].req
           k == r.key
           d == Delta(r)
<1>1. /\ accounts \in [Accounts -> Int] /\ held \in [Accounts -> Nat]
      /\ rowVersion \in [Accounts -> Nat] /\ clerk \in [Clerks -> ClerkRec]
      /\ adjusted \in [KeysOf -> Adjustments \cup {NoAdjustment}]
      /\ entries \in [KeysOf -> [Accounts -> Int]] /\ applied \in [KeysOf -> Nat]
      /\ userSpent \in [AdjustUsers -> Nat] /\ adminFaults \in Nat
      /\ answers \subseteq Adjustments \X Replies
      /\ \A v \in Clerks : clerk[v].pc # "idle" => clerk[v].req \in Adjustments
    BY AdjustTypes DEF AdjustInv, AdjustmentSafety
<1>2. /\ r \in Adjustments /\ adjusted[k] = NoAdjustment /\ Sufficient(r)
      /\ accounts' = [a \in Accounts |-> accounts[a] + d[a]]
      /\ rowVersion' = [a \in Accounts |->
           IF a \in Touched(r) THEN rowVersion[a] + 1 ELSE rowVersion[a]]
      /\ adjusted' = [adjusted EXCEPT ![k] = r]
      /\ applied' = [applied EXCEPT ![k] = @ + 1]
      /\ entries' = [entries EXCEPT ![k] = d]
      /\ clerk' = [clerk EXCEPT ![w] = Resting]
      /\ answers' = answers \cup {<<r, "applied">>}
      /\ UNCHANGED <<held, userSpent, adminFaults>>
    BY <1>1 DEF Apply, Commit, Answer
<1>3. /\ k \in KeysOf /\ r.user \in Accounts /\ d \in [Accounts -> Int]
      /\ r.user \in Touched(r) /\ \A a \in Accounts : a \in Touched(r) <=> d[a] # 0
    BY <1>2, DeltaType
<1> HIDE DEF r, k, d
<1>4. r # NoAdjustment
    BY <1>2, AdjustmentAssumption DEF AdjustmentAssumption
<1>5. /\ accounts' \in [Accounts -> Int] /\ rowVersion' \in [Accounts -> Nat]
      /\ adjusted' \in [KeysOf -> Adjustments \cup {NoAdjustment}]
      /\ applied' \in [KeysOf -> Nat] /\ entries' \in [KeysOf -> [Accounts -> Int]]
      /\ \A a \in Accounts : rowVersion[a] <= rowVersion'[a]
      /\ rowVersion'[r.user] = rowVersion[r.user] + 1
    BY <1>1, <1>2, <1>3
<1>6. Resting \in ClerkRec /\ Resting.pc = "idle"
    BY DEF Resting, ClerkRec
<1>7. /\ clerk' \in [Clerks -> ClerkRec] /\ clerk'[w].pc = "idle"
      /\ \A v \in Clerks \ {w} : clerk'[v] = clerk[v]
    BY <1>1, <1>2, <1>6
<1>8. answers' \subseteq Adjustments \X Replies
    BY <1>1, <1>2 DEF Replies
<1>9. AdjustTypeOK'
    <2>1. \A v \in Clerks : clerk'[v].pc # "idle" => clerk'[v].req \in Adjustments
        BY <1>1, <1>7
    <2> QED
        BY <1>1, <1>2, <1>5, <1>7, <1>8, <2>1 DEF AdjustTypeOK, ClerkRec, Replies
<1>10. KeyMovesMoneyOnce' /\ EntriesAreRecorded'
    <2>1. \A j \in KeysOf \ {k} : /\ adjusted'[j] = adjusted[j] /\ applied'[j] = applied[j]
                                  /\ entries'[j] = entries[j]
        BY <1>1, <1>2
    <2>2. adjusted'[k] = r /\ applied'[k] = applied[k] + 1 /\ applied[k] = 0
        BY <1>1, <1>2, <1>3 DEF AdjustInv, AdjustmentSafety, KeyMovesMoneyOnce
    <2> QED
        BY <1>4, <2>1, <2>2 DEF AdjustInv, AdjustmentSafety, KeyMovesMoneyOnce, EntriesAreRecorded
<1>11. ASSUME NEW a \in Accounts
       PROVE  /\ NetIsFinite(EntriesOf(a)', KeysOf)
              /\ NetOf(EntriesOf(a)', KeysOf) = NetOf(EntriesOf(a), KeysOf) + d[a]
              /\ NetOf(EntriesOf(a), KeysOf) \in Int
    <2> DEFINE f == EntriesOf(a)
               g == EntriesOf(a)'
    <2>1. \A j \in KeysOf : f[j] \in Int /\ g[j] \in Int
        BY <1>1, <1>5 DEF EntriesOf
    <2>2. \A j \in KeysOf \ {k} : g[j] = f[j]
        BY <1>1, <1>2 DEF EntriesOf
    <2>3. f[k] = 0
        BY <1>2, <1>3 DEF EntriesOf, AdjustInv, EntriesAreRecorded
    <2>4. g[k] = d[a]
        BY <1>1, <1>2, <1>3 DEF EntriesOf
    <2>5. NetIsFinite(f, KeysOf)
        BY DEF AdjustInv, EntriesAreFinite
    <2> HIDE DEF f, g
    <2>6. /\ NetIsFinite(g, KeysOf)
          /\ NetOf(g, KeysOf) = NetOf(f, KeysOf) + g[k] - f[k]
        BY <1>3, <2>1, <2>2, <2>5, NetFollows
    <2>7. NetOf(f, KeysOf) \in Int
        BY <2>5, NetType
    <2>8. d[a] \in Int
        BY <1>3
    <2>9. NetOf(g, KeysOf) = NetOf(f, KeysOf) + d[a]
        BY <2>3, <2>4, <2>6, <2>7, <2>8
    <2> QED
        BY <2>6, <2>7, <2>9 DEF f, g
<1>12. EntriesAreFinite' /\ EntriesExplainBalances'
    <2>1. EntriesAreFinite'
        BY <1>11 DEF EntriesAreFinite
    <2>2. accounts'[Tenant] = NetOf(EntriesOf(Tenant)', KeysOf)
        <3>1. Tenant \in Accounts /\ accounts[Tenant] = NetOf(EntriesOf(Tenant), KeysOf)
            BY DEF AdjustInv, AdjustmentSafety, EntriesExplainBalances, Accounts
        <3> QED
            BY <1>2, <1>11, <3>1
    <2>3. ASSUME NEW u \in AdjustUsers
          PROVE  accounts'[u] = NetOf(EntriesOf(u)', KeysOf) - userSpent'[u]
        <3>1. u \in Accounts /\ accounts[u] = NetOf(EntriesOf(u), KeysOf) - userSpent[u]
            BY DEF AdjustInv, AdjustmentSafety, EntriesExplainBalances, Accounts
        <3>2. userSpent[u] \in Int /\ d[u] \in Int /\ accounts[u] \in Int
            BY <1>1, <1>3, <3>1
        <3>3. accounts'[u] = accounts[u] + d[u]
            BY <1>2, <3>1
        <3>4. /\ NetOf(EntriesOf(u)', KeysOf) = NetOf(EntriesOf(u), KeysOf) + d[u]
              /\ NetOf(EntriesOf(u), KeysOf) \in Int
            BY <1>11, <3>1
        <3> QED
            BY <1>2, <3>1, <3>2, <3>3, <3>4
    <2> QED
        BY <2>1, <2>2, <2>3 DEF EntriesExplainBalances
<1>13. NothingOverdrawn'
    <2>1. ASSUME NEW a \in Accounts, d[a] = 0 PROVE accounts'[a] = accounts[a]
        BY <1>1, <1>2, <1>3, <2>1
    <2>2. ASSUME NEW a \in Accounts, d[a] # 0
          PROVE  /\ accounts'[a] >= 0
                 /\ d[a] < 0 => accounts[a] - held[a] >= -d[a]
        BY <1>2, <1>3, <2>2 DEF Sufficient, d
    <2>3. accounts'[Tenant] >= 0
        BY <2>1, <2>2 DEF AdjustInv, AdjustmentSafety, NothingOverdrawn, Accounts
    <2>4. ASSUME NEW u \in AdjustUsers PROVE held'[u] <= accounts'[u]
        <3>1. u \in Accounts /\ held[u] <= accounts[u]
            BY DEF AdjustInv, AdjustmentSafety, NothingOverdrawn, Accounts
        <3>2. held[u] \in Nat /\ accounts[u] \in Int /\ d[u] \in Int
            BY <1>1, <1>3, <3>1
        <3>3. accounts'[u] = accounts[u] + d[u]
            BY <1>2, <3>1
        <3>4. d[u] < 0 => accounts[u] - held[u] >= -d[u]
            BY <2>2, <3>1, <3>2
        <3> QED
            BY <1>2, <3>1, <3>2, <3>3, <3>4
    <2> QED
        BY <2>3, <2>4 DEF NothingOverdrawn
<1>14. AnswersAreTrue'
    <2>1. adjusted'[k] = r /\ \A q \in Adjustments : q.key # k => adjusted'[q.key] = adjusted[q.key]
        BY <1>1, <1>2, <1>3 DEF KeysOf
    <2> SUFFICES ASSUME NEW q \in Adjustments
                 PROVE  /\ {<<q, "applied">>, <<q, "replayed">>} \cap answers' # {} =>
                             adjusted'[q.key] = q
                        /\ <<q, "conflict">> \in answers' => adjusted'[q.key] \notin {q, NoAdjustment}
        BY DEF AnswersAreTrue
    <2>2. /\ {<<q, "applied">>, <<q, "replayed">>} \cap answers' # {} =>
               q = r \/ {<<q, "applied">>, <<q, "replayed">>} \cap answers # {}
          /\ <<q, "conflict">> \in answers' => <<q, "conflict">> \in answers
        BY <1>2
    <2>3. /\ {<<q, "applied">>, <<q, "replayed">>} \cap answers # {} => adjusted[q.key] = q
          /\ <<q, "conflict">> \in answers => adjusted[q.key] \notin {q, NoAdjustment}
        BY DEF AdjustInv, AdjustmentSafety, AnswersAreTrue
    <2>4. q # NoAdjustment
        BY AdjustmentAssumption DEF AdjustmentAssumption
    <2>5. CASE q.key # k
        BY <2>1, <2>2, <2>3, <2>5 DEF k
    <2>6. CASE q.key = k
        BY <1>2, <2>1, <2>2, <2>3, <2>4, <2>6
    <2> QED
        BY <2>5, <2>6
<1>15. ClerksSawTheTruth'
    <2> SUFFICES ASSUME NEW v \in Clerks, clerk'[v].pc # "idle" PROVE SawTheTruth(v)'
        BY DEF ClerksSawTheTruth
    <2>1. v # w /\ clerk'[v] = clerk[v] /\ SawTheTruth(v)
        BY <1>7 DEF AdjustInv, ClerksSawTheTruth
    <2>2. clerk[v].rows \in [Accounts -> Nat] /\ clerk[v].seen \subseteq KeysOf
            /\ clerk[v].req \in Adjustments
        BY <1>1, <2>1 DEF ClerkRec, SawTheTruth
    <2>3. clerk[v].req.key \in KeysOf /\ clerk[v].req.user \in Accounts
        BY <2>2, DeltaType
    <2>4. \A a \in Accounts : clerk[v].rows[a] <= rowVersion'[a]
        BY <1>1, <1>5, <2>1, <2>2 DEF SawTheTruth
    <2>5. \A j \in clerk[v].seen : adjusted'[j] # NoAdjustment
        BY <1>1, <1>2, <1>3, <1>4, <2>1, <2>2 DEF SawTheTruth
    <2>6. CASE clerk[v].req = r
        <3>1. clerk[v].rows[r.user] < rowVersion'[r.user]
            BY <1>1, <1>3, <1>5, <2>1, <2>2, <2>6 DEF SawTheTruth
        <3> QED
            BY <2>1, <2>2, <2>4, <2>5, <2>6, <3>1 DEF SawTheTruth
    <2>7. CASE clerk[v].req # r
        <3>1. adjusted'[clerk[v].req.key] = clerk[v].req => adjusted[clerk[v].req.key] = clerk[v].req
            BY <1>1, <1>2, <1>3, <2>3, <2>7
        <3>2. clerk[v].rows[clerk[v].req.user] < rowVersion[clerk[v].req.user] =>
                clerk[v].rows[clerk[v].req.user] < rowVersion'[clerk[v].req.user]
            BY <1>1, <1>5, <2>2, <2>3
        <3> QED
            BY <2>1, <2>2, <2>4, <2>5, <3>1, <3>2 DEF SawTheTruth, Seen
    <2> QED
        BY <2>6, <2>7
<1> QED
    BY <1>9, <1>10, <1>12, <1>13, <1>14, <1>15 DEF AdjustInv, AdjustmentSafety

LEMMA AdjustSteps == AdjustInv /\ [AdjustNext]_adjustVars => AdjustInv'
<1> SUFFICES ASSUME AdjustInv, [AdjustNext]_adjustVars PROVE AdjustInv'
    OBVIOUS
<1>1. CASE UNCHANGED adjustVars
    <2>1. /\ BooksStand /\ UNCHANGED <<accounts, held, rowVersion, userSpent, clerk, answers, adminFaults>>
        BY <1>1 DEF adjustVars, BooksStand
    <2>2. /\ accounts \in [Accounts -> Int] /\ rowVersion \in [Accounts -> Nat]
          /\ userSpent \in [AdjustUsers -> Nat]
        BY AdjustTypes DEF AdjustInv, AdjustmentSafety
    <2>3. AdjustTypeOK' /\ AnswersAreTrue' /\ NothingOverdrawn'
        BY <1>1 DEF adjustVars, AdjustTypeOK, AnswersAreTrue, NothingOverdrawn, AdjustInv, AdjustmentSafety
    <2>4. ClerksSawTheTruth'
        BY <1>1 DEF adjustVars, ClerksSawTheTruth, SawTheTruth, Seen, AdjustInv
    <2> QED
        BY <2>1, <2>2, <2>3, <2>4, StandingBooks DEF AdjustInv, AdjustmentSafety
<1> QED
    BY <1>1, ClerkStepsKeep, UseStepsKeep, ApplyKeeps DEF AdjustNext, ServeClerk

(* Concurrent adjustments under repeated keys move money once per key, are  *)
(* explained by the permanent entries, overdraw nothing and are answered    *)
(* truthfully (ApplyAdminBalanceAdjustment), for any requests and clerks.   *)
THEOREM AdjustmentsAreSafe == AdjustSpec => []AdjustmentSafety
<1>1. AdjustInv => AdjustmentSafety
    BY DEF AdjustInv
<1> QED
    BY <1>1, AdjustStart, AdjustSteps, PTL DEF AdjustSpec
=============================================================================
