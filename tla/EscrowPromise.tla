---------------------------- MODULE EscrowPromise ----------------------------
(***************************************************************************)
(* What the order system promises about the money of an order, whatever    *)
(* customers, sellers, couriers and administrators do at the same time:    *)
(* the price of a cart is taken into escrow as a whole, and then leaves    *)
(* escrow at most once per order, either released to the seller's side or  *)
(* refunded to the customer, never both (the paymentStatus column PAID ->  *)
(* RELEASED | REFUNDED of schema.prisma, and the ":settle" and ":refund"   *)
(* postings behind it).  OrderFlow.tla is shown to implement Promise.      *)
(***************************************************************************)
CONSTANT Orders

VARIABLE money

MoneyStates == {"none", "held", "released", "refunded"}

PromiseTypeOK == money \in [Orders -> MoneyStates]

PromiseInit == money = [o \in Orders |-> "none"]

\* A checkout takes the price of all its orders together.
Take(S) ==
  /\ S # {}
  /\ \A o \in S : money[o] = "none"
  /\ money' = [o \in Orders |-> IF o \in S THEN "held" ELSE money[o]]

Release(o) == money[o] = "held" /\ money' = [money EXCEPT ![o] = "released"]

Refund(o) == money[o] = "held" /\ money' = [money EXCEPT ![o] = "refunded"]

PromiseNext ==
  \/ \E S \in SUBSET Orders : Take(S)
  \/ \E o \in Orders : Release(o) \/ Refund(o)

Promise == PromiseInit /\ [][PromiseNext]_money
=============================================================================
