------------------------------ MODULE OrderFlow ------------------------------
(***************************************************************************)
(* An order from checkout to payout: orders/orders.service.ts,             *)
(* orders/order-status.service.ts and delivery/delivery.service.ts over    *)
(* the ledger of Ledger.tla.                                               *)
(*                                                                         *)
(* Every handler that reads rows, decides, and only then opens its         *)
(* database transaction is two actions: ...Read, which takes what the      *)
(* handler remembers into req[r], and ...Commit, which is the transaction. *)
(* Any number of other handlers may commit in between.  A transaction is   *)
(* one step: it runs at READ COMMITTED, but the row it updates             *)
(* conditionally stays locked until it commits, and every competing        *)
(* transaction has to pass the same row.                                   *)
(*                                                                         *)
(* A basket is what one store sells in one cart: the unit that becomes one *)
(* order.  Carts of the CARSI business unit may hold baskets of several    *)
(* stores; every other cart holds one.  Left out: product variants and     *)
(* what keeps products.stock in step with theirs.                          *)
(*                                                                         *)
(* An operator marked Mistake is no part of the model: it is a definition  *)
(* as a plausible error would have it, for checking that a run notices.    *)
(***************************************************************************)
EXTENDS Ledger, FiniteSets

CONSTANTS
  Orders,       \* order numbers there are: the bound on orders ever created
  Requests,     \* handlers that may be between their read and their commit
  Customers, Couriers, SuperAdmins,
  Stores, CarsiStores, Owner,
  Products, ProductStore, OpeningStock,
  Baskets, BasketStore, Needs, Subtotal, OpeningCart,
  CommissionRate,          \* Store.commissionRate, in ten-thousandths
  DELIVERY_FEE, FREE_DELIVERY_THRESHOLD, MAX_KOD_DENEME,
  Suspendable,             \* stores that may stop and resume taking orders
  NoUser, NoOrder, NoBasket

ASSUME FiniteAssumption ==
  /\ IsFiniteSet(Orders) /\ IsFiniteSet(Baskets)
  /\ IsFiniteSet(Requests) /\ Requests # {}

ASSUME PeopleAssumption ==
  /\ Customers \subseteq Users /\ Couriers \subseteq Users /\ SuperAdmins \subseteq Users
  /\ Owner \in [Stores -> Users]
  /\ NoUser \notin Users /\ NoOrder \notin Orders /\ NoBasket \notin Baskets

\* A basket holds products of its store only.
ASSUME GoodsAssumption ==
  /\ ProductStore \in [Products -> Stores]
  /\ OpeningStock \in [Products -> Nat]
  /\ BasketStore \in [Baskets -> Stores]
  /\ Needs \in [Baskets -> [Products -> Nat]]
  /\ Subtotal \in [Baskets -> Nat]
  /\ \A b \in Baskets, p \in Products : BasketStore[b] # ProductStore[p] => Needs[b][p] = 0

\* A cart holds one basket of a store.
ASSUME CartsAssumption ==
  /\ OpeningCart \in [Customers -> SUBSET Baskets]
  /\ \A c \in Customers : \A a, b \in OpeningCart[c] : BasketStore[a] = BasketStore[b] => a = b

ASSUME RatesAssumption ==
  /\ CommissionRate \in [Stores -> Nat]
  /\ \A s \in Stores : CommissionRate[s] <= 10000

ASSUME LimitsAssumption ==
  /\ DELIVERY_FEE \in Nat /\ FREE_DELIVERY_THRESHOLD \in Nat
  /\ MAX_KOD_DENEME \in Nat
  /\ CarsiStores \subseteq Stores /\ Suspendable \subseteq Stores

VARIABLES
  orders,       \* table orders; NoRow where no order has that number yet
  deliveries,   \* table deliveries, one row per order
  stock,        \* products.stock
  cart,         \* cart_items of each customer, grouped by store
  accepts,      \* the store passes checkout's gates (active, seller ACTIVE, open, in zone)
  req           \* what each handler holds between its read and its commit

orderVars == <<orders, deliveries>>
shopVars == <<stock, cart, accepts>>
vars == <<ledgerVars, orderVars, shopVars, req>>

OrderStatus == {"PENDING", "CONFIRMED", "PREPARING", "READY", "ON_THE_WAY",
                "DELIVERED", "CANCELLED", "REFUNDED"}
PaymentStatus == {"PENDING", "PAID", "RELEASED", "REFUNDED"}
DeliveryStatus == {"PENDING", "ASSIGNED", "PICKED_UP", "DELIVERED", "CANCELLED"}

NoRow == [status |-> "NONE", pay |-> "NONE", cust |-> NoUser, basket |-> NoBasket]
NoDelivery == [status |-> "NONE", courier |-> NoUser, yontem |-> "KENDI",
               deneme |-> 0, dogrulandi |-> FALSE]

\* Mistake: nobody takes an order from PREPARING to READY.
NEXT_STATUS_StopsAtPreparing == [s \in OrderStatus |->
  CASE s = "PENDING" -> {"CONFIRMED"}
    [] s = "CONFIRMED" -> {"PREPARING"}
    [] OTHER -> {}]

NEXT_STATUS == [s \in OrderStatus |->
  CASE s = "PENDING" -> {"CONFIRMED"}
    [] s = "CONFIRMED" -> {"PREPARING"}
    [] s = "PREPARING" -> {"READY"}
    [] OTHER -> {}]

CANCELABLE == {"PENDING", "CONFIRMED", "PREPARING", "READY"}

-----------------------------------------------------------------------------
(* Money: how checkout splits the price of a basket. *)

IsCarsi(b) == BasketStore[b] \in CarsiStores

DeliveryFeeOf(b) ==
  IF Subtotal[b] >= FREE_DELIVERY_THRESHOLD THEN 0 ELSE DELIVERY_FEE

Commission(b) == (Subtotal[b] * CommissionRate[BasketStore[b]]) \div 10000

NetRevenue(b) == Subtotal[b] - Commission(b)

\* In CARSI the freight is inside the product prices; elsewhere it is added.
Total(b) == IF IsCarsi(b) THEN Subtotal[b] ELSE Subtotal[b] + DeliveryFeeOf(b)

GroupTotal(bs) == SumFunction([b \in bs |-> Total(b)])

\* Mistake: the stock of one store's basket is taken and the others' forgotten.
GroupNeeds_OneStore(bs, p) == Needs[CHOOSE b \in bs : TRUE][p]

\* What a cart takes of a product: only the basket of the product's store needs it.
GroupNeeds(bs, p) ==
  IF \E b \in bs : BasketStore[b] = ProductStore[p]
    THEN Needs[CHOOSE b \in bs : BasketStore[b] = ProductStore[p]][p]
    ELSE 0

\* Mistake: every refund has the same reference, so only the first one is posted.
RefundRef_Shared(o) == [kind |-> "refund", of |-> Orders]

PaymentRef(S) == [kind |-> "payment", of |-> S]
SettleRef(o) == [kind |-> "settle", of |-> {o}]
RefundRef(o) == [kind |-> "refund", of |-> {o}]

-----------------------------------------------------------------------------
(* Requests *)

Idle == [op |-> "idle", ord |-> NoOrder, by |-> NoUser, baskets |-> {}]

Ops == {"idle", "checkout", "cancel", "claim", "pickup", "deliver", "wrongCode",
        "aracikurum"}

\* Handler r has read what it decides on and goes on to its transaction.
Remember(r, op, o, u, bs) ==
  /\ req[r] = Idle
  /\ req' = [req EXCEPT ![r] = [op |-> op, ord |-> o, by |-> u, baskets |-> bs]]
  /\ UNCHANGED <<ledgerVars, orderVars, shopVars>>

Answer(r) == req' = [req EXCEPT ![r] = Idle]

-----------------------------------------------------------------------------
(* orders.service: checkout and checkoutCarsiMultiStore *)

CheckoutRead(r, c) ==
  /\ cart[c] # {}
  /\ \A b \in cart[c] : accepts[BasketStore[b]]
  /\ \A b \in cart[c], p \in Products : stock[p] >= Needs[b][p]
  /\ balance[c] >= GroupTotal(cart[c])
  /\ Remember(r, "checkout", NoOrder, c, cart[c])

\* Mistake: the check made before the transaction is taken for enough.
InStock_AsRead(bs) == TRUE

\* The condition on which the transaction takes the stock of each product.
InStock(bs) == \A p \in Products : stock[p] >= GroupNeeds(bs, p)

FreeOrders == {o \in Orders : orders[o] = NoRow}

PaymentOk(c, bs, S) ==
  CanPost(PaymentRef(S), Line(c, GroupTotal(bs)), Line(Escrow, GroupTotal(bs)))

\* The orders of a cart get numbers nobody has: one order per basket.
Numberings(bs) ==
  {place \in [bs -> FreeOrders] : \A a, b \in bs : place[a] = place[b] => a = b}

CheckoutOk(r) ==
  /\ InStock(req[r].baskets)
  /\ \E place \in Numberings(req[r].baskets) :
       PaymentOk(req[r].by, req[r].baskets, Range(place))

NewOrder(c, b) == [status |-> "CONFIRMED", pay |-> "PAID", cust |-> c, basket |-> b]

NewDelivery == [NoDelivery EXCEPT !.status = "PENDING"]

PlaceOrders(c, bs, place) ==
  LET S == Range(place)
  IN /\ orders' = [o \in Orders |->
           IF o \in S THEN NewOrder(c, CHOOSE b \in bs : place[b] = o) ELSE orders[o]]
     /\ deliveries' = [o \in Orders |-> IF o \in S THEN NewDelivery ELSE deliveries[o]]
     /\ PaymentOk(c, bs, S)
     /\ Post(PaymentRef(S), Line(c, GroupTotal(bs)), Line(Escrow, GroupTotal(bs)))

CheckoutCommit(r) ==
  LET c == req[r].by
      bs == req[r].baskets
  IN /\ req[r].op = "checkout"
     /\ InStock(bs)
     /\ stock' = [p \in Products |-> stock[p] - GroupNeeds(bs, p)]
     /\ \E place \in Numberings(bs) : PlaceOrders(c, bs, place)
     /\ cart' = [cart EXCEPT ![c] = {}]
     /\ UNCHANGED accepts
     /\ Answer(r)

-----------------------------------------------------------------------------
(* orders.service: updateStatus and cancel *)

\* One transaction whose write is conditional on the very status it has read.
UpdateStatus(o, next) ==
  /\ orders[o] # NoRow
  /\ next \in NEXT_STATUS[orders[o].status]
  /\ orders' = [orders EXCEPT ![o].status = next]
  /\ UNCHANGED <<ledgerVars, deliveries, shopVars, req>>

CancelRead(r, o) ==
  /\ orders[o].status \in CANCELABLE
  /\ Remember(r, "cancel", o, orders[o].cust, {orders[o].basket})

RefundOk(o) ==
  LET total == Total(orders[o].basket)
  IN CanPost(RefundRef(o), Line(Escrow, total), Line(orders[o].cust, total))

\* Mistake: the status is not checked again when the refund is made.
CancelOk_AsRead(r) == RefundOk(req[r].ord)

CancelOk(r) == orders[req[r].ord].status \in CANCELABLE /\ RefundOk(req[r].ord)

CancelCommit(r) ==
  LET o == req[r].ord
      total == Total(orders[o].basket)
  IN /\ req[r].op = "cancel"
     /\ CancelOk(r)
     /\ orders' = [orders EXCEPT ![o].status = "CANCELLED", ![o].pay = "REFUNDED"]
     /\ stock' = [p \in Products |-> stock[p] + GroupNeeds(req[r].baskets, p)]
     /\ deliveries' = [deliveries EXCEPT ![o].status = "CANCELLED"]
     /\ Post(RefundRef(o), Line(Escrow, total), Line(orders[o].cust, total))
     /\ UNCHANGED <<cart, accepts>>
     /\ Answer(r)

-----------------------------------------------------------------------------
(* delivery.service: claim, pickup, deliver, aracikurumaVer *)

\* COURIER, and SUPER_ADMIN, whom the permission guard lets through as well.
Carriers == Couriers \cup SuperAdmins

\* assertKervanDisi: CARSI orders never enter the couriers' flow.
CourierOrder(o) == orders[o] # NoRow /\ ~IsCarsi(orders[o].basket)

\* Mistake: any courier may act on any delivery.
Holds_Anyone(o, u) == deliveries[o].courier # NoUser

Holds(o, u) == deliveries[o].courier = u \/ u \in SuperAdmins

ClaimRead(r, o, u) ==
  /\ CourierOrder(o)
  /\ deliveries[o].status = "PENDING"
  /\ orders[o].status = "READY"
  /\ Remember(r, "claim", o, u, {})

\* Mistake: only the order is checked again and not who has the delivery by now.
ClaimOk_OrderOnly(r) == orders[req[r].ord].status = "READY"

ClaimOk(r) ==
  LET o == req[r].ord
  IN /\ deliveries[o].status = "PENDING"
     /\ deliveries[o].courier = NoUser
     /\ orders[o].status = "READY"

ClaimCommit(r) ==
  /\ req[r].op = "claim"
  /\ ClaimOk(r)
  /\ deliveries' = [deliveries EXCEPT ![req[r].ord].courier = req[r].by,
                                      ![req[r].ord].status = "ASSIGNED"]
  /\ UNCHANGED <<ledgerVars, orders, shopVars>>
  /\ Answer(r)

PickupRead(r, o, u) ==
  /\ CourierOrder(o)
  /\ Holds(o, u)
  /\ deliveries[o].status = "ASSIGNED"
  /\ Remember(r, "pickup", o, u, {})

\* Mistake: the order's status is not checked again.
PickupOk_AsRead(r) == TRUE

PickupOk(r) == orders[req[r].ord].status = "READY"

\* Only the order's status is checked again; the delivery is written by id.
PickupCommit(r) ==
  /\ req[r].op = "pickup"
  /\ PickupOk(r)
  /\ orders' = [orders EXCEPT ![req[r].ord].status = "ON_THE_WAY"]
  /\ deliveries' = [deliveries EXCEPT ![req[r].ord].status = "PICKED_UP"]
  /\ UNCHANGED <<ledgerVars, shopVars>>
  /\ Answer(r)

\* Mistake: one attempt too many.
TriesLeft_OneMore(o) == deliveries[o].deneme <= MAX_KOD_DENEME

TriesLeft(o) == deliveries[o].deneme < MAX_KOD_DENEME

\* The code the courier enters is compared with the code that was read: op is
\* "deliver" when they agree and "wrongCode" when they do not.
DeliverRead(r, o, u, op) ==
  /\ CourierOrder(o)
  /\ deliveries[o].yontem # "ARACI"
  /\ Holds(o, u)
  /\ deliveries[o].status = "PICKED_UP"
  /\ TriesLeft(o)
  /\ Remember(r, op, o, u, {})

WrongCodeCommit(r) ==
  /\ req[r].op = "wrongCode"
  /\ deliveries' = [deliveries EXCEPT ![req[r].ord].deneme = @ + 1]
  /\ UNCHANGED <<ledgerVars, orders, shopVars>>
  /\ Answer(r)

\* Escrow pays the seller, the platform and whoever called deliver.
SettleCredit(o, u) ==
  LET b == orders[o].basket
  IN Both(Line(Owner[BasketStore[b]], NetRevenue(b)),
          Both(Line(Platform, Commission(b)), Line(u, DeliveryFeeOf(b))))

SettleOk(o, u) ==
  CanPost(SettleRef(o), Line(Escrow, Total(orders[o].basket)), SettleCredit(o, u))

DeliverOk(r) ==
  LET o == req[r].ord
  IN /\ deliveries[o].status = "PICKED_UP"
     /\ ~deliveries[o].dogrulandi
     /\ orders[o].status = "ON_THE_WAY"
     /\ SettleOk(o, req[r].by)

DeliverCommit(r) ==
  LET o == req[r].ord
  IN /\ req[r].op = "deliver"
     /\ DeliverOk(r)
     /\ deliveries' = [deliveries EXCEPT ![o].dogrulandi = TRUE, ![o].status = "DELIVERED"]
     /\ orders' = [orders EXCEPT ![o].status = "DELIVERED", ![o].pay = "RELEASED"]
     /\ Post(SettleRef(o), Line(Escrow, Total(orders[o].basket)), SettleCredit(o, req[r].by))
     /\ UNCHANGED shopVars
     /\ Answer(r)

AraciRead(r, o) ==
  /\ orders[o] # NoRow
  /\ deliveries[o].status \notin {"DELIVERED", "CANCELLED"}
  /\ Remember(r, "aracikurum", o, NoUser, {})

\* Mistake: the order's status is not checked again.
AraciOk_AsRead(r) == TRUE

AraciOk(r) == orders[req[r].ord].status \in {"READY", "ON_THE_WAY"}

\* The courier who had claimed the delivery stays on it.
AraciCommit(r) ==
  /\ req[r].op = "aracikurum"
  /\ AraciOk(r)
  /\ orders' = [orders EXCEPT ![req[r].ord].status = "ON_THE_WAY"]
  /\ deliveries' = [deliveries EXCEPT ![req[r].ord].yontem = "ARACI",
                                      ![req[r].ord].status = "PICKED_UP"]
  /\ UNCHANGED <<ledgerVars, shopVars>>
  /\ Answer(r)

-----------------------------------------------------------------------------

\* The transaction throws and is rolled back: the caller gets the error.
Refused(r) ==
  /\ \/ req[r].op = "checkout" /\ ~CheckoutOk(r)
     \/ req[r].op = "cancel" /\ ~CancelOk(r)
     \/ req[r].op = "claim" /\ ~ClaimOk(r)
     \/ req[r].op = "pickup" /\ ~PickupOk(r)
     \/ req[r].op = "deliver" /\ ~DeliverOk(r)
     \/ req[r].op = "aracikurum" /\ ~AraciOk(r)
  /\ Answer(r)
  /\ UNCHANGED <<ledgerVars, orderVars, shopVars>>

\* A seller is suspended or reinstated, a shop closes or opens.
ToggleStore(s) ==
  /\ accepts' = [accepts EXCEPT ![s] = ~@]
  /\ UNCHANGED <<ledgerVars, orderVars, stock, cart, req>>

Finance == FinanceNext /\ UNCHANGED <<orderVars, shopVars, req>>

Init ==
  /\ LedgerInit
  /\ orders = [o \in Orders |-> NoRow]
  /\ deliveries = [o \in Orders |-> NoDelivery]
  /\ stock = OpeningStock
  /\ cart = OpeningCart
  /\ accepts = [s \in Stores |-> TRUE]
  /\ req = [r \in Requests |-> Idle]

Read(r) ==
  \/ \E c \in Customers : CheckoutRead(r, c)
  \/ \E o \in Orders : CancelRead(r, o) \/ AraciRead(r, o)
  \/ \E o \in Orders, u \in Carriers :
       \/ ClaimRead(r, o, u)
       \/ PickupRead(r, o, u)
       \/ \E op \in {"deliver", "wrongCode"} : DeliverRead(r, o, u, op)

Commit(r) ==
  \/ CheckoutCommit(r)
  \/ CancelCommit(r)
  \/ ClaimCommit(r)
  \/ PickupCommit(r)
  \/ WrongCodeCommit(r)
  \/ DeliverCommit(r)
  \/ AraciCommit(r)
  \/ Refused(r)

Next ==
  \/ \E r \in Requests : Read(r) \/ Commit(r)
  \/ \E o \in Orders, next \in OrderStatus : UpdateStatus(o, next)
  \/ \E s \in Suspendable : ToggleStore(s)
  \/ Finance

Spec == Init /\ [][Next]_vars

\* Handlers run to their end.  A store that has an order works on it, and a courier
\* who can take, pick up or hand over an order asks to and is let in again and
\* again (strongly fair: all of Requests may be busy meanwhile, which is a bound of
\* the model and none of the server).  Nobody has to cancel, to enter a wrong code
\* or to hand over to a carrier firm.
Fairness ==
  /\ \A r \in Requests : WF_vars(Commit(r))
  /\ \A o \in Orders :
       /\ WF_vars(\E next \in OrderStatus : UpdateStatus(o, next))
       /\ SF_vars(\E r \in Requests, u \in Carriers : ClaimRead(r, o, u))
       /\ SF_vars(\E r \in Requests, u \in Carriers : PickupRead(r, o, u))
       /\ SF_vars(\E r \in Requests, u \in Carriers : DeliverRead(r, o, u, "deliver"))

FairSpec == Spec /\ Fairness

-----------------------------------------------------------------------------
(* Types *)

OrderRow == [status : OrderStatus, pay : PaymentStatus, cust : Customers,
             basket : Baskets]
DeliveryRow == [status : DeliveryStatus, courier : Users \cup {NoUser},
                yontem : {"KENDI", "ARACI"}, deneme : Nat, dogrulandi : BOOLEAN]
Request == [op : Ops, ord : Orders \cup {NoOrder}, by : Users \cup {NoUser},
            baskets : SUBSET Baskets]

\* The rows hold what their columns may hold, and only the ledger's references
\* are posted.
TypeOK ==
  /\ balance \in [Wallets -> Int]
  /\ orders \in [Orders -> OrderRow \cup {NoRow}]
  /\ deliveries \in [Orders -> DeliveryRow \cup {NoDelivery}]
  /\ stock \in [Products -> Nat]
  /\ cart \in [Customers -> SUBSET Baskets]
  /\ accepts \in [Stores -> BOOLEAN]
  /\ req \in [Requests -> Request]

(* Safety *)

\* The escrow wallet holds exactly the totals of the orders that are paid and
\* neither delivered nor cancelled: no path forgets a payout or makes one twice.
EscrowHoldsOpenOrders ==
  LET open == {o \in Orders : orders[o].pay = "PAID"}
  IN balance[Escrow] - OpeningBalance[Escrow]
       = SumFunction([o \in open |-> Total(orders[o].basket)])

\* Every unit is on the shelf or in an order that was not cancelled: concurrent
\* checkouts of the last unit and cancellations neither oversell nor lose stock.
StockAccounted ==
  \A p \in Products :
    LET live == {o \in Orders : orders[o] # NoRow /\ orders[o].status # "CANCELLED"}
    IN OpeningStock[p] =
         stock[p] + SumFunction([o \in live |-> Needs[orders[o].basket][p]])

\* What the ledger has posted for an order is what its payment status says: the
\* ":settle" posting exactly when RELEASED, the ":refund" exactly when REFUNDED.
PayoutMatchesOrder ==
  \A o \in Orders :
    /\ SettleRef(o) \in posted <=> orders[o].pay = "RELEASED"
    /\ RefundRef(o) \in posted <=> orders[o].pay = "REFUNDED"
    /\ orders[o] # NoRow =>
         \E S \in SUBSET Orders : o \in S /\ PaymentRef(S) \in posted

\* The two tables agree although each handler checks only one of them again in
\* its transaction: a cancelled order has no live delivery, an order on the way
\* has been handed to a courier or to a carrier firm, and an order is DELIVERED
\* and its escrow RELEASED only with the delivery code confirmed.
DeliveryFollowsOrder ==
  \A o \in Orders :
    LET d == deliveries[o]
        s == orders[o].status
    IN /\ s = "NONE" <=> d.status = "NONE"
       /\ s \in {"CONFIRMED", "PREPARING"} => d.status = "PENDING"
       /\ s = "READY" => d.status \in {"PENDING", "ASSIGNED"}
       /\ s = "ON_THE_WAY" <=> d.status = "PICKED_UP"
       /\ s = "ON_THE_WAY" /\ d.yontem = "KENDI" => d.courier # NoUser
       /\ s = "DELIVERED" <=> d.status = "DELIVERED"
       /\ s = "CANCELLED" <=> d.status = "CANCELLED"
       /\ s = "DELIVERED" <=> d.dogrulandi
       /\ s = "DELIVERED" <=> orders[o].pay = "RELEASED"
       /\ s = "CANCELLED" <=> orders[o].pay = "REFUNDED"

\* The counter of wrong codes is compared on a row read earlier, so handlers that
\* overlap can pass the limit, but each of them at most once.
AttemptsBounded ==
  \A o \in Orders :
    deliveries[o].deneme <= MAX_KOD_DENEME + Cardinality(Requests) - 1

(* What a step may never do *)

\* A delivered or cancelled order stays so, with its delivery and its payment:
\* no handler that read it earlier brings it back.
TerminalForGood ==
  [][\A o \in Orders : orders[o].pay \in {"RELEASED", "REFUNDED"} =>
       /\ orders'[o] = orders[o]
       /\ deliveries'[o].status = deliveries[o].status]_vars

\* A delivery that a courier has claimed is never given to another one.
CourierKept ==
  [][\A o \in Orders : deliveries[o].courier # NoUser =>
       deliveries'[o].courier = deliveries[o].courier]_vars

\* When an order is delivered, its delivery fee goes to the courier who holds the
\* delivery, or to a super administrator who delivered in his place, and to nobody else:
\* apart from it, only the store's owner is paid, the net revenue.
FeeToHolder ==
  [][\A o \in Orders :
       LET b == orders[o].basket
       IN (orders[o].pay = "PAID" /\ orders'[o].pay = "RELEASED") =>
            \E u \in (SuperAdmins \cup {deliveries[o].courier}) \cap Users : \A w \in Users :
              balance'[w] - balance[w]
                = (IF w = Owner[BasketStore[b]] THEN NetRevenue(b) ELSE 0)
                  + (IF w = u THEN DeliveryFeeOf(b) ELSE 0)]_vars

(* What must happen *)

PaidOut(o) == orders[o].pay \in {"RELEASED", "REFUNDED"}

\* The money of an order outside CARSI does not stay in escrow: the order is
\* delivered or cancelled, unless the delivery was handed to a carrier firm or its
\* code was entered wrongly as often as is allowed, the only two dead ends there are.
OrderPaysOut ==
  \A o \in Orders :
    (orders[o].pay = "PAID" /\ ~IsCarsi(orders[o].basket)) ~>
      (PaidOut(o) \/ deliveries[o].yontem = "ARACI" \/ deliveries[o].deneme >= MAX_KOD_DENEME)

(* What comments of the code say and the code does not do *)

\* A delivery handed to a carrier firm cannot be completed by a courier
\* (delivery.service.ts, above the ARACI check of deliver).
AraciNotCompletedByCourier ==
  \A o \in Orders :
    deliveries[o].yontem = "ARACI" => orders[o].pay # "RELEASED"

\* The delivery of such an order is confirmed over its tracking number (same
\* comment), so it leaves the road again: its money is paid out in the end.
AraciPaysOut ==
  \A o \in Orders : (deliveries[o].yontem = "ARACI") ~> PaidOut(o)

(* The promise of EscrowPromise.tla, read off the ledger's references *)

MoneyOf(o) ==
  IF SettleRef(o) \in posted /\ RefundRef(o) \in posted THEN "paid out twice"
  ELSE IF SettleRef(o) \in posted THEN "released"
  ELSE IF RefundRef(o) \in posted THEN "refunded"
  ELSE IF \E S \in SUBSET Orders : o \in S /\ PaymentRef(S) \in posted THEN "held"
  ELSE "none"

EP == INSTANCE EscrowPromise WITH money <- [o \in Orders |-> MoneyOf(o)]

\* The ledger's postings keep the promise: taken as a whole, then paid out once.
KeepsPromise == EP!Promise
=============================================================================
