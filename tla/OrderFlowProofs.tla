--------------------------- MODULE OrderFlowProofs ---------------------------
(***************************************************************************)
(* Machine-checked proofs about OrderFlow, for every value of its          *)
(* constants.  IInv strengthens the properties to an inductive invariant:  *)
(* the two rows of an order are always in one of six joint states (RowsOK),*)
(* a handler between its read and its commit still knows something that    *)
(* cannot be undone (RequestsOK), and the references the ledger has posted *)
(* say what the payment status says (PostedOK).                            *)
(***************************************************************************)
EXTENDS OrderFlow, TLAPS, SumLemmas

Fresh(o) == orders[o] = NoRow /\ deliveries[o] = NoDelivery

Preparing(o) ==
  /\ orders[o].status \in {"CONFIRMED", "PREPARING"}
  /\ orders[o].pay = "PAID"
  /\ deliveries[o].status = "PENDING"
  /\ deliveries[o].courier = NoUser
  /\ deliveries[o].yontem = "KENDI"
  /\ deliveries[o].dogrulandi = FALSE

ReadyToGo(o) ==
  /\ orders[o].status = "READY"
  /\ orders[o].pay = "PAID"
  /\ \/ deliveries[o].status = "PENDING" /\ deliveries[o].courier = NoUser
     \/ deliveries[o].status = "ASSIGNED" /\ deliveries[o].courier # NoUser
  /\ deliveries[o].yontem = "KENDI"
  /\ deliveries[o].dogrulandi = FALSE

OnTheWay(o) ==
  /\ orders[o].status = "ON_THE_WAY"
  /\ orders[o].pay = "PAID"
  /\ deliveries[o].status = "PICKED_UP"
  /\ deliveries[o].yontem = "KENDI" => deliveries[o].courier # NoUser
  /\ deliveries[o].dogrulandi = FALSE

Delivered(o) ==
  /\ orders[o].status = "DELIVERED"
  /\ orders[o].pay = "RELEASED"
  /\ deliveries[o].status = "DELIVERED"
  /\ deliveries[o].dogrulandi = TRUE

Cancelled(o) ==
  /\ orders[o].status = "CANCELLED"
  /\ orders[o].pay = "REFUNDED"
  /\ deliveries[o].status = "CANCELLED"
  /\ deliveries[o].dogrulandi = FALSE

RowOK(o) ==
  \/ Fresh(o)
  \/ /\ orders[o] \in OrderRow /\ deliveries[o] \in DeliveryRow
     /\ \/ Preparing(o)
        \/ ReadyToGo(o)
        \/ OnTheWay(o)
        \/ Delivered(o)
        \/ Cancelled(o)

RowsOK == \A o \in Orders : RowOK(o)

RequestsOK ==
  \A r \in Requests :
    /\ req[r].op = "checkout" => req[r].by \in Customers /\ req[r].baskets # {}
    /\ req[r].op \in Ops \ {"idle", "checkout"} =>
         req[r].ord \in Orders /\ orders[req[r].ord] # NoRow
    /\ req[r].op \in {"claim", "deliver"} => req[r].by \in Users
    /\ req[r].op = "pickup" => deliveries[req[r].ord].courier # NoUser

Paid(o) == \E S \in SUBSET Orders : o \in S /\ PaymentRef(S) \in posted

PostedOK ==
  \A o \in Orders :
    /\ SettleRef(o) \in posted <=> orders[o].pay = "RELEASED"
    /\ RefundRef(o) \in posted <=> orders[o].pay = "REFUNDED"
    /\ Paid(o) <=> orders[o] # NoRow

IInv == TypeOK /\ RowsOK /\ RequestsOK /\ PostedOK

-----------------------------------------------------------------------------
(* The operators *)

\* What a cart takes of a product is a natural number.
LEMMA GroupNeedsNat ==
  ASSUME NEW bs \in SUBSET Baskets, NEW p \in Products
  PROVE  GroupNeeds(bs, p) \in Nat
<1>1. CASE \E b \in bs : BasketStore[b] = ProductStore[p]
  <2>1. (CHOOSE b \in bs : BasketStore[b] = ProductStore[p]) \in Baskets
    BY <1>1
  <2> QED BY <1>1, <2>1, GoodsAssumption DEF GroupNeeds
<1>2. CASE ~\E b \in bs : BasketStore[b] = ProductStore[p]
  BY <1>2 DEF GroupNeeds
<1> QED BY <1>1, <1>2

\* A posting that the ledger accepts keeps balances whole numbers.
LEMMA PostKeepsType ==
  ASSUME balance \in [Wallets -> Int],
         NEW ref, NEW debit, NEW credit,
         CanPost(ref, debit, credit), Post(ref, debit, credit)
  PROVE  balance' \in [Wallets -> Int]
<1>1. CASE ref \in posted
  BY <1>1 DEF Post, ledgerVars
<1>2. CASE ref \notin posted
  <2>1. \A w \in Wallets : debit[w] \in Nat /\ credit[w] \in Nat
    BY DEF CanPost, Balanced
  <2>2. balance' = [w \in Wallets |-> balance[w] - debit[w] + credit[w]]
    BY <1>2 DEF Post
  <2> QED BY <2>1, <2>2
<1> QED BY <1>1, <1>2

\* Whatever it is for, a posting adds its own reference and no other.
LEMMA PostAddsRef ==
  ASSUME NEW ref, NEW debit, NEW credit, Post(ref, debit, credit)
  PROVE  posted' = posted \cup {ref}
BY DEF Post, ledgerVars

\* A reference tells what it is for and which orders it is about.
LEMMA RefsDistinct ==
  /\ \A o, p : SettleRef(o) = SettleRef(p) => o = p
  /\ \A o, p : RefundRef(o) = RefundRef(p) => o = p
  /\ \A S, T : PaymentRef(S) = PaymentRef(T) => S = T
  /\ \A o, p : SettleRef(o) # RefundRef(p)
  /\ \A o, S : SettleRef(o) # PaymentRef(S) /\ RefundRef(o) # PaymentRef(S)
  /\ \A o, x : SettleRef(o) # ClientRef(x) /\ RefundRef(o) # ClientRef(x)
  /\ \A S, x : PaymentRef(S) # ClientRef(x)
BY DEF SettleRef, RefundRef, PaymentRef, ClientRef

-----------------------------------------------------------------------------
(* What a step has to leave alone for the three parts of IInv to survive *)

LEMMA RequestsKept ==
  ASSUME TypeOK, RequestsOK,
         req' = req \/ \E r \in Requests : Answer(r),
         \A o \in Orders : orders[o] # NoRow => orders'[o] # NoRow,
         \A o \in Orders : deliveries[o].courier # NoUser => deliveries'[o].courier # NoUser
  PROVE  RequestsOK' /\ req' \in [Requests -> Request]
<1>1. \A q \in Requests : req'[q] = req[q] \/ req'[q] = Idle
  BY DEF Answer, TypeOK
<1>2. req' \in [Requests -> Request]
  BY DEF Answer, TypeOK, Idle, Request, Ops
<1>3. ASSUME NEW q \in Requests
      PROVE  /\ req'[q].op = "checkout" => req'[q].by \in Customers /\ req'[q].baskets # {}
             /\ req'[q].op \in Ops \ {"idle", "checkout"} =>
                  req'[q].ord \in Orders /\ orders'[req'[q].ord] # NoRow
             /\ req'[q].op \in {"claim", "deliver"} => req'[q].by \in Users
             /\ req'[q].op = "pickup" => deliveries'[req'[q].ord].courier # NoUser
  <2>1. CASE req'[q] = Idle
    BY <2>1 DEF Idle, Ops
  <2>2. CASE req'[q] = req[q]
    BY <2>2 DEF RequestsOK, Ops
  <2> QED BY <1>1, <2>1, <2>2
<1> QED BY <1>2, <1>3 DEF RequestsOK

LEMMA PostedKept ==
  ASSUME PostedOK, posted' = posted,
         \A o \in Orders : orders'[o].pay = orders[o].pay,
         \A o \in Orders : orders'[o] = NoRow <=> orders[o] = NoRow
  PROVE  PostedOK'
BY DEF PostedOK, Paid, SettleRef, RefundRef, PaymentRef

-----------------------------------------------------------------------------
(* Init and the reads *)

LEMMA InitIInv == Init => IInv
<1> SUFFICES ASSUME Init PROVE IInv
  OBVIOUS
<1> USE DEF Init, LedgerInit
<1>1. TypeOK
  BY WalletsAssumption, PeopleAssumption, GoodsAssumption, CartsAssumption
  DEF TypeOK, Idle, Request, Ops, Wallets
<1>2. RowsOK
  BY DEF RowsOK, RowOK, Fresh
<1>3. RequestsOK
  BY DEF RequestsOK, Idle, Ops
<1>4. PostedOK
  BY DEF PostedOK, NoRow, Paid
<1> QED BY <1>1, <1>2, <1>3, <1>4 DEF IInv

\* A read changes nothing but the reader's own request.
LEMMA RememberStep ==
  ASSUME IInv, NEW r \in Requests, NEW op \in Ops \ {"idle"},
         NEW o \in Orders \cup {NoOrder}, NEW u \in Users \cup {NoUser},
         NEW bs \in SUBSET Baskets,
         Remember(r, op, o, u, bs),
         op = "checkout" => u \in Customers /\ bs # {},
         op # "checkout" => o \in Orders /\ orders[o] # NoRow,
         op \in {"claim", "deliver"} => u \in Users,
         op = "pickup" => deliveries[o].courier # NoUser
  PROVE  IInv'
<1> DEFINE new == [op |-> op, ord |-> o, by |-> u, baskets |-> bs]
<1>1. /\ req' = [req EXCEPT ![r] = new]
      /\ UNCHANGED <<balance, posted, orders, deliveries, stock, cart, accepts>>
  BY DEF Remember, ledgerVars, orderVars, shopVars
<1>2. new \in Request
  BY DEF Request
<1>3. TypeOK'
  BY <1>1, <1>2 DEF IInv, TypeOK
<1>4. RowsOK'
  BY <1>1 DEF IInv, RowsOK, RowOK, Fresh, Preparing, ReadyToGo, OnTheWay, Delivered, Cancelled
<1>5. RequestsOK'
  <2> SUFFICES ASSUME NEW q \in Requests
      PROVE  /\ req'[q].op = "checkout" => req'[q].by \in Customers /\ req'[q].baskets # {}
             /\ req'[q].op \in Ops \ {"idle", "checkout"} =>
                  req'[q].ord \in Orders /\ orders'[req'[q].ord] # NoRow
             /\ req'[q].op \in {"claim", "deliver"} => req'[q].by \in Users
             /\ req'[q].op = "pickup" => deliveries'[req'[q].ord].courier # NoUser
    BY DEF RequestsOK
  <2>1. CASE q = r
    <3>1. req'[q] = new
      BY <1>1, <2>1 DEF IInv, TypeOK
    <3> QED BY <1>1, <3>1
  <2>2. CASE q # r
    <3>1. req'[q] = req[q]
      BY <1>1, <2>2 DEF IInv, TypeOK
    <3> QED BY <1>1, <3>1 DEF IInv, RequestsOK
  <2> QED BY <2>1, <2>2
<1>6. PostedOK'
  BY <1>1 DEF IInv, PostedOK, Paid, SettleRef, RefundRef, PaymentRef
<1> QED BY <1>3, <1>4, <1>5, <1>6 DEF IInv

LEMMA ReadStep ==
  ASSUME IInv, NEW r \in Requests, Read(r)
  PROVE  IInv'
<1>1. ASSUME NEW c \in Customers, CheckoutRead(r, c) PROVE IInv'
  <2>1. cart[c] \in SUBSET Baskets /\ c \in Users /\ cart[c] # {}
    BY <1>1, PeopleAssumption DEF IInv, TypeOK, CheckoutRead
  <2>2. Remember(r, "checkout", NoOrder, c, cart[c])
    BY <1>1 DEF CheckoutRead
  <2> QED BY <2>1, <2>2, RememberStep DEF Ops
<1>2. ASSUME NEW o \in Orders, CancelRead(r, o) PROVE IInv'
  <2>1. orders[o] # NoRow
    BY <1>2 DEF CancelRead, CANCELABLE, NoRow
  <2>2. orders[o] \in OrderRow
    BY <2>1 DEF IInv, TypeOK
  <2>3. orders[o].cust \in Users /\ {orders[o].basket} \in SUBSET Baskets
    BY <2>2, PeopleAssumption DEF OrderRow
  <2>4. Remember(r, "cancel", o, orders[o].cust, {orders[o].basket})
    BY <1>2 DEF CancelRead
  <2> QED BY <2>1, <2>3, <2>4, RememberStep DEF Ops
<1>3. ASSUME NEW o \in Orders, AraciRead(r, o) PROVE IInv'
  <2>1. orders[o] # NoRow /\ Remember(r, "aracikurum", o, NoUser, {})
    BY <1>3 DEF AraciRead
  <2> QED BY <2>1, RememberStep DEF Ops
<1>4. ASSUME NEW o \in Orders, NEW u \in Carriers, ClaimRead(r, o, u) PROVE IInv'
  <2>1. orders[o] # NoRow /\ Remember(r, "claim", o, u, {}) /\ u \in Users
    BY <1>4, PeopleAssumption DEF ClaimRead, CourierOrder, Carriers
  <2> QED BY <2>1, RememberStep DEF Ops
<1>5. ASSUME NEW o \in Orders, NEW u \in Carriers, PickupRead(r, o, u) PROVE IInv'
  <2>1. orders[o] # NoRow /\ Remember(r, "pickup", o, u, {}) /\ u \in Users
    BY <1>5, PeopleAssumption DEF PickupRead, CourierOrder, Carriers
  <2>2. deliveries[o].status = "ASSIGNED"
    BY <1>5 DEF PickupRead
  <2>3. deliveries[o].courier # NoUser
    BY <2>1, <2>2
    DEF IInv, RowsOK, RowOK, Fresh, Preparing, ReadyToGo, OnTheWay, Delivered, Cancelled
  <2> QED BY <2>1, <2>3, RememberStep DEF Ops
<1>6. ASSUME NEW o \in Orders, NEW u \in Carriers, NEW op \in {"deliver", "wrongCode"},
             DeliverRead(r, o, u, op)
      PROVE  IInv'
  <2>1. orders[o] # NoRow /\ Remember(r, op, o, u, {}) /\ u \in Users
    BY <1>6, PeopleAssumption DEF DeliverRead, CourierOrder, Carriers
  <2>2. op \in Ops \ {"idle"} /\ op # "checkout" /\ op # "pickup"
    BY DEF Ops
  <2> QED BY <2>1, <2>2, RememberStep
<1> QED BY <1>1, <1>2, <1>3, <1>4, <1>5, <1>6 DEF Read

-----------------------------------------------------------------------------
(* The commits *)

\* A request whose operation works on an order knows that order.
LEMMA KnownOrder ==
  ASSUME IInv, NEW r \in Requests, req[r].op \in Ops \ {"idle", "checkout"}
  PROVE  /\ req[r].ord \in Orders
         /\ orders[req[r].ord] # NoRow
         /\ orders[req[r].ord] \in OrderRow
         /\ deliveries[req[r].ord] \in DeliveryRow
BY DEF IInv, RequestsOK, RowsOK, RowOK, Fresh

\* A row of an order is not the row of an order there is not.
LEMMA OrderRowIsSome ==
  ASSUME NEW row \in OrderRow
  PROVE  row # NoRow
BY DEF OrderRow, OrderStatus, NoRow

\* The orders a step does not touch keep their rows as they should be.
LEMMA OneRowChanges ==
  ASSUME RowsOK, NEW o \in Orders,
         \A p \in Orders \ {o} : orders'[p] = orders[p] /\ deliveries'[p] = deliveries[p],
         RowOK(o)'
  PROVE  RowsOK'
BY DEF RowsOK, RowOK, Fresh, Preparing, ReadyToGo, OnTheWay, Delivered, Cancelled

\* A step that moves one order along without paying it out.
LEMMA MovesAlong ==
  ASSUME IInv, NEW o \in Orders,
         orders[o] \in OrderRow, orders'[o] \in OrderRow, orders'[o].pay = orders[o].pay,
         deliveries[o].courier # NoUser => deliveries'[o].courier # NoUser,
         deliveries' \in [Orders -> DeliveryRow \cup {NoDelivery}],
         orders' \in [Orders -> OrderRow \cup {NoRow}],
         \A p \in Orders \ {o} : orders'[p] = orders[p] /\ deliveries'[p] = deliveries[p],
         RowOK(o)',
         UNCHANGED <<ledgerVars, shopVars>>,
         req' = req \/ \E r \in Requests : Answer(r)
  PROVE  IInv'
<1>1. \A p \in Orders : orders[p] # NoRow <=> orders'[p] # NoRow
  BY OrderRowIsSome
<1>2. RequestsOK' /\ req' \in [Requests -> Request]
  BY <1>1, RequestsKept DEF IInv
<1>3. PostedOK'
  BY <1>1, PostedKept DEF IInv, ledgerVars
<1>4. RowsOK'
  BY OneRowChanges DEF IInv
<1>5. TypeOK'
  BY <1>2 DEF IInv, TypeOK, ledgerVars, shopVars
<1> QED BY <1>2, <1>3, <1>4, <1>5 DEF IInv

LEMMA UpdateStatusStep ==
  ASSUME IInv, NEW o \in Orders, NEW next \in OrderStatus, UpdateStatus(o, next)
  PROVE  IInv'
<1>1. orders[o] \in OrderRow /\ deliveries[o] \in DeliveryRow
  BY DEF IInv, RowsOK, RowOK, Fresh, UpdateStatus
<1>2. orders' = [orders EXCEPT ![o].status = next] /\ deliveries' = deliveries
  BY DEF UpdateStatus
<1>3. /\ orders'[o] = [orders[o] EXCEPT !.status = next]
      /\ orders'[o] \in OrderRow
      /\ orders' \in [Orders -> OrderRow \cup {NoRow}]
  BY <1>1, <1>2 DEF IInv, TypeOK, OrderRow
<1>4. \/ orders[o].status = "PENDING" /\ next = "CONFIRMED"
      \/ orders[o].status = "CONFIRMED" /\ next = "PREPARING"
      \/ orders[o].status = "PREPARING" /\ next = "READY"
  BY <1>1 DEF UpdateStatus, NEXT_STATUS, OrderRow
<1>5. Preparing(o)
  BY <1>1, <1>4, OrderRowIsSome
  DEF IInv, RowsOK, RowOK, Fresh, Preparing, ReadyToGo, OnTheWay, Delivered, Cancelled
<1>6. RowOK(o)'
  BY <1>1, <1>2, <1>3, <1>4, <1>5 DEF RowOK, Preparing, ReadyToGo, OrderRow
<1>7. \A p \in Orders \ {o} : orders'[p] = orders[p] /\ deliveries'[p] = deliveries[p]
  BY <1>2 DEF IInv, TypeOK
<1>8. orders'[o].pay = orders[o].pay
  BY <1>1, <1>3 DEF OrderRow
<1>9. UNCHANGED <<ledgerVars, shopVars>> /\ req' = req
  BY DEF UpdateStatus
<1>10. deliveries' \in [Orders -> DeliveryRow \cup {NoDelivery}]
  BY <1>2 DEF IInv, TypeOK
<1> QED BY <1>1, <1>2, <1>3, <1>6, <1>7, <1>8, <1>9, <1>10, MovesAlong

LEMMA ClaimStep ==
  ASSUME IInv, NEW r \in Requests, ClaimCommit(r)
  PROVE  IInv'
<1>1. PICK o \in Orders, u \in Users :
        /\ req[r].ord = o /\ req[r].by = u
        /\ orders[o] \in OrderRow /\ deliveries[o] \in DeliveryRow
  BY KnownOrder DEF ClaimCommit, Ops, IInv, RequestsOK
<1>2. /\ deliveries' = [deliveries EXCEPT ![o].courier = u, ![o].status = "ASSIGNED"]
      /\ orders' = orders
      /\ UNCHANGED <<ledgerVars, shopVars>>
      /\ Answer(r)
  BY <1>1 DEF ClaimCommit
<1>3. /\ deliveries'[o] = [deliveries[o] EXCEPT !.courier = u, !.status = "ASSIGNED"]
      /\ deliveries'[o] \in DeliveryRow
      /\ deliveries' \in [Orders -> DeliveryRow \cup {NoDelivery}]
  BY <1>1, <1>2 DEF IInv, TypeOK, DeliveryRow, DeliveryStatus
<1>4. u # NoUser /\ deliveries'[o].courier = u /\ deliveries'[o].status = "ASSIGNED"
  <2>1. u # NoUser
    BY PeopleAssumption
  <2> QED BY <1>1, <1>3, <2>1 DEF DeliveryRow
<1>5. ReadyToGo(o)
  BY <1>1, OrderRowIsSome
  DEF ClaimCommit, ClaimOk, IInv, RowsOK, RowOK, Fresh, Preparing, ReadyToGo, OnTheWay,
      Delivered, Cancelled
<1>6. RowOK(o)'
  BY <1>1, <1>2, <1>3, <1>4, <1>5 DEF RowOK, ReadyToGo, DeliveryRow
<1>7. /\ \A p \in Orders \ {o} : orders'[p] = orders[p] /\ deliveries'[p] = deliveries[p]
      /\ orders' \in [Orders -> OrderRow \cup {NoRow}]
      /\ orders'[o] = orders[o]
      /\ deliveries'[o].courier # NoUser
  BY <1>1, <1>2, <1>4 DEF IInv, TypeOK
<1> QED BY <1>1, <1>2, <1>3, <1>6, <1>7, MovesAlong

LEMMA PickupStep ==
  ASSUME IInv, NEW r \in Requests, PickupCommit(r)
  PROVE  IInv'
<1>1. PICK o \in Orders :
        /\ req[r].ord = o
        /\ orders[o] \in OrderRow /\ deliveries[o] \in DeliveryRow
        /\ deliveries[o].courier # NoUser
  BY KnownOrder DEF PickupCommit, Ops, IInv, RequestsOK
<1>2. /\ orders' = [orders EXCEPT ![o].status = "ON_THE_WAY"]
      /\ deliveries' = [deliveries EXCEPT ![o].status = "PICKED_UP"]
      /\ UNCHANGED <<ledgerVars, shopVars>>
      /\ Answer(r)
  BY <1>1 DEF PickupCommit
<1>3. /\ deliveries'[o] = [deliveries[o] EXCEPT !.status = "PICKED_UP"]
      /\ deliveries'[o] \in DeliveryRow
      /\ deliveries' \in [Orders -> DeliveryRow \cup {NoDelivery}]
      /\ orders'[o] = [orders[o] EXCEPT !.status = "ON_THE_WAY"]
      /\ orders'[o] \in OrderRow
      /\ orders' \in [Orders -> OrderRow \cup {NoRow}]
  BY <1>1, <1>2
  DEF IInv, TypeOK, DeliveryRow, DeliveryStatus, OrderRow, OrderStatus
<1>4. ReadyToGo(o)
  BY <1>1, OrderRowIsSome
  DEF PickupCommit, PickupOk, IInv, RowsOK, RowOK, Fresh, Preparing, ReadyToGo, OnTheWay,
      Delivered, Cancelled
<1>5. RowOK(o)'
  BY <1>1, <1>3, <1>4 DEF RowOK, ReadyToGo, OnTheWay, DeliveryRow, OrderRow
<1>6. /\ \A p \in Orders \ {o} : orders'[p] = orders[p] /\ deliveries'[p] = deliveries[p]
      /\ orders'[o].pay = orders[o].pay
      /\ deliveries'[o].courier = deliveries[o].courier
  BY <1>1, <1>2, <1>3 DEF IInv, TypeOK, DeliveryRow, OrderRow
<1> QED BY <1>1, <1>2, <1>3, <1>5, <1>6, MovesAlong

LEMMA AraciStep ==
  ASSUME IInv, NEW r \in Requests, AraciCommit(r)
  PROVE  IInv'
<1>1. PICK o \in Orders :
        req[r].ord = o /\ orders[o] \in OrderRow /\ deliveries[o] \in DeliveryRow
  BY KnownOrder DEF AraciCommit, Ops
<1>2. /\ orders' = [orders EXCEPT ![o].status = "ON_THE_WAY"]
      /\ deliveries' = [deliveries EXCEPT ![o].yontem = "ARACI", ![o].status = "PICKED_UP"]
      /\ UNCHANGED <<ledgerVars, shopVars>>
      /\ Answer(r)
  BY <1>1 DEF AraciCommit
<1>3. /\ deliveries'[o] = [deliveries[o] EXCEPT !.yontem = "ARACI", !.status = "PICKED_UP"]
      /\ deliveries'[o] \in DeliveryRow
      /\ deliveries' \in [Orders -> DeliveryRow \cup {NoDelivery}]
      /\ orders'[o] = [orders[o] EXCEPT !.status = "ON_THE_WAY"]
      /\ orders'[o] \in OrderRow
      /\ orders' \in [Orders -> OrderRow \cup {NoRow}]
  BY <1>1, <1>2
  DEF IInv, TypeOK, DeliveryRow, DeliveryStatus, OrderRow, OrderStatus
<1>4. ReadyToGo(o) \/ OnTheWay(o)
  BY <1>1, OrderRowIsSome
  DEF AraciCommit, AraciOk, IInv, RowsOK, RowOK, Fresh, Preparing, ReadyToGo, OnTheWay,
      Delivered, Cancelled
<1>5. RowOK(o)'
  BY <1>1, <1>3, <1>4 DEF RowOK, ReadyToGo, OnTheWay, DeliveryRow, OrderRow
<1>6. /\ \A p \in Orders \ {o} : orders'[p] = orders[p] /\ deliveries'[p] = deliveries[p]
      /\ orders'[o].pay = orders[o].pay
      /\ deliveries'[o].courier = deliveries[o].courier
  BY <1>1, <1>2, <1>3 DEF IInv, TypeOK, DeliveryRow, OrderRow
<1> QED BY <1>1, <1>2, <1>3, <1>5, <1>6, MovesAlong

LEMMA WrongCodeStep ==
  ASSUME IInv, NEW r \in Requests, WrongCodeCommit(r)
  PROVE  IInv'
<1>1. PICK o \in Orders :
        req[r].ord = o /\ orders[o] \in OrderRow /\ deliveries[o] \in DeliveryRow
  BY KnownOrder DEF WrongCodeCommit, Ops
<1>2. /\ deliveries' = [deliveries EXCEPT ![o].deneme = @ + 1]
      /\ orders' = orders
      /\ UNCHANGED <<ledgerVars, shopVars>>
      /\ Answer(r)
  BY <1>1 DEF WrongCodeCommit
<1>3. /\ deliveries'[o] = [deliveries[o] EXCEPT !.deneme = @ + 1]
      /\ deliveries'[o] \in DeliveryRow
      /\ deliveries' \in [Orders -> DeliveryRow \cup {NoDelivery}]
  BY <1>1, <1>2 DEF IInv, TypeOK, DeliveryRow
<1>4. RowOK(o)'
  BY <1>1, <1>2, <1>3, OrderRowIsSome
  DEF IInv, RowsOK, RowOK, Fresh, Preparing, ReadyToGo, OnTheWay, Delivered, Cancelled,
      DeliveryRow
<1>5. /\ \A p \in Orders \ {o} : orders'[p] = orders[p] /\ deliveries'[p] = deliveries[p]
      /\ orders' \in [Orders -> OrderRow \cup {NoRow}]
      /\ deliveries'[o].courier = deliveries[o].courier
  BY <1>1, <1>2, <1>3 DEF IInv, TypeOK, DeliveryRow
<1> QED BY <1>1, <1>2, <1>3, <1>4, <1>5, MovesAlong

\* The references after an order leaves escrow in one of the two ways.
LEMMA PostedPaysOut ==
  ASSUME IInv, NEW o \in Orders, NEW ref,
         orders[o] \in OrderRow, orders'[o] \in OrderRow, orders[o].pay = "PAID",
         \/ ref = SettleRef(o) /\ orders'[o].pay = "RELEASED"
         \/ ref = RefundRef(o) /\ orders'[o].pay = "REFUNDED",
         posted' = posted \cup {ref},
         \A p \in Orders \ {o} : orders'[p] = orders[p]
  PROVE  PostedOK'
<1> SUFFICES ASSUME NEW p \in Orders
    PROVE  /\ SettleRef(p) \in posted' <=> orders'[p].pay = "RELEASED"
           /\ RefundRef(p) \in posted' <=> orders'[p].pay = "REFUNDED"
           /\ Paid(p)' <=> orders'[p] # NoRow
  BY DEF PostedOK, SettleRef, RefundRef
<1>1. /\ SettleRef(p) \in posted <=> orders[p].pay = "RELEASED"
      /\ RefundRef(p) \in posted <=> orders[p].pay = "REFUNDED"
      /\ Paid(p) <=> orders[p] # NoRow
  BY DEF IInv, PostedOK
<1>2. Paid(p)' <=> Paid(p)
  <2>1. \A S : PaymentRef(S) \in posted' <=> PaymentRef(S) \in posted
    BY RefsDistinct
  <2> QED BY <2>1 DEF Paid, PaymentRef
<1>3. orders[o] # NoRow /\ orders'[o] # NoRow
  BY OrderRowIsSome
<1>4. CASE p = o
  BY <1>1, <1>2, <1>3, <1>4, RefsDistinct
<1>5. CASE p # o
  BY <1>1, <1>2, <1>5, RefsDistinct
<1> QED BY <1>4, <1>5

LEMMA DeliverStep ==
  ASSUME IInv, NEW r \in Requests, DeliverCommit(r)
  PROVE  IInv'
<1>1. PICK o \in Orders, u \in Users :
        /\ req[r].ord = o /\ req[r].by = u
        /\ orders[o] \in OrderRow /\ deliveries[o] \in DeliveryRow
  BY KnownOrder DEF DeliverCommit, Ops, IInv, RequestsOK
<1> DEFINE debit == Line(Escrow, Total(orders[o].basket))
           credit == SettleCredit(o, u)
<1>2. /\ orders' = [orders EXCEPT ![o].status = "DELIVERED", ![o].pay = "RELEASED"]
      /\ deliveries' = [deliveries EXCEPT ![o].dogrulandi = TRUE, ![o].status = "DELIVERED"]
      /\ CanPost(SettleRef(o), debit, credit) /\ Post(SettleRef(o), debit, credit)
      /\ UNCHANGED shopVars
      /\ Answer(r)
  BY <1>1 DEF DeliverCommit, DeliverOk, SettleOk
<1>3. /\ deliveries'[o] = [deliveries[o] EXCEPT !.dogrulandi = TRUE, !.status = "DELIVERED"]
      /\ deliveries'[o] \in DeliveryRow
      /\ deliveries' \in [Orders -> DeliveryRow \cup {NoDelivery}]
      /\ orders'[o] = [orders[o] EXCEPT !.status = "DELIVERED", !.pay = "RELEASED"]
      /\ orders'[o] \in OrderRow
      /\ orders' \in [Orders -> OrderRow \cup {NoRow}]
  BY <1>1, <1>2
  DEF IInv, TypeOK, DeliveryRow, DeliveryStatus, OrderRow, OrderStatus, PaymentStatus
<1>4. OnTheWay(o)
  BY <1>1, OrderRowIsSome
  DEF DeliverCommit, DeliverOk, IInv, RowsOK, RowOK, Fresh, Preparing, ReadyToGo, OnTheWay,
      Delivered, Cancelled
<1>5. RowOK(o)'
  BY <1>1, <1>3 DEF RowOK, Delivered, DeliveryRow, OrderRow
<1>6. /\ \A p \in Orders \ {o} : orders'[p] = orders[p] /\ deliveries'[p] = deliveries[p]
      /\ orders'[o].pay = "RELEASED"
      /\ deliveries'[o].courier = deliveries[o].courier
  BY <1>1, <1>2, <1>3 DEF IInv, TypeOK, DeliveryRow, OrderRow
<1>7. RowsOK'
  BY <1>5, <1>6, OneRowChanges DEF IInv
<1>8. \A p \in Orders : orders[p] # NoRow => orders'[p] # NoRow
  BY <1>3, <1>6, OrderRowIsSome
<1>9. RequestsOK' /\ req' \in [Requests -> Request]
  BY <1>2, <1>6, <1>8, RequestsKept DEF IInv
<1>10. PostedOK'
  <2>1. posted' = posted \cup {SettleRef(o)}
    BY <1>2, PostAddsRef
  <2>2. orders[o].pay = "PAID"
    BY <1>4 DEF OnTheWay
  <2> QED BY <1>1, <1>3, <1>6, <2>1, <2>2, PostedPaysOut
<1>11. balance' \in [Wallets -> Int]
  BY <1>2, PostKeepsType DEF IInv, TypeOK
<1>12. TypeOK'
  BY <1>2, <1>3, <1>9, <1>11 DEF IInv, TypeOK, shopVars
<1> QED BY <1>7, <1>9, <1>10, <1>12 DEF IInv

LEMMA CancelStep ==
  ASSUME IInv, NEW r \in Requests, CancelCommit(r)
  PROVE  IInv'
<1>1. PICK o \in Orders :
        req[r].ord = o /\ orders[o] \in OrderRow /\ deliveries[o] \in DeliveryRow
  BY KnownOrder DEF CancelCommit, Ops
<1> DEFINE total == Total(orders[o].basket)
           debit == Line(Escrow, total)
           credit == Line(orders[o].cust, total)
           bs == req[r].baskets
<1>2. /\ orders' = [orders EXCEPT ![o].status = "CANCELLED", ![o].pay = "REFUNDED"]
      /\ deliveries' = [deliveries EXCEPT ![o].status = "CANCELLED"]
      /\ stock' = [p \in Products |-> stock[p] + GroupNeeds(bs, p)]
      /\ CanPost(RefundRef(o), debit, credit) /\ Post(RefundRef(o), debit, credit)
      /\ UNCHANGED <<cart, accepts>>
      /\ Answer(r)
  BY <1>1 DEF CancelCommit, CancelOk, RefundOk
<1>3. /\ deliveries'[o] = [deliveries[o] EXCEPT !.status = "CANCELLED"]
      /\ deliveries'[o] \in DeliveryRow
      /\ deliveries' \in [Orders -> DeliveryRow \cup {NoDelivery}]
      /\ orders'[o] = [orders[o] EXCEPT !.status = "CANCELLED", !.pay = "REFUNDED"]
      /\ orders'[o] \in OrderRow
      /\ orders' \in [Orders -> OrderRow \cup {NoRow}]
  BY <1>1, <1>2
  DEF IInv, TypeOK, DeliveryRow, DeliveryStatus, OrderRow, OrderStatus, PaymentStatus
<1>4. Preparing(o) \/ ReadyToGo(o)
  BY <1>1, OrderRowIsSome
  DEF CancelCommit, CancelOk, CANCELABLE, IInv, RowsOK, RowOK, Fresh, Preparing, ReadyToGo,
      OnTheWay, Delivered, Cancelled
<1>5. RowOK(o)'
  BY <1>1, <1>3, <1>4 DEF RowOK, Preparing, ReadyToGo, Cancelled, DeliveryRow, OrderRow
<1>6. /\ \A p \in Orders \ {o} : orders'[p] = orders[p] /\ deliveries'[p] = deliveries[p]
      /\ orders'[o].pay = "REFUNDED"
      /\ deliveries'[o].courier = deliveries[o].courier
  BY <1>1, <1>2, <1>3 DEF IInv, TypeOK, DeliveryRow, OrderRow
<1>7. RowsOK'
  BY <1>5, <1>6, OneRowChanges DEF IInv
<1>8. \A p \in Orders : orders[p] # NoRow => orders'[p] # NoRow
  BY <1>3, <1>6, OrderRowIsSome
<1>9. RequestsOK' /\ req' \in [Requests -> Request]
  BY <1>2, <1>6, <1>8, RequestsKept DEF IInv
<1>10. PostedOK'
  <2>1. posted' = posted \cup {RefundRef(o)}
    BY <1>2, PostAddsRef
  <2>2. orders[o].pay = "PAID"
    BY <1>4 DEF Preparing, ReadyToGo
  <2> QED BY <1>1, <1>3, <1>6, <2>1, <2>2, PostedPaysOut
<1>11. balance' \in [Wallets -> Int]
  BY <1>2, PostKeepsType DEF IInv, TypeOK
<1>12. stock' \in [Products -> Nat]
  <2>1. bs \in SUBSET Baskets
    BY DEF IInv, TypeOK, Request
  <2>2. \A p \in Products : GroupNeeds(bs, p) \in Nat
    BY <2>1, GroupNeedsNat
  <2> QED BY <1>2, <2>2 DEF IInv, TypeOK
<1>13. TypeOK'
  BY <1>2, <1>3, <1>9, <1>11, <1>12 DEF IInv, TypeOK
<1> QED BY <1>7, <1>9, <1>10, <1>13 DEF IInv

LEMMA CheckoutStep ==
  ASSUME IInv, NEW r \in Requests, CheckoutCommit(r)
  PROVE  IInv'
<1>1. PICK c \in Customers, bs \in SUBSET Baskets :
        req[r].by = c /\ req[r].baskets = bs /\ bs # {}
  BY DEF CheckoutCommit, IInv, TypeOK, Request, RequestsOK
<1>2. PICK place \in Numberings(bs) : PlaceOrders(c, bs, place)
  BY <1>1 DEF CheckoutCommit
<1>3. PICK S \in SUBSET Orders :
        /\ S = Range(place)
        /\ \A o \in S : orders[o] = NoRow
  <2>1. DOMAIN place = bs /\ \A b \in bs : place[b] \in FreeOrders
    BY DEF Numberings
  <2>2. \A o \in Range(place) : o \in Orders /\ orders[o] = NoRow
    BY <2>1 DEF Range, FreeOrders
  <2> QED BY <2>2
<1> DEFINE total == GroupTotal(bs)
           basket(o) == CHOOSE b \in bs : place[b] = o
<1>4. /\ orders' = [o \in Orders |-> IF o \in S THEN NewOrder(c, basket(o)) ELSE orders[o]]
      /\ deliveries' = [o \in Orders |-> IF o \in S THEN NewDelivery ELSE deliveries[o]]
      /\ CanPost(PaymentRef(S), Line(c, total), Line(Escrow, total))
      /\ Post(PaymentRef(S), Line(c, total), Line(Escrow, total))
  BY <1>2, <1>3 DEF PlaceOrders, PaymentOk
<1>5. /\ \A p \in Products : stock[p] >= GroupNeeds(bs, p)
      /\ stock' = [p \in Products |-> stock[p] - GroupNeeds(bs, p)]
      /\ cart' = [cart EXCEPT ![c] = {}]
      /\ accepts' = accepts
      /\ Answer(r)
  BY <1>1 DEF CheckoutCommit, InStock
<1>6. ASSUME NEW o \in S
      PROVE  /\ orders'[o] \in OrderRow /\ orders'[o] # NoRow /\ orders'[o].pay = "PAID"
             /\ deliveries'[o] \in DeliveryRow
             /\ RowOK(o)'
  <2>1. basket(o) \in Baskets
    BY <1>2, <1>3, <1>6 DEF Numberings, Range
  <2>2. orders'[o] = [status |-> "CONFIRMED", pay |-> "PAID", cust |-> c,
                      basket |-> basket(o)]
    BY <1>4 DEF NewOrder
  <2>3. orders'[o] \in OrderRow
    BY <2>1, <2>2 DEF OrderRow, OrderStatus, PaymentStatus
  <2>4. deliveries'[o] = [status |-> "PENDING", courier |-> NoUser, yontem |-> "KENDI",
                          deneme |-> 0, dogrulandi |-> FALSE]
    BY <1>4 DEF NewDelivery, NoDelivery
  <2>5. deliveries'[o] \in DeliveryRow
    BY <2>4 DEF DeliveryRow, DeliveryStatus
  <2>6. Preparing(o)'
    BY <2>2, <2>4 DEF Preparing
  <2>7. RowOK(o)'
    BY <2>3, <2>5, <2>6 DEF RowOK
  <2>8. orders'[o].pay = "PAID"
    BY <2>2
  <2> QED BY <2>3, <2>5, <2>7, <2>8, OrderRowIsSome
<1>7. \A o \in Orders \ S : orders'[o] = orders[o] /\ deliveries'[o] = deliveries[o]
  BY <1>4
<1>8. RowsOK'
  <2> SUFFICES ASSUME NEW o \in Orders PROVE RowOK(o)'
    BY DEF RowsOK
  <2>1. CASE o \in S
    BY <1>6, <2>1
  <2>2. CASE o \notin S
    BY <1>7, <2>2
    DEF IInv, RowsOK, RowOK, Fresh, Preparing, ReadyToGo, OnTheWay, Delivered, Cancelled
  <2> QED BY <2>1, <2>2
<1>9. RequestsOK' /\ req' \in [Requests -> Request]
  <2>1. \A o \in Orders : orders[o] # NoRow => orders'[o] # NoRow
    BY <1>6, <1>7
  <2>2. \A o \in Orders : deliveries[o].courier # NoUser => deliveries'[o].courier # NoUser
    <3>1. \A o \in S : deliveries[o].courier = NoUser
      BY <1>3, OrderRowIsSome DEF IInv, RowsOK, RowOK, Fresh, NoDelivery
    <3> QED BY <1>7, <3>1
  <2> QED BY <1>5, <2>1, <2>2, RequestsKept DEF IInv
<1>10. PostedOK'
  <2> SUFFICES ASSUME NEW p \in Orders
      PROVE  /\ SettleRef(p) \in posted' <=> orders'[p].pay = "RELEASED"
             /\ RefundRef(p) \in posted' <=> orders'[p].pay = "REFUNDED"
             /\ Paid(p)' <=> orders'[p] # NoRow
    BY DEF PostedOK, SettleRef, RefundRef
  <2>1. posted' = posted \cup {PaymentRef(S)}
    BY <1>4, PostAddsRef
  <2>2. /\ SettleRef(p) \in posted' <=> SettleRef(p) \in posted
        /\ RefundRef(p) \in posted' <=> RefundRef(p) \in posted
    BY <2>1, RefsDistinct
  <2>3. /\ SettleRef(p) \in posted <=> orders[p].pay = "RELEASED"
        /\ RefundRef(p) \in posted <=> orders[p].pay = "REFUNDED"
        /\ Paid(p) <=> orders[p] # NoRow
    BY DEF IInv, PostedOK
  <2>4. Paid(p)' <=> Paid(p) \/ p \in S
    <3>1. \A T : PaymentRef(T) \in posted' <=> PaymentRef(T) \in posted \/ T = S
      BY <2>1, RefsDistinct
    <3> QED BY <3>1 DEF Paid, PaymentRef
  <2>5. CASE p \in S
    <3>1. orders[p].pay = "NONE"
      BY <1>3, <2>5 DEF NoRow
    <3> QED BY <1>6, <2>2, <2>3, <2>4, <2>5, <3>1
  <2>6. CASE p \notin S
    BY <1>7, <2>2, <2>3, <2>4, <2>6
  <2> QED BY <2>5, <2>6
<1>11. stock' \in [Products -> Nat]
  <2>1. \A p \in Products : GroupNeeds(bs, p) \in Nat /\ stock[p] \in Nat
    BY GroupNeedsNat DEF IInv, TypeOK
  <2> QED BY <1>5, <2>1
<1>12. balance' \in [Wallets -> Int]
  BY <1>4, PostKeepsType DEF IInv, TypeOK
<1>13. /\ orders' \in [Orders -> OrderRow \cup {NoRow}]
       /\ deliveries' \in [Orders -> DeliveryRow \cup {NoDelivery}]
  <2>1. \A o \in Orders : /\ orders'[o] \in OrderRow \cup {NoRow}
                          /\ deliveries'[o] \in DeliveryRow \cup {NoDelivery}
    BY <1>6, <1>7 DEF IInv, TypeOK
  <2>2. /\ orders' = [o \in Orders |-> orders'[o]]
        /\ deliveries' = [o \in Orders |-> deliveries'[o]]
    BY <1>4
  <2> QED BY <2>1, <2>2
<1>14. cart' \in [Customers -> SUBSET Baskets] /\ accepts' \in [Stores -> BOOLEAN]
  BY <1>5 DEF IInv, TypeOK
<1>15. TypeOK'
  BY <1>9, <1>11, <1>12, <1>13, <1>14 DEF TypeOK
<1> QED BY <1>8, <1>9, <1>10, <1>15 DEF IInv

\* A step that leaves orders, deliveries and the orders' references alone.
LEMMA OrdersUntouched ==
  ASSUME IInv, orders' = orders, deliveries' = deliveries,
         req' = req \/ \E r \in Requests : Answer(r),
         balance' \in [Wallets -> Int],
         \A o : SettleRef(o) \in posted' <=> SettleRef(o) \in posted,
         \A o : RefundRef(o) \in posted' <=> RefundRef(o) \in posted,
         \A S : PaymentRef(S) \in posted' <=> PaymentRef(S) \in posted,
         UNCHANGED <<stock, cart>>, accepts' \in [Stores -> BOOLEAN]
  PROVE  IInv'
<1>1. RequestsOK' /\ req' \in [Requests -> Request]
  BY RequestsKept DEF IInv
<1>2. RowsOK'
  BY DEF IInv, RowsOK, RowOK, Fresh, Preparing, ReadyToGo, OnTheWay, Delivered, Cancelled
<1>3. PostedOK'
  BY DEF IInv, PostedOK, Paid, SettleRef, RefundRef, PaymentRef
<1>4. TypeOK'
  BY <1>1 DEF IInv, TypeOK
<1> QED BY <1>1, <1>2, <1>3, <1>4 DEF IInv

\* What clients post on their own is nobody's order.
LEMMA FinanceStep ==
  ASSUME IInv, Finance
  PROVE  IInv'
<1>1. PICK ref, debit, credit : ClientPost(ref, debit, credit)
  BY DEF Finance, FinanceNext, Topup, Withdraw, Transfer
<1>2. balance' \in [Wallets -> Int] /\ posted' = posted \cup {ClientRef(ref)}
  BY <1>1, PostKeepsType, PostAddsRef DEF ClientPost, IInv, TypeOK
<1>3. /\ \A o : SettleRef(o) \in posted' <=> SettleRef(o) \in posted
      /\ \A o : RefundRef(o) \in posted' <=> RefundRef(o) \in posted
      /\ \A S : PaymentRef(S) \in posted' <=> PaymentRef(S) \in posted
  BY <1>2, RefsDistinct
<1>4. UNCHANGED <<orders, deliveries, stock, cart, req>> /\ accepts' \in [Stores -> BOOLEAN]
  BY DEF Finance, orderVars, shopVars, IInv, TypeOK
<1> QED BY <1>2, <1>3, <1>4, OrdersUntouched

LEMMA IdleStep ==
  ASSUME IInv,
         \/ \E r \in Requests : Refused(r)
         \/ \E s \in Suspendable : ToggleStore(s)
         \/ UNCHANGED vars
  PROVE  IInv'
<1>1. /\ UNCHANGED <<balance, posted, orders, deliveries, stock, cart>>
      /\ req' = req \/ \E r \in Requests : Answer(r)
  BY DEF Refused, ToggleStore, vars, ledgerVars, orderVars, shopVars
<1>2. accepts' \in [Stores -> BOOLEAN]
  <2>1. accepts \in [Stores -> BOOLEAN]
    BY DEF IInv, TypeOK
  <2>2. ASSUME NEW s \in Suspendable, ToggleStore(s) PROVE accepts' \in [Stores -> BOOLEAN]
    <3>1. accepts' = [accepts EXCEPT ![s] = ~accepts[s]]
      BY <2>2 DEF ToggleStore
    <3> QED BY <2>1, <3>1, ZenonT(30)
  <2> QED BY <2>1, <2>2 DEF Refused, vars, shopVars
<1> QED BY <1>1, <1>2, OrdersUntouched DEF IInv, TypeOK, SettleRef, RefundRef, PaymentRef

LEMMA NextIInv ==
  ASSUME IInv, [Next]_vars
  PROVE  IInv'
<1>1. ASSUME NEW r \in Requests, Commit(r) PROVE IInv'
  BY <1>1, CheckoutStep, CancelStep, ClaimStep, PickupStep, WrongCodeStep, DeliverStep,
     AraciStep, IdleStep
  DEF Commit
<1>2. ASSUME NEW r \in Requests, Read(r) PROVE IInv'
  BY <1>2, ReadStep
<1>3. ASSUME NEW o \in Orders, NEW next \in OrderStatus, UpdateStatus(o, next) PROVE IInv'
  BY <1>3, UpdateStatusStep
<1>4. ASSUME NEW s \in Suspendable, ToggleStore(s) PROVE IInv'
  BY <1>4, IdleStep
<1>5. ASSUME Finance PROVE IInv'
  BY <1>5, FinanceStep
<1>6. ASSUME UNCHANGED vars PROVE IInv'
  BY <1>6, IdleStep
<1> QED BY <1>1, <1>2, <1>3, <1>4, <1>5, <1>6 DEF Next

-----------------------------------------------------------------------------
(* The theorems *)

\* IInv holds in every state the order system can reach.
THEOREM Invariant == Spec => []IInv
<1>1. Init => IInv
  BY InitIInv
<1>2. IInv /\ [Next]_vars => IInv'
  BY NextIInv
<1> QED BY <1>1, <1>2, PTL DEF Spec

\* Every row of orders and deliveries, every stock count (never negative) and every
\* balance stays within its column's values, whichever handlers overlap.
THEOREM TypeCorrect == Spec => []TypeOK
<1>1. IInv => TypeOK
  BY DEF IInv
<1> QED BY <1>1, Invariant, PTL

\* orders.service and delivery.service: payment status and ledger agree for every
\* number of orders and handlers: an order is RELEASED exactly when its ":settle"
\* posting exists and REFUNDED exactly when its ":refund" posting does.
THEOREM PayoutsAgree == Spec => []PayoutMatchesOrder
<1>1. IInv => PayoutMatchesOrder
  BY DEF IInv, PostedOK, Paid, PayoutMatchesOrder
<1> QED BY <1>1, Invariant, PTL

\* orders.service and delivery.service: the order's status and its delivery's status
\* fit together in every reachable state, although each handler checks again only
\* one of the two rows in its transaction.
THEOREM TablesAgree == Spec => []DeliveryFollowsOrder
<1>1. IInv => DeliveryFollowsOrder
  <2> SUFFICES ASSUME IInv, NEW o \in Orders
      PROVE  LET d == deliveries[o]
                 s == orders[o].status
             IN /\ s = "NONE" <=> d.status = "NONE"
                /\ s \in {"CONFIRMED", "PREPARING"} => d.status = "PENDING"
                /\ s = "READY" => d.status \in {"PENDING", "ASSIGNED"}
                /\ s = "ON_THE_WAY" <=> d.status = "PICKED_UP"
                /\ s = "ON_THE_WAY" /\ d.yontem = "KENDI" => d.courier # NoUser
                /\ s = "DELIVERED" <=> d.status = "DELIVERED"
                /\ s = "CANCELLED" <=> d.status = "CANCELLED"
                /\ s = "DELIVERED" <=> d.dogrulandi
                /\ s = "DELIVERED" <=> orders[o].pay = "RELEASED"
                /\ s = "CANCELLED" <=> orders[o].pay = "REFUNDED"
    BY DEF DeliveryFollowsOrder
  <2>1. RowOK(o)
    BY DEF IInv, RowsOK
  <2>2. CASE Fresh(o)
    BY <2>2 DEF Fresh, NoRow, NoDelivery
  <2>3. CASE Preparing(o)
    BY <2>3 DEF Preparing
  <2>4. CASE ReadyToGo(o)
    BY <2>4 DEF ReadyToGo
  <2>5. CASE OnTheWay(o)
    BY <2>5 DEF OnTheWay
  <2>6. CASE Delivered(o)
    BY <2>6 DEF Delivered
  <2>7. CASE Cancelled(o)
    BY <2>7 DEF Cancelled
  <2> QED BY <2>1, <2>2, <2>3, <2>4, <2>5, <2>6, <2>7 DEF RowOK
<1> QED BY <1>1, Invariant, PTL

-----------------------------------------------------------------------------
(* What a step does to an order *)

\* The steps that write one order's rows, and which order that is.
Writes(o) ==
  \/ \E next \in OrderStatus : UpdateStatus(o, next)
  \/ \E r \in Requests :
       /\ req[r].ord = o
       /\ \/ CancelCommit(r) \/ ClaimCommit(r) \/ PickupCommit(r)
          \/ WrongCodeCommit(r) \/ DeliverCommit(r) \/ AraciCommit(r)

\* Every step writes one order, places new ones, or leaves all their rows alone.
LEMMA StepWrites ==
  ASSUME IInv, [Next]_vars
  PROVE  \/ \E o \in Orders : orders[o] \in OrderRow /\ deliveries[o] \in DeliveryRow /\ Writes(o)
         \/ \E r \in Requests : CheckoutCommit(r)
         \/ orders' = orders /\ deliveries' = deliveries
<1>1. ASSUME NEW r \in Requests, Commit(r)
      PROVE  \/ \E o \in Orders : orders[o] \in OrderRow /\ deliveries[o] \in DeliveryRow /\ Writes(o)
             \/ CheckoutCommit(r)
             \/ orders' = orders /\ deliveries' = deliveries
  <2>1. CASE \/ CancelCommit(r) \/ ClaimCommit(r) \/ PickupCommit(r)
             \/ WrongCodeCommit(r) \/ DeliverCommit(r) \/ AraciCommit(r)
    <3>1. req[r].op \in Ops \ {"idle", "checkout"}
      BY <2>1
      DEF CancelCommit, ClaimCommit, PickupCommit, WrongCodeCommit, DeliverCommit,
          AraciCommit, Ops
    <3> QED BY <2>1, <3>1, KnownOrder DEF Writes
  <2>2. CASE Refused(r)
    BY <2>2 DEF Refused, orderVars
  <2> QED BY <1>1, <2>1, <2>2 DEF Commit
<1>2. ASSUME NEW o \in Orders, NEW next \in OrderStatus, UpdateStatus(o, next)
      PROVE  orders[o] \in OrderRow /\ deliveries[o] \in DeliveryRow /\ Writes(o)
  BY <1>2 DEF UpdateStatus, Writes, IInv, RowsOK, RowOK, Fresh
<1>3. ASSUME NEW r \in Requests, Read(r)
      PROVE  orders' = orders /\ deliveries' = deliveries
  BY <1>3
  DEF Read, CheckoutRead, CancelRead, AraciRead, ClaimRead, PickupRead, DeliverRead,
      Remember, orderVars
<1>4. CASE \/ \E s \in Suspendable : ToggleStore(s)
           \/ Finance
           \/ UNCHANGED vars
  BY <1>4 DEF ToggleStore, Finance, vars, orderVars
<1> QED BY <1>1, <1>2, <1>3, <1>4 DEF Next

\* What the steps on one order do to it, and that they do nothing to any other.
LEMMA OneOrderStep ==
  ASSUME IInv, NEW o \in Orders,
         orders[o] \in OrderRow, deliveries[o] \in DeliveryRow, Writes(o)
  PROVE  /\ \A p \in Orders \ {o} : orders'[p] = orders[p] /\ deliveries'[p] = deliveries[p]
         /\ \/ orders[o].pay = "PAID" /\ orders'[o].pay \in {"PAID", "RELEASED", "REFUNDED"}
            \/ orders'[o] = orders[o] /\ deliveries'[o].status = deliveries[o].status
         /\ deliveries[o].courier = NoUser \/ deliveries'[o].courier = deliveries[o].courier
<1>1. /\ orders \in [Orders -> OrderRow \cup {NoRow}]
      /\ deliveries \in [Orders -> DeliveryRow \cup {NoDelivery}]
  BY DEF IInv, TypeOK
<1>2. orders[o].status \in {"CONFIRMED", "PREPARING", "READY", "ON_THE_WAY"} =>
        orders[o].pay = "PAID"
  BY OrderRowIsSome
  DEF IInv, RowsOK, RowOK, Fresh, Preparing, ReadyToGo, OnTheWay, Delivered, Cancelled
<1>3. orders[o].status # "PENDING"
  BY OrderRowIsSome
  DEF IInv, RowsOK, RowOK, Fresh, Preparing, ReadyToGo, OnTheWay, Delivered, Cancelled
<1>4. ASSUME NEW next \in OrderStatus, UpdateStatus(o, next)
      PROVE  /\ orders' = [orders EXCEPT ![o].status = next]
             /\ deliveries' = deliveries
             /\ orders[o].status \in {"CONFIRMED", "PREPARING"}
  BY <1>3, <1>4 DEF UpdateStatus, NEXT_STATUS, OrderRow
<1>5. ASSUME NEW next \in OrderStatus, UpdateStatus(o, next)
      PROVE  /\ \A p \in Orders \ {o} : orders'[p] = orders[p] /\ deliveries'[p] = deliveries[p]
             /\ orders[o].pay = "PAID" /\ orders'[o].pay = "PAID"
             /\ deliveries'[o].courier = deliveries[o].courier
  BY <1>1, <1>2, <1>4, <1>5 DEF OrderRow
<1>6. ASSUME NEW r \in Requests, req[r].ord = o, CancelCommit(r)
      PROVE  /\ \A p \in Orders \ {o} : orders'[p] = orders[p] /\ deliveries'[p] = deliveries[p]
             /\ orders[o].pay = "PAID" /\ orders'[o].pay = "REFUNDED"
             /\ deliveries'[o].courier = deliveries[o].courier
  <2>1. /\ orders' = [orders EXCEPT ![o].status = "CANCELLED", ![o].pay = "REFUNDED"]
        /\ deliveries' = [deliveries EXCEPT ![o].status = "CANCELLED"]
        /\ orders[o].status \in {"CONFIRMED", "PREPARING", "READY"}
    BY <1>3, <1>6 DEF CancelCommit, CancelOk, CANCELABLE
  <2> QED BY <1>1, <1>2, <2>1 DEF OrderRow, DeliveryRow
<1>7. ASSUME NEW r \in Requests, req[r].ord = o, ClaimCommit(r)
      PROVE  /\ \A p \in Orders \ {o} : orders'[p] = orders[p] /\ deliveries'[p] = deliveries[p]
             /\ orders[o].pay = "PAID" /\ orders'[o].pay = "PAID"
             /\ deliveries[o].courier = NoUser
  <2>1. /\ orders' = orders
        /\ deliveries' = [deliveries EXCEPT ![o].courier = req[r].by, ![o].status = "ASSIGNED"]
        /\ orders[o].status = "READY" /\ deliveries[o].courier = NoUser
    BY <1>7 DEF ClaimCommit, ClaimOk
  <2> QED BY <1>1, <1>2, <2>1
<1>8. ASSUME NEW r \in Requests, req[r].ord = o, PickupCommit(r)
      PROVE  /\ \A p \in Orders \ {o} : orders'[p] = orders[p] /\ deliveries'[p] = deliveries[p]
             /\ orders[o].pay = "PAID" /\ orders'[o].pay = "PAID"
             /\ deliveries'[o].courier = deliveries[o].courier
  <2>1. /\ orders' = [orders EXCEPT ![o].status = "ON_THE_WAY"]
        /\ deliveries' = [deliveries EXCEPT ![o].status = "PICKED_UP"]
        /\ orders[o].status = "READY"
    BY <1>8 DEF PickupCommit, PickupOk
  <2> QED BY <1>1, <1>2, <2>1 DEF OrderRow, DeliveryRow
<1>9. ASSUME NEW r \in Requests, req[r].ord = o, WrongCodeCommit(r)
      PROVE  /\ \A p \in Orders \ {o} : orders'[p] = orders[p] /\ deliveries'[p] = deliveries[p]
             /\ orders'[o] = orders[o] /\ deliveries'[o].status = deliveries[o].status
             /\ deliveries'[o].courier = deliveries[o].courier
  <2>1. /\ orders' = orders
        /\ deliveries' = [deliveries EXCEPT ![o].deneme = @ + 1]
    BY <1>9 DEF WrongCodeCommit
  <2> QED BY <1>1, <2>1 DEF DeliveryRow
<1>10. ASSUME NEW r \in Requests, req[r].ord = o, DeliverCommit(r)
       PROVE  /\ \A p \in Orders \ {o} : orders'[p] = orders[p] /\ deliveries'[p] = deliveries[p]
              /\ orders[o].pay = "PAID" /\ orders'[o].pay = "RELEASED"
              /\ deliveries'[o].courier = deliveries[o].courier
  <2>1. /\ orders' = [orders EXCEPT ![o].status = "DELIVERED", ![o].pay = "RELEASED"]
        /\ deliveries' = [deliveries EXCEPT ![o].dogrulandi = TRUE, ![o].status = "DELIVERED"]
        /\ orders[o].status = "ON_THE_WAY"
    BY <1>10 DEF DeliverCommit, DeliverOk
  <2> QED BY <1>1, <1>2, <2>1 DEF OrderRow, DeliveryRow
<1>11. ASSUME NEW r \in Requests, req[r].ord = o, AraciCommit(r)
       PROVE  /\ \A p \in Orders \ {o} : orders'[p] = orders[p] /\ deliveries'[p] = deliveries[p]
              /\ orders[o].pay = "PAID" /\ orders'[o].pay = "PAID"
              /\ deliveries'[o].courier = deliveries[o].courier
  <2>1. /\ orders' = [orders EXCEPT ![o].status = "ON_THE_WAY"]
        /\ deliveries' = [deliveries EXCEPT ![o].yontem = "ARACI", ![o].status = "PICKED_UP"]
        /\ orders[o].status \in {"READY", "ON_THE_WAY"}
    BY <1>11 DEF AraciCommit, AraciOk
  <2> QED BY <1>1, <1>2, <2>1 DEF OrderRow, DeliveryRow
<1> QED BY <1>5, <1>6, <1>7, <1>8, <1>9, <1>10, <1>11 DEF Writes

\* What a checkout does to the orders: those it places were nobody's before.
LEMMA CheckoutPlaces ==
  ASSUME IInv, NEW r \in Requests, CheckoutCommit(r)
  PROVE  \E S \in SUBSET Orders :
           /\ S # {}
           /\ \A o \in S : orders[o] = NoRow /\ orders'[o].pay = "PAID"
           /\ \A o \in Orders \ S : orders'[o] = orders[o] /\ deliveries'[o] = deliveries[o]
<1> DEFINE c == req[r].by
           bs == req[r].baskets
<1>1. bs # {}
  BY DEF CheckoutCommit, IInv, RequestsOK
<1>2. PICK place \in Numberings(bs) : PlaceOrders(c, bs, place)
  BY DEF CheckoutCommit
<1> DEFINE S == Range(place)
<1>3. DOMAIN place = bs /\ \A b \in bs : place[b] \in FreeOrders
  BY DEF Numberings
<1>4. S # {} /\ \A o \in S : o \in Orders /\ orders[o] = NoRow
  BY <1>1, <1>3 DEF Range, FreeOrders
<1>5. /\ \A o \in S : orders'[o].pay = "PAID"
      /\ \A o \in Orders \ S : orders'[o] = orders[o] /\ deliveries'[o] = deliveries[o]
  BY <1>2, <1>4 DEF PlaceOrders, NewOrder
<1> QED BY <1>4, <1>5

\* cancel, deliver, pickup and aracikurumaVer: a row read before the transaction and
\* gone stale never brings a delivered or cancelled order back, nor its payment.
THEOREM TerminalStays == Spec => TerminalForGood
<1>1. ASSUME IInv, [Next]_vars, NEW o \in Orders, orders[o].pay \in {"RELEASED", "REFUNDED"}
      PROVE  orders'[o] = orders[o] /\ deliveries'[o].status = deliveries[o].status
  <2>1. ASSUME NEW p \in Orders,
               orders[p] \in OrderRow, deliveries[p] \in DeliveryRow, Writes(p)
        PROVE  orders'[o] = orders[o] /\ deliveries'[o].status = deliveries[o].status
    <3>1. CASE p = o
      BY <1>1, <2>1, <3>1, OneOrderStep
    <3>2. CASE p # o
      BY <1>1, <2>1, <3>2, OneOrderStep
    <3> QED BY <3>1, <3>2
  <2>2. ASSUME NEW r \in Requests, CheckoutCommit(r)
        PROVE  orders'[o] = orders[o] /\ deliveries'[o].status = deliveries[o].status
    BY <1>1, <2>2, CheckoutPlaces DEF NoRow
  <2> QED BY <1>1, <2>1, <2>2, StepWrites
<1>2. IInv /\ [Next]_vars =>
        [\A o \in Orders : orders[o].pay \in {"RELEASED", "REFUNDED"} =>
           /\ orders'[o] = orders[o]
           /\ deliveries'[o].status = deliveries[o].status]_vars
  BY <1>1
<1> QED BY <1>2, Invariant, PTL DEF Spec, TerminalForGood

LEMMA CourierStep ==
  ASSUME IInv, [Next]_vars, NEW o \in Orders, deliveries[o].courier # NoUser
  PROVE  deliveries'[o].courier = deliveries[o].courier
<1>1. ASSUME NEW p \in Orders,
             orders[p] \in OrderRow, deliveries[p] \in DeliveryRow, Writes(p)
      PROVE  deliveries'[o].courier = deliveries[o].courier
  <2>1. CASE p = o
    BY <1>1, <2>1, OneOrderStep
  <2>2. CASE p # o
    BY <1>1, <2>2, OneOrderStep
  <2> QED BY <2>1, <2>2
<1>2. ASSUME NEW r \in Requests, CheckoutCommit(r)
      PROVE  deliveries'[o].courier = deliveries[o].courier
  <2>1. orders[o] # NoRow
    BY OrderRowIsSome DEF IInv, RowsOK, RowOK, Fresh, NoDelivery
  <2> QED BY <1>2, <2>1, CheckoutPlaces
<1> QED BY <1>1, <1>2, StepWrites

\* claim's conditional update: a delivery that has a courier keeps him for good,
\* whoever read it as free before.
THEOREM CourierStays == Spec => CourierKept
<1>1. IInv /\ [Next]_vars =>
        [\A o \in Orders : deliveries[o].courier # NoUser =>
           deliveries'[o].courier = deliveries[o].courier]_vars
  BY CourierStep
<1> QED BY <1>1, Invariant, PTL DEF Spec, CourierKept

-----------------------------------------------------------------------------
(* Wallets *)

\* A posting that the ledger accepts leaves no user overdrawn.
LEMMA PostCovers ==
  ASSUME balance \in [Wallets -> Int], NoOverdraft,
         NEW ref, NEW debit, NEW credit,
         CanPost(ref, debit, credit), Post(ref, debit, credit)
  PROVE  NoOverdraft'
<1>1. CASE ref \in posted
  BY <1>1 DEF Post, ledgerVars, NoOverdraft
<1>2. CASE ref \notin posted
  <2>1. \A w \in Wallets : debit[w] \in Nat /\ credit[w] \in Nat /\ balance[w] \in Int
    BY DEF CanPost, Balanced
  <2>2. \A u \in Users : debit[u] > 0 => balance[u] >= debit[u]
    BY <1>2 DEF CanPost, Covered
  <2>3. \A w \in Wallets : balance'[w] = balance[w] - debit[w] + credit[w]
    BY <1>2 DEF Post
  <2>4. ASSUME NEW u \in Users PROVE balance'[u] >= 0
    <3>1. u \in Wallets /\ balance[u] >= 0
      BY DEF Wallets, NoOverdraft
    <3>2. CASE debit[u] > 0
      BY <2>1, <2>2, <2>3, <3>1, <3>2
    <3>3. CASE debit[u] = 0
      BY <2>1, <2>3, <3>1, <3>3
    <3> QED BY <2>1, <3>1, <3>2, <3>3
  <2> QED BY <2>4 DEF NoOverdraft
<1> QED BY <1>1, <1>2

\* A posting that the ledger accepts, its two sides given for every wallet.
Accepted(ref, debit, credit) ==
  /\ DOMAIN debit = Wallets /\ DOMAIN credit = Wallets
  /\ CanPost(ref, debit, credit) /\ Post(ref, debit, credit)

\* Every step changes the wallets by one accepted posting or not at all.
LEMMA StepPosts ==
  ASSUME [Next]_vars
  PROVE  (\E ref, debit, credit : Accepted(ref, debit, credit)) \/ UNCHANGED balance
<1>0. /\ \A w, a : DOMAIN Line(w, a) = Wallets
      /\ \A f, g : DOMAIN Both(f, g) = Wallets
      /\ \A o, u : DOMAIN SettleCredit(o, u) = Wallets
  BY DEF Line, Both, SettleCredit
<1>1. ASSUME NEW r \in Requests, CheckoutCommit(r)
      PROVE  \E ref, debit, credit : Accepted(ref, debit, credit)
  <2>1. PICK place \in Numberings(req[r].baskets) :
          PlaceOrders(req[r].by, req[r].baskets, place)
    BY <1>1 DEF CheckoutCommit
  <2> QED BY <1>0, <2>1 DEF PlaceOrders, PaymentOk, Accepted
<1>2. ASSUME NEW r \in Requests, CancelCommit(r) \/ DeliverCommit(r)
      PROVE  \E ref, debit, credit : Accepted(ref, debit, credit)
  BY <1>0, <1>2
  DEF CancelCommit, CancelOk, RefundOk, DeliverCommit, DeliverOk, SettleOk, Accepted
<1>3. ASSUME NEW r \in Requests, Read(r) \/ Commit(r)
      PROVE  CheckoutCommit(r) \/ CancelCommit(r) \/ DeliverCommit(r) \/ UNCHANGED balance
  BY <1>3
  DEF Read, CheckoutRead, CancelRead, AraciRead, ClaimRead, PickupRead, DeliverRead, Remember,
      Commit, ClaimCommit, PickupCommit, WrongCodeCommit, AraciCommit, Refused, ledgerVars
<1>4. ASSUME Finance
      PROVE  \E ref, debit, credit : Accepted(ref, debit, credit)
  <2>1. PICK ref, w, v, amount : ClientPost(ref, Line(w, amount), Line(v, amount))
    BY <1>4 DEF Finance, FinanceNext, Topup, Withdraw, Transfer
  <2> QED BY <1>0, <2>1 DEF ClientPost, Accepted
<1>5. CASE \/ \E o \in Orders, next \in OrderStatus : UpdateStatus(o, next)
           \/ \E s \in Suspendable : ToggleStore(s)
           \/ UNCHANGED vars
  BY <1>5 DEF UpdateStatus, ToggleStore, vars, ledgerVars
<1> QED BY <1>1, <1>2, <1>3, <1>4, <1>5 DEF Next

\* ledger.service through every caller: checkouts, refunds, settlements, transfers and
\* payouts that overlap never take a user's wallet below zero.
THEOREM NeverOverdrawn == Spec => []NoOverdraft
<1>1. Init => NoOverdraft
  BY WalletsAssumption DEF Init, LedgerInit, NoOverdraft
<1>2. ASSUME IInv, NoOverdraft, [Next]_vars
      PROVE  NoOverdraft'
  <2>1. balance \in [Wallets -> Int]
    BY <1>2 DEF IInv, TypeOK
  <2>2. ASSUME NEW ref, NEW debit, NEW credit, Accepted(ref, debit, credit)
        PROVE  NoOverdraft'
    BY <1>2, <2>1, <2>2, PostCovers DEF Accepted
  <2>3. CASE UNCHANGED balance
    BY <1>2, <2>3 DEF NoOverdraft
  <2> QED BY <1>2, <2>2, <2>3, StepPosts
<1>3. IInv /\ NoOverdraft /\ [Next]_vars => NoOverdraft'
  BY <1>2
<1> QED BY <1>1, <1>3, Invariant, PTL DEF Spec

-----------------------------------------------------------------------------
(* OrderFlow implements EscrowPromise *)

\* The payment status of an order, as the promise sees it.
MoneyByPay(p) ==
  IF p = "RELEASED" THEN "released"
  ELSE IF p = "REFUNDED" THEN "refunded"
  ELSE IF p = "PAID" THEN "held"
  ELSE "none"

\* In a reachable state the ledger's references say what the payment status says.
LEMMA MoneyIsPay == IInv => \A o \in Orders : MoneyOf(o) = MoneyByPay(orders[o].pay)
<1> SUFFICES ASSUME IInv, NEW o \in Orders PROVE MoneyOf(o) = MoneyByPay(orders[o].pay)
  OBVIOUS
<1>1. /\ SettleRef(o) \in posted <=> orders[o].pay = "RELEASED"
      /\ RefundRef(o) \in posted <=> orders[o].pay = "REFUNDED"
      /\ (\E S \in SUBSET Orders : o \in S /\ PaymentRef(S) \in posted) <=> orders[o] # NoRow
  BY DEF IInv, PostedOK, Paid
<1>2. orders[o] = NoRow => orders[o].pay = "NONE"
  BY DEF NoRow
<1>3. orders[o] # NoRow => orders[o].pay \in {"PAID", "RELEASED", "REFUNDED"}
  BY DEF IInv, RowsOK, RowOK, Fresh, Preparing, ReadyToGo, OnTheWay, Delivered, Cancelled
<1> QED BY <1>1, <1>2, <1>3 DEF MoneyOf, MoneyByPay

\* Payments, refunds and settlements in the ledger are a refinement of the promise:
\* whatever the handlers do at the same time, the money of an order is taken into
\* escrow together with the other orders of its cart, and then leaves it at most once,
\* to the seller's side or back to the customer (checkout, deliver, cancel).
THEOREM PromiseKept == Spec => KeepsPromise
<1> DEFINE m == [o \in Orders |-> MoneyOf(o)]
<1>1. Init => EP!PromiseInit
  BY DEF Init, LedgerInit, EP!PromiseInit, MoneyOf
<1>2. ASSUME IInv, IInv', [Next]_vars
      PROVE  EP!PromiseNext \/ m' = m
  <2>1. \A o \in Orders : MoneyOf(o) = MoneyByPay(orders[o].pay)
    BY <1>2, MoneyIsPay
  <2>2. \A o \in Orders : MoneyOf(o)' = MoneyByPay(orders'[o].pay)
    <3>1. (\A o \in Orders : MoneyOf(o) = MoneyByPay(orders[o].pay))'
      BY <1>2, MoneyIsPay, PTL
    <3> QED BY <3>1 DEF MoneyByPay
  <2>3. ASSUME NEW r \in Requests, CheckoutCommit(r)
        PROVE  EP!PromiseNext
    <3>1. PICK S \in SUBSET Orders :
            /\ S # {}
            /\ \A o \in S : orders[o] = NoRow /\ orders'[o].pay = "PAID"
            /\ \A o \in Orders \ S : orders'[o] = orders[o]
      BY <1>2, <2>3, CheckoutPlaces
    <3>2. \A o \in S : MoneyOf(o) = "none" /\ MoneyOf(o)' = "held"
      BY <2>1, <2>2, <3>1 DEF MoneyByPay, NoRow
    <3>3. \A o \in Orders \ S : MoneyOf(o)' = MoneyOf(o)
      BY <2>1, <2>2, <3>1
    <3>4. EP!Take(S)
      BY <3>1, <3>2, <3>3 DEF EP!Take
    <3> QED BY <3>4 DEF EP!PromiseNext
  <2>4. ASSUME NEW o \in Orders,
               orders[o] \in OrderRow, deliveries[o] \in DeliveryRow, Writes(o)
        PROVE  EP!PromiseNext \/ m' = m
    <3>1. \A p \in Orders \ {o} : MoneyOf(p)' = MoneyOf(p)
      BY <1>2, <2>1, <2>2, <2>4, OneOrderStep
    <3>2. \/ orders[o].pay = "PAID" /\ orders'[o].pay = "RELEASED"
          \/ orders[o].pay = "PAID" /\ orders'[o].pay = "REFUNDED"
          \/ orders'[o].pay = orders[o].pay
      BY <1>2, <2>4, OneOrderStep
    <3>3. CASE orders[o].pay = "PAID" /\ orders'[o].pay = "RELEASED"
      <4>1. MoneyOf(o) = "held" /\ MoneyOf(o)' = "released"
        BY <2>1, <2>2, <3>3 DEF MoneyByPay
      <4>2. EP!Release(o)
        BY <3>1, <4>1 DEF EP!Release
      <4> QED BY <4>2 DEF EP!PromiseNext
    <3>4. CASE orders[o].pay = "PAID" /\ orders'[o].pay = "REFUNDED"
      <4>1. MoneyOf(o) = "held" /\ MoneyOf(o)' = "refunded"
        BY <2>1, <2>2, <3>4 DEF MoneyByPay
      <4>2. EP!Refund(o)
        BY <3>1, <4>1 DEF EP!Refund
      <4> QED BY <4>2 DEF EP!PromiseNext
    <3>5. CASE orders'[o].pay = orders[o].pay
      BY <2>1, <2>2, <3>1, <3>5
    <3> QED BY <3>2, <3>3, <3>4, <3>5
  <2>5. CASE orders' = orders
    BY <2>1, <2>2, <2>5
  <2> QED BY <1>2, <2>3, <2>4, <2>5, StepWrites
<1>3. IInv /\ IInv' /\ [Next]_vars => [EP!PromiseNext]_m
  BY <1>2
<1> QED BY <1>1, <1>3, Invariant, PTL DEF Spec, KeepsPromise, EP!Promise

-----------------------------------------------------------------------------
(* The books balance: the wallets together keep what they had, the escrow wallet holds the  *)
(* totals of the open orders, every unit of stock is on the shelf or in a live order, and   *)
(* the counter of wrong codes stays within its bound.  These are facts about sums over all  *)
(* orders and all wallets; SumLemmas says how a sum changes when a step changes one of its  *)
(* terms or several.                                                                        *)

\* What an order accounts for: money in escrow, and units of a product.
Worth(rows) ==
  [o \in Orders |-> IF rows[o].pay = "PAID" THEN Total(rows[o].basket) ELSE 0]

Live(row) == row # NoRow /\ row.status # "CANCELLED"

Units(rows, p) ==
  [o \in Orders |-> IF Live(rows[o]) THEN Needs[rows[o].basket][p] ELSE 0]

EscrowBook ==
  balance[Escrow] - OpeningBalance[Escrow] = SumFunctionOnSet(Worth(orders), Orders)

StockBook ==
  \A p \in Products :
    OpeningStock[p] = stock[p] + SumFunctionOnSet(Units(orders, p), Orders)

\* Each handler that has a wrong code to count has seen the counter below its limit.
Wrong(o) == {r \in Requests : req[r].op = "wrongCode" /\ req[r].ord = o}

AttemptsBook ==
  \A o \in Orders :
    deliveries[o].deneme + Cardinality(Wrong(o))
      <= MAX_KOD_DENEME + Cardinality(Requests) - 1

OnePerStore(bs) == \A a, b \in bs : BasketStore[a] = BasketStore[b] => a = b

\* What a handler between its read and its commit still knows of baskets and couriers.
HandlersKnow ==
  \A r \in Requests :
    /\ req[r].op = "checkout" => OnePerStore(req[r].baskets)
    /\ req[r].op = "cancel" => req[r].baskets = {orders[req[r].ord].basket}
    /\ req[r].op = "deliver" => req[r].by \in SuperAdmins \cup {deliveries[req[r].ord].courier}

Books ==
  /\ MoneyConserved
  /\ EscrowBook
  /\ StockBook
  /\ AttemptsBook
  /\ \A c \in Customers : OnePerStore(cart[c])
  /\ HandlersKnow

-----------------------------------------------------------------------------
(* The ledger *)

LEMMA WalletsFinite == IsFiniteSet(Wallets)
<1>1. Wallets = (Users \cup {Escrow}) \cup {Platform}
  BY DEF Wallets
<1>2. IsFiniteSet(Users \cup {Escrow})
  BY WalletsAssumption, FS_AddElement
<1>3. IsFiniteSet((Users \cup {Escrow}) \cup {Platform})
  BY <1>2, FS_AddElement
<1> QED BY <1>1, <1>3

\* A posting that the ledger accepts moves money and makes none.
LEMMA PostConserves ==
  ASSUME balance \in [Wallets -> Int], NEW ref, NEW debit, NEW credit,
         DOMAIN debit = Wallets, DOMAIN credit = Wallets,
         CanPost(ref, debit, credit), Post(ref, debit, credit)
  PROVE  SumFunction(balance') = SumFunction(balance)
<1>1. CASE ref \in posted
  BY <1>1 DEF Post, ledgerVars
<1>2. CASE ref \notin posted
  <2>1. /\ \A w \in Wallets : debit[w] \in Nat /\ credit[w] \in Nat
        /\ SumFunction(debit) = SumFunction(credit)
    BY DEF CanPost, Balanced
  <2>2. balance' = [w \in Wallets |-> balance[w] - debit[w] + credit[w]]
    BY <1>2 DEF Post
  <2>3. \A w \in Wallets : /\ balance'[w] \in Int /\ debit[w] \in Int
                           /\ balance[w] \in Int /\ credit[w] \in Int
                           /\ balance'[w] + debit[w] = balance[w] + credit[w]
    BY <2>1, <2>2
  <2>4. SumFunctionOnSet(balance', Wallets) + SumFunctionOnSet(debit, Wallets)
          = SumFunctionOnSet(balance, Wallets) + SumFunctionOnSet(credit, Wallets)
    BY <2>3, WalletsFinite, SumsBalance
  <2>5. /\ SumFunction(balance') = SumFunctionOnSet(balance', Wallets)
        /\ SumFunction(balance) = SumFunctionOnSet(balance, Wallets)
        /\ SumFunction(debit) = SumFunctionOnSet(debit, Wallets)
        /\ SumFunction(credit) = SumFunctionOnSet(credit, Wallets)
    BY <2>2 DEF SumFunction
  <2>6. /\ SumFunctionOnSet(balance', Wallets) \in Int
        /\ SumFunctionOnSet(debit, Wallets) \in Int
        /\ SumFunctionOnSet(balance, Wallets) \in Int
    BY <2>3, WalletsFinite, SumIsInt
  <2>7. SumFunctionOnSet(debit, Wallets) = SumFunctionOnSet(credit, Wallets)
    BY <2>1, <2>5
  <2> DEFINE before == SumFunctionOnSet(balance, Wallets)
             after == SumFunctionOnSet(balance', Wallets)
             moved == SumFunctionOnSet(debit, Wallets)
  <2>8. after + moved = before + moved /\ after \in Int /\ before \in Int /\ moved \in Int
    BY <2>4, <2>6, <2>7
  <2> HIDE DEF before, after, moved
  <2>9. after = before
    BY <2>8
  <2> QED BY <2>5, <2>9 DEF before, after
<1> QED BY <1>1, <1>2

\* What a new reference does to one wallet.
LEMMA PostChanges ==
  ASSUME balance \in [Wallets -> Int], NEW ref, NEW debit, NEW credit, NEW w \in Wallets,
         CanPost(ref, debit, credit), Post(ref, debit, credit), ref \notin posted
  PROVE  /\ debit[w] \in Nat /\ credit[w] \in Nat
         /\ balance'[w] = balance[w] - debit[w] + credit[w]
BY DEF CanPost, Balanced, Post

-----------------------------------------------------------------------------
(* What baskets are worth and hold *)

LEMMA PricesAreNat ==
  ASSUME NEW b \in Baskets
  PROVE  /\ Total(b) \in Nat /\ DeliveryFeeOf(b) \in Nat
         /\ \A p \in Products : Needs[b][p] \in Nat
BY GoodsAssumption, LimitsAssumption DEF Total, DeliveryFeeOf

LEMMA RowsCount ==
  ASSUME NEW rows \in [Orders -> OrderRow \cup {NoRow}], NEW o \in Orders
  PROVE  Worth(rows)[o] \in Int /\ \A p \in Products : Units(rows, p)[o] \in Int
<1>1. CASE rows[o] \in OrderRow
  <2>1. rows[o].basket \in Baskets
    BY <1>1 DEF OrderRow
  <2> QED BY <2>1, PricesAreNat DEF Worth, Units
<1>2. CASE rows[o] = NoRow
  BY <1>2 DEF Worth, Units, Live, NoRow
<1> QED BY <1>1, <1>2

LEMMA GroupTotalIsSum ==
  ASSUME NEW bs \in SUBSET Baskets
  PROVE  GroupTotal(bs) = SumFunctionOnSet([b \in bs |-> Total(b)], bs)
BY DEF GroupTotal, SumFunction

\* What a cart takes of a product is what its baskets need of it together.
LEMMA GroupNeedsIsSum ==
  ASSUME NEW bs \in SUBSET Baskets, OnePerStore(bs), NEW p \in Products
  PROVE  GroupNeeds(bs, p) = SumFunctionOnSet([b \in bs |-> Needs[b][p]], bs)
<1> DEFINE v == [b \in bs |-> Needs[b][p]]
<1>1. IsFiniteSet(bs) /\ \A b \in bs : v[b] \in Int
  BY FiniteAssumption, PricesAreNat, FS_Subset
<1>2. \A b \in bs : BasketStore[b] # ProductStore[p] => v[b] = 0
  BY GoodsAssumption
<1>3. CASE \E b \in bs : BasketStore[b] = ProductStore[p]
  <2> DEFINE z == CHOOSE b \in bs : BasketStore[b] = ProductStore[p]
  <2>1. z \in bs /\ BasketStore[z] = ProductStore[p]
    BY <1>3
  <2>2. GroupNeeds(bs, p) = v[z]
    BY <1>3, <2>1 DEF GroupNeeds
  <2>3. \A b \in bs \ {z} : v[b] = 0
    BY <1>2, <2>1 DEF OnePerStore
  <2> HIDE DEF v, z
  <2>4. SumFunctionOnSet(v, bs) = SumFunctionOnSet(v, {z})
    BY <1>1, <2>1, <2>3, SumOfSupport
  <2>5. SumFunctionOnSet(v, {z}) = v[z]
    BY <1>1, <2>1, SumOfOne
  <2> QED BY <2>2, <2>4, <2>5 DEF v
<1>4. CASE ~ \E b \in bs : BasketStore[b] = ProductStore[p]
  <2>1. \A b \in bs : v[b] = 0
    BY <1>2, <1>4
  <2>2. GroupNeeds(bs, p) = 0
    BY <1>4 DEF GroupNeeds
  <2> HIDE DEF v
  <2>3. SumFunctionOnSet(v, bs) = 0
    BY <1>1, <2>1, SumOfZeros
  <2> QED BY <2>2, <2>3 DEF v
<1> QED BY <1>3, <1>4

\* Each of the baskets becomes an order of its own, and S is all of these orders.
Places(m, bs, S) ==
  /\ \A b \in bs : m[b] \in S
  /\ \A o \in S : \E b \in bs : o = m[b]
  /\ \A a, b \in bs : m[a] = m[b] => a = b

\* The sum over all orders once a cart's baskets have become orders.
LEMMA RowsAdded ==
  ASSUME NEW bs \in SUBSET Baskets, NEW m, NEW S \in SUBSET Orders, Places(m, bs, S),
         NEW f, NEW g, NEW v,
         \A o \in Orders : f[o] \in Int /\ g[o] \in Int,
         \A o \in Orders \ S : g[o] = f[o],
         \A o \in S : f[o] = 0,
         \A b \in bs : v[b] \in Int /\ g[m[b]] = v[b]
  PROVE  SumFunctionOnSet(g, Orders) = SumFunctionOnSet(f, Orders) + SumFunctionOnSet(v, bs)
<1> DEFINE c == [o \in Orders |-> IF o \in S THEN g[o] ELSE 0]
           none == [o \in Orders |-> 0]
<1>0. IsFiniteSet(Orders) /\ IsFiniteSet(bs)
  BY FiniteAssumption, FS_Subset
<1>1. \A o \in Orders : /\ g[o] \in Int /\ none[o] \in Int /\ f[o] \in Int /\ c[o] \in Int
                        /\ g[o] + none[o] = f[o] + c[o]
  OBVIOUS
<1>2. \A o \in Orders : none[o] = 0
  OBVIOUS
<1>11. \A b \in bs : m[b] \in S
  BY DEF Places
<1>3. \A o \in Orders \ S : c[o] = 0
  OBVIOUS
<1>4. \A b \in bs : v[b] \in Int /\ c[m[b]] = v[b]
  BY <1>11
<1> HIDE DEF c, none
<1>5. SumFunctionOnSet(g, Orders) + SumFunctionOnSet(none, Orders)
        = SumFunctionOnSet(f, Orders) + SumFunctionOnSet(c, Orders)
  BY <1>0, <1>1, SumsBalance
<1>6. SumFunctionOnSet(none, Orders) = 0
  BY <1>0, <1>2, SumOfZeros
<1>7. SumFunctionOnSet(c, Orders) = SumFunctionOnSet(c, S)
  BY <1>0, <1>1, <1>3, SumOfSupport
<1>8. SumFunctionOnSet(c, {m[b] : b \in bs}) = SumFunctionOnSet(v, bs)
  BY <1>0, <1>4, SumReindexed DEF Places
<1>9. SumFunctionOnSet(g, Orders) \in Int
  BY <1>0, <1>1, SumIsInt
<1>10. S = {m[b] : b \in bs}
  BY DEF Places
<1> QED BY <1>5, <1>6, <1>7, <1>8, <1>9, <1>10

-----------------------------------------------------------------------------
(* What a step does to the rows the books are kept of *)

\* No order changes what it accounts for.
Quiet ==
  /\ \A o \in Orders :
       /\ orders'[o].pay = orders[o].pay
       /\ orders'[o].basket = orders[o].basket
       /\ Live(orders'[o]) <=> Live(orders[o])
  /\ stock' = stock

LEMMA QuietWrite ==
  ASSUME IInv, NEW o \in Orders, orders[o] \in OrderRow,
         \/ \E next \in OrderStatus : UpdateStatus(o, next)
         \/ \E r \in Requests :
              /\ req[r].ord = o
              /\ ClaimCommit(r) \/ PickupCommit(r) \/ WrongCodeCommit(r) \/ AraciCommit(r)
  PROVE  Quiet /\ UNCHANGED <<balance, posted, cart>>
<1>0. orders \in [Orders -> OrderRow \cup {NoRow}]
  BY DEF IInv, TypeOK
<1>1. UNCHANGED <<balance, posted, cart, stock>>
  BY DEF UpdateStatus, ClaimCommit, PickupCommit, WrongCodeCommit, AraciCommit, ledgerVars,
         shopVars
<1>2. CASE orders' = orders
  BY <1>1, <1>2 DEF Quiet
<1>3. ASSUME NEW next \in OrderStatus \ {"CANCELLED"}, orders[o].status # "CANCELLED",
             orders' = [orders EXCEPT ![o].status = next]
      PROVE  Quiet
  <2>1. /\ orders'[o] \in OrderRow /\ orders'[o].status = next
        /\ orders'[o].pay = orders[o].pay /\ orders'[o].basket = orders[o].basket
        /\ \A p \in Orders \ {o} : orders'[p] = orders[p]
    BY <1>0, <1>3 DEF OrderRow
  <2>2. Live(orders'[o]) /\ Live(orders[o])
    BY <1>3, <2>1, OrderRowIsSome DEF Live
  <2>3. ASSUME NEW p \in Orders
        PROVE  /\ orders'[p].pay = orders[p].pay
               /\ orders'[p].basket = orders[p].basket
               /\ Live(orders'[p]) <=> Live(orders[p])
    <3>1. CASE p = o
      BY <2>1, <2>2, <3>1
    <3>2. CASE p # o
      BY <2>1, <3>2
    <3> QED BY <3>1, <3>2
  <2> QED BY <1>1, <2>3 DEF Quiet
<1>4. ASSUME NEW next \in OrderStatus, UpdateStatus(o, next) PROVE Quiet
  <2>1. /\ orders' = [orders EXCEPT ![o].status = next]
        /\ next \in {"CONFIRMED", "PREPARING", "READY"} /\ orders[o].status # "CANCELLED"
    BY <1>4 DEF UpdateStatus, NEXT_STATUS, OrderRow
  <2> QED BY <1>3, <2>1
<1>5. ASSUME NEW r \in Requests, req[r].ord = o, PickupCommit(r) \/ AraciCommit(r) PROVE Quiet
  <2>1. /\ orders' = [orders EXCEPT ![o].status = "ON_THE_WAY"]
        /\ orders[o].status \in {"READY", "ON_THE_WAY"}
    BY <1>5 DEF PickupCommit, AraciCommit, PickupOk, AraciOk
  <2> QED BY <1>3, <2>1 DEF OrderStatus
<1>6. ASSUME NEW r \in Requests, ClaimCommit(r) \/ WrongCodeCommit(r) PROVE orders' = orders
  BY <1>6 DEF ClaimCommit, WrongCodeCommit
<1> QED BY <1>1, <1>2, <1>4, <1>5, <1>6

Pays(r) == CheckoutCommit(r) \/ CancelCommit(r) \/ DeliverCommit(r)

LEMMA QuietStep ==
  ASSUME IInv, [Next]_vars, \A r \in Requests : ~Pays(r)
  PROVE  Quiet /\ (Finance \/ UNCHANGED <<balance, posted>>)
<1>1. ASSUME NEW o \in Orders, orders[o] \in OrderRow, Writes(o)
      PROVE  Quiet /\ UNCHANGED <<balance, posted>>
  BY <1>1, QuietWrite DEF Writes, Pays
<1>2. ASSUME UNCHANGED <<orders, stock>> PROVE Quiet
  BY <1>2 DEF Quiet
<1>3. ASSUME NEW r \in Requests, Read(r) PROVE UNCHANGED <<balance, posted, orders, stock>>
  BY <1>3
  DEF Read, CheckoutRead, CancelRead, AraciRead, ClaimRead, PickupRead, DeliverRead,
      Remember, orderVars, ledgerVars, shopVars
<1>4. ASSUME NEW r \in Requests, Commit(r)
      PROVE  (\E o \in Orders : orders[o] \in OrderRow /\ Writes(o)) \/ Refused(r)
  <2>1. CASE ClaimCommit(r) \/ PickupCommit(r) \/ WrongCodeCommit(r) \/ AraciCommit(r)
    <3>1. req[r].op \in Ops \ {"idle", "checkout"}
      BY <2>1 DEF ClaimCommit, PickupCommit, WrongCodeCommit, AraciCommit, Ops
    <3> QED BY <2>1, <3>1, KnownOrder DEF Writes
  <2> QED BY <1>4, <2>1 DEF Commit, Pays
<1>5. ASSUME NEW r \in Requests, Refused(r) PROVE UNCHANGED <<balance, posted, orders, stock>>
  BY <1>5 DEF Refused, orderVars, ledgerVars, shopVars
<1>6. ASSUME NEW o \in Orders, NEW next \in OrderStatus, UpdateStatus(o, next)
      PROVE  orders[o] \in OrderRow /\ Writes(o)
  BY <1>6 DEF UpdateStatus, Writes, IInv, RowsOK, RowOK, Fresh
<1>7. ASSUME NEW s \in Suspendable, ToggleStore(s)
      PROVE  UNCHANGED <<balance, posted, orders, stock>>
  BY <1>7 DEF ToggleStore, orderVars, ledgerVars
<1>8. ASSUME Finance PROVE UNCHANGED <<orders, stock>>
  BY <1>8 DEF Finance, orderVars, shopVars
<1>9. ASSUME UNCHANGED vars PROVE UNCHANGED <<balance, posted, orders, stock>>
  BY <1>9 DEF vars, orderVars, ledgerVars, shopVars
<1> QED BY <1>1, <1>2, <1>3, <1>4, <1>5, <1>6, <1>7, <1>8, <1>9 DEF Next

-----------------------------------------------------------------------------
(* Init, and the money of all wallets together *)

LEMMA InitBooks == Init => Books
<1> SUFFICES ASSUME Init PROVE Books
  OBVIOUS
<1>1. /\ balance = OpeningBalance /\ stock = OpeningStock /\ cart = OpeningCart
      /\ \A o \in Orders : orders[o] = NoRow /\ deliveries[o].deneme = 0
      /\ \A r \in Requests : req[r].op = "idle"
  BY DEF Init, LedgerInit, NoDelivery, Idle
<1>2. MoneyConserved
  BY <1>1 DEF MoneyConserved
<1>3. EscrowBook
  <2>1. \A o \in Orders : Worth(orders)[o] = 0
    BY <1>1 DEF Worth, NoRow
  <2>2. SumFunctionOnSet(Worth(orders), Orders) = 0
    BY <2>1, FiniteAssumption, SumOfZeros
  <2>3. balance[Escrow] \in Int
    BY <1>1, WalletsAssumption DEF Wallets
  <2> QED BY <1>1, <2>2, <2>3 DEF EscrowBook
<1>4. StockBook
  <2> SUFFICES ASSUME NEW p \in Products
      PROVE  OpeningStock[p] = stock[p] + SumFunctionOnSet(Units(orders, p), Orders)
    BY DEF StockBook
  <2>1. \A o \in Orders : Units(orders, p)[o] = 0
    BY <1>1 DEF Units, Live
  <2>2. SumFunctionOnSet(Units(orders, p), Orders) = 0
    BY <2>1, FiniteAssumption, SumOfZeros
  <2>3. stock[p] \in Int
    BY <1>1, GoodsAssumption
  <2> QED BY <1>1, <2>2, <2>3
<1>5. AttemptsBook
  <2> SUFFICES ASSUME NEW o \in Orders
      PROVE  deliveries[o].deneme + Cardinality(Wrong(o))
               <= MAX_KOD_DENEME + Cardinality(Requests) - 1
    BY DEF AttemptsBook
  <2>1. Wrong(o) = {}
    BY <1>1 DEF Wrong
  <2>2. Cardinality(Wrong(o)) = 0
    BY <2>1, FS_EmptySet
  <2>3. Cardinality(Requests) \in Nat /\ Cardinality(Requests) # 0
    BY FiniteAssumption, FS_CardinalityType, FS_EmptySet
  <2>4. MAX_KOD_DENEME \in Nat /\ deliveries[o].deneme = 0
    BY <1>1, LimitsAssumption
  <2> QED BY <2>2, <2>3, <2>4
<1>6. \A c \in Customers : OnePerStore(cart[c])
  BY <1>1, CartsAssumption DEF OnePerStore
<1>7. HandlersKnow
  BY <1>1 DEF HandlersKnow
<1> QED BY <1>2, <1>3, <1>4, <1>5, <1>6, <1>7 DEF Books

LEMMA MoneyStep ==
  ASSUME IInv, MoneyConserved, [Next]_vars
  PROVE  MoneyConserved'
<1>1. balance \in [Wallets -> Int]
  BY DEF IInv, TypeOK
<1>2. ASSUME NEW ref, NEW debit, NEW credit, Accepted(ref, debit, credit)
      PROVE  SumFunction(balance') = SumFunction(balance)
  BY <1>1, <1>2, PostConserves DEF Accepted
<1>3. SumFunction(balance') = SumFunction(balance)
  BY <1>2, StepPosts
<1> QED BY <1>3 DEF MoneyConserved

-----------------------------------------------------------------------------
(* Escrow and stock: steps that pay no order out and place none *)

\* What clients post on their own does not touch escrow.
LEMMA FinanceSparesEscrow ==
  ASSUME IInv, Finance
  PROVE  balance'[Escrow] = balance[Escrow]
<1>1. PICK w, v, amount, ref :
        /\ w \in Users \cup {Platform} /\ v \in Users \cup {Platform}
        /\ ClientPost(ref, Line(w, amount), Line(v, amount))
  BY DEF Finance, FinanceNext, Topup, Withdraw, Transfer
<1>2. Escrow \in Wallets /\ w # Escrow /\ v # Escrow
  BY <1>1, WalletsAssumption DEF Wallets
<1>3. Line(w, amount)[Escrow] = 0 /\ Line(v, amount)[Escrow] = 0
  BY <1>2 DEF Line
<1>4. balance[Escrow] \in Int
  BY <1>2 DEF IInv, TypeOK
<1> QED BY <1>1, <1>2, <1>3, <1>4 DEF ClientPost, Post, ledgerVars

LEMMA QuietBooks ==
  ASSUME IInv, EscrowBook, StockBook, Quiet, balance'[Escrow] = balance[Escrow]
  PROVE  EscrowBook' /\ StockBook'
<1>0. IsFiniteSet(Orders)
  BY FiniteAssumption
<1>1. \A o \in Orders : Worth(orders')[o] = Worth(orders)[o]
  BY DEF Quiet, Worth
<1>2. SumFunctionOnSet(Worth(orders'), Orders) = SumFunctionOnSet(Worth(orders), Orders)
  BY <1>0, <1>1, SumAgrees
<1>3. ASSUME NEW p \in Products
      PROVE  OpeningStock[p] = stock'[p] + SumFunctionOnSet(Units(orders', p), Orders)
  <2>1. \A o \in Orders : Units(orders', p)[o] = Units(orders, p)[o]
    BY DEF Quiet, Units
  <2>2. SumFunctionOnSet(Units(orders', p), Orders) = SumFunctionOnSet(Units(orders, p), Orders)
    BY <1>0, <2>1, SumAgrees
  <2> QED BY <2>2 DEF StockBook, Quiet
<1> QED BY <1>2, <1>3 DEF EscrowBook, StockBook

-----------------------------------------------------------------------------
(* Escrow and stock: payouts *)

\* Escrow gives out what the order was worth.
LEMMA EscrowPaysOut ==
  ASSUME IInv, IInv', EscrowBook, NEW o \in Orders, orders[o] \in OrderRow,
         orders[o].pay = "PAID", orders'[o].pay # "PAID",
         \A p \in Orders \ {o} : orders'[p] = orders[p],
         balance'[Escrow] = balance[Escrow] - Total(orders[o].basket)
  PROVE  EscrowBook'
<1> DEFINE f == Worth(orders)
           g == Worth(orders')
           before == SumFunctionOnSet(f, Orders)
           after == SumFunctionOnSet(g, Orders)
           total == Total(orders[o].basket)
<1>1. IsFiniteSet(Orders) /\ \A p \in Orders : f[p] \in Int /\ g[p] \in Int
  <2>1. orders \in [Orders -> OrderRow \cup {NoRow}] /\ orders' \in [Orders -> OrderRow \cup {NoRow}]
    BY DEF IInv, TypeOK
  <2>2. \A p \in Orders : f[p] \in Int
    BY <2>1, RowsCount
  <2>3. \A p \in Orders : g[p] \in Int
    BY <2>1, RowsCount
  <2> QED BY <2>2, <2>3, FiniteAssumption
<1>2. \A p \in Orders \ {o} : g[p] = f[p]
  BY DEF Worth
<1>3. f[o] = total /\ g[o] = 0
  BY DEF Worth
<1>4. balance[Escrow] - OpeningBalance[Escrow] = before
  BY DEF EscrowBook
<1>5. balance[Escrow] \in Int /\ OpeningBalance[Escrow] \in Int
  BY WalletsAssumption DEF IInv, TypeOK, Wallets
<1>6. total \in Int
  BY PricesAreNat DEF OrderRow
<1> HIDE DEF f, g, total
<1>7. after = before - f[o] + g[o]
  BY <1>1, <1>2, SumChangesAt
<1>8. before \in Int
  BY <1>1, SumIsInt
<1> HIDE DEF before, after
<1>9. balance'[Escrow] - OpeningBalance[Escrow] = after
  BY <1>3, <1>4, <1>5, <1>6, <1>7, <1>8 DEF total
<1> QED BY <1>9 DEF after, g, EscrowBook

LEMMA DeliverBooks ==
  ASSUME IInv, IInv', EscrowBook, StockBook, NEW r \in Requests, DeliverCommit(r)
  PROVE  EscrowBook' /\ StockBook'
<1>1. PICK o \in Orders, u \in Users :
        /\ req[r].ord = o /\ req[r].by = u
        /\ orders[o] \in OrderRow /\ deliveries[o] \in DeliveryRow
  BY KnownOrder DEF DeliverCommit, Ops, IInv, RequestsOK
<1> DEFINE b == orders[o].basket
           debit == Line(Escrow, Total(b))
           credit == SettleCredit(o, u)
<1>2. /\ orders' = [orders EXCEPT ![o].status = "DELIVERED", ![o].pay = "RELEASED"]
      /\ CanPost(SettleRef(o), debit, credit) /\ Post(SettleRef(o), debit, credit)
      /\ stock' = stock /\ orders[o].status = "ON_THE_WAY"
  BY <1>1 DEF DeliverCommit, DeliverOk, SettleOk, shopVars
<1>3. /\ orders'[o] = [orders[o] EXCEPT !.status = "DELIVERED", !.pay = "RELEASED"]
      /\ orders'[o].pay = "RELEASED" /\ orders'[o].status = "DELIVERED"
      /\ orders'[o].basket = b /\ orders'[o] \in OrderRow
      /\ \A p \in Orders \ {o} : orders'[p] = orders[p]
  BY <1>1, <1>2 DEF IInv, TypeOK, OrderRow, OrderStatus, PaymentStatus
<1>4. orders[o].pay = "PAID"
  BY <1>1, <1>2, OrderRowIsSome
  DEF IInv, RowsOK, RowOK, Fresh, Preparing, ReadyToGo, OnTheWay, Delivered, Cancelled
<1>5. balance'[Escrow] = balance[Escrow] - Total(b)
  <2>1. SettleRef(o) \notin posted
    BY <1>4 DEF IInv, PostedOK
  <2>2. Escrow \in Wallets /\ balance[Escrow] \in Int /\ Total(b) \in Int
    BY <1>1, PricesAreNat DEF IInv, TypeOK, Wallets, OrderRow
  <2>3. /\ Owner[BasketStore[b]] # Escrow /\ u # Escrow /\ Platform # Escrow
    <3>1. b \in Baskets
      BY <1>1 DEF OrderRow
    <3>2. Owner[BasketStore[b]] \in Users
      BY <3>1, GoodsAssumption, PeopleAssumption
    <3> QED BY <3>2, WalletsAssumption
  <2>4. credit[Escrow] = 0
    BY <2>2, <2>3 DEF SettleCredit, Both, Line
  <2>5. debit[Escrow] = Total(b)
    BY <2>2 DEF Line
  <2>6. balance'[Escrow] = balance[Escrow] - debit[Escrow] + credit[Escrow]
    BY <1>2, <2>1, <2>2, PostChanges DEF IInv, TypeOK
  <2> HIDE DEF debit, credit
  <2> QED BY <2>2, <2>4, <2>5, <2>6
<1>6. EscrowBook'
  BY <1>1, <1>3, <1>4, <1>5, EscrowPaysOut
<1>7. StockBook'
  <2> SUFFICES ASSUME NEW p \in Products
      PROVE  OpeningStock[p] = stock'[p] + SumFunctionOnSet(Units(orders', p), Orders)
    BY DEF StockBook
  <2>1. Live(orders'[o]) /\ Live(orders[o])
    BY <1>1, <1>2, <1>3, OrderRowIsSome DEF Live
  <2>2. Units(orders', p)[o] = Units(orders, p)[o]
    BY <1>3, <2>1 DEF Units
  <2>3. \A q \in Orders \ {o} : Units(orders', p)[q] = Units(orders, p)[q]
    BY <1>3 DEF Units
  <2>4. SumFunctionOnSet(Units(orders', p), Orders) = SumFunctionOnSet(Units(orders, p), Orders)
    BY <2>2, <2>3, FiniteAssumption, SumAgrees
  <2> QED BY <1>2, <2>4 DEF StockBook
<1> QED BY <1>6, <1>7

\* One basket needs on its own what the cart of it alone takes.
LEMMA OneBasketNeeds ==
  ASSUME NEW b \in Baskets, NEW p \in Products
  PROVE  GroupNeeds({b}, p) = Needs[b][p]
<1> DEFINE v == [a \in {b} |-> Needs[a][p]]
<1>1. OnePerStore({b}) /\ {b} \in SUBSET Baskets
  BY DEF OnePerStore
<1>2. GroupNeeds({b}, p) = SumFunctionOnSet(v, {b})
  BY <1>1, GroupNeedsIsSum
<1>3. v[b] = Needs[b][p] /\ v[b] \in Int
  BY PricesAreNat
<1> HIDE DEF v
<1>4. SumFunctionOnSet(v, {b}) = v[b]
  BY <1>3, SumOfOne
<1> QED BY <1>2, <1>3, <1>4

LEMMA CancelBooks ==
  ASSUME IInv, IInv', EscrowBook, StockBook, HandlersKnow, NEW r \in Requests, CancelCommit(r)
  PROVE  EscrowBook' /\ StockBook'
<1>1. PICK o \in Orders :
        req[r].ord = o /\ orders[o] \in OrderRow /\ deliveries[o] \in DeliveryRow
  BY KnownOrder DEF CancelCommit, Ops
<1> DEFINE b == orders[o].basket
           debit == Line(Escrow, Total(b))
           credit == Line(orders[o].cust, Total(b))
<1>2. /\ orders' = [orders EXCEPT ![o].status = "CANCELLED", ![o].pay = "REFUNDED"]
      /\ stock' = [p \in Products |-> stock[p] + GroupNeeds({b}, p)]
      /\ CanPost(RefundRef(o), debit, credit) /\ Post(RefundRef(o), debit, credit)
      /\ orders[o].status \in CANCELABLE
  BY <1>1 DEF CancelCommit, CancelOk, RefundOk, HandlersKnow
<1>3. /\ orders'[o] = [orders[o] EXCEPT !.status = "CANCELLED", !.pay = "REFUNDED"]
      /\ orders'[o].pay = "REFUNDED" /\ orders'[o].status = "CANCELLED"
      /\ \A p \in Orders \ {o} : orders'[p] = orders[p]
      /\ b \in Baskets /\ orders[o].cust \in Users
  <2>1. b \in Baskets /\ orders[o].cust \in Users
    BY <1>1, PeopleAssumption DEF OrderRow
  <2>2. orders'[o] = [orders[o] EXCEPT !.status = "CANCELLED", !.pay = "REFUNDED"]
    BY <1>2 DEF IInv, TypeOK
  <2>3. orders'[o].pay = "REFUNDED" /\ orders'[o].status = "CANCELLED"
    BY <1>1, <2>2 DEF OrderRow
  <2>4. \A p \in Orders \ {o} : orders'[p] = orders[p]
    BY <1>2 DEF IInv, TypeOK
  <2> QED BY <2>1, <2>2, <2>3, <2>4
<1>4. orders[o].pay = "PAID"
  BY <1>1, <1>2, OrderRowIsSome
  DEF CANCELABLE, IInv, RowsOK, RowOK, Fresh, Preparing, ReadyToGo, OnTheWay, Delivered,
      Cancelled
<1>5. balance'[Escrow] = balance[Escrow] - Total(b)
  <2>1. RefundRef(o) \notin posted
    BY <1>4 DEF IInv, PostedOK
  <2>2. Escrow \in Wallets /\ balance[Escrow] \in Int /\ Total(b) \in Int
    BY <1>3, PricesAreNat DEF IInv, TypeOK, Wallets
  <2>3. orders[o].cust # Escrow
    BY <1>3, WalletsAssumption
  <2>4. credit[Escrow] = 0 /\ debit[Escrow] = Total(b)
    BY <2>2, <2>3 DEF Line
  <2>5. balance'[Escrow] = balance[Escrow] - debit[Escrow] + credit[Escrow]
    BY <1>2, <2>1, <2>2, PostChanges DEF IInv, TypeOK
  <2> HIDE DEF debit, credit
  <2> QED BY <2>2, <2>4, <2>5
<1>6. EscrowBook'
  BY <1>1, <1>3, <1>4, <1>5, EscrowPaysOut
<1>7. ASSUME NEW p \in Products
      PROVE  OpeningStock[p] = stock'[p] + SumFunctionOnSet(Units(orders', p), Orders)
  <2> DEFINE f == Units(orders, p)
             g == Units(orders', p)
             before == SumFunctionOnSet(f, Orders)
             after == SumFunctionOnSet(g, Orders)
             old == stock[p]
             new == stock'[p]
             units == Needs[b][p]
  <2>1. Live(orders[o]) /\ ~Live(orders'[o])
    BY <1>1, <1>2, <1>3, OrderRowIsSome DEF Live, CANCELABLE
  <2>2. f[o] = units /\ g[o] = 0 /\ \A q \in Orders \ {o} : g[q] = f[q]
    BY <1>3, <2>1 DEF Units
  <2>3. new = old + units
    BY <1>2, <1>3, OneBasketNeeds
  <2>4. units \in Int /\ old \in Int
    BY <1>3, PricesAreNat DEF IInv, TypeOK
  <2>5. IsFiniteSet(Orders) /\ \A q \in Orders : f[q] \in Int /\ g[q] \in Int
    <3>1. /\ orders \in [Orders -> OrderRow \cup {NoRow}]
          /\ orders' \in [Orders -> OrderRow \cup {NoRow}]
      BY DEF IInv, TypeOK
    <3>2. \A q \in Orders : f[q] \in Int
      BY <3>1, RowsCount
    <3>3. \A q \in Orders : g[q] \in Int
      BY <3>1, RowsCount
    <3> QED BY <3>2, <3>3, FiniteAssumption
  <2>6. OpeningStock[p] = old + before
    BY DEF StockBook
  <2> HIDE DEF f, g, old, new, units
  <2>7. after = before - f[o] + g[o]
    BY <2>2, <2>5, SumChangesAt
  <2>8. before \in Int
    BY <2>5, SumIsInt
  <2> HIDE DEF before, after
  <2>9. OpeningStock[p] = new + after
    BY <2>2, <2>3, <2>4, <2>6, <2>7, <2>8
  <2> QED BY <2>9 DEF new, after, g
<1> QED BY <1>6, <1>7 DEF StockBook

-----------------------------------------------------------------------------
(* Escrow and stock: checkouts *)

LEMMA CheckoutBooks ==
  ASSUME IInv, IInv', EscrowBook, StockBook, HandlersKnow, NEW r \in Requests, CheckoutCommit(r)
  PROVE  EscrowBook' /\ StockBook'
<1>1. PICK c \in Customers, bs \in SUBSET Baskets :
        req[r].by = c /\ req[r].baskets = bs /\ bs # {} /\ OnePerStore(bs)
  BY DEF CheckoutCommit, IInv, TypeOK, Request, RequestsOK, HandlersKnow
<1>2. PICK place \in Numberings(bs) : PlaceOrders(c, bs, place)
  BY <1>1 DEF CheckoutCommit
<1>3. /\ DOMAIN place = bs
      /\ \A b \in bs : place[b] \in Orders /\ orders[place[b]] = NoRow
      /\ \A a, b \in bs : place[a] = place[b] => a = b
  BY DEF Numberings, FreeOrders
<1>4. PICK S \in SUBSET Orders :
        /\ S = Range(place) /\ S = {place[b] : b \in bs} /\ S # {}
        /\ \A o \in S : orders[o] = NoRow
  <2>1. Range(place) = {place[b] : b \in bs}
    BY <1>3 DEF Range
  <2>2. \A o \in {place[b] : b \in bs} : o \in Orders /\ orders[o] = NoRow
    BY <1>3
  <2>3. {place[b] : b \in bs} # {}
    BY <1>1
  <2> QED BY <2>1, <2>2, <2>3
<1> DEFINE total == GroupTotal(bs)
           debit == Line(c, total)
           credit == Line(Escrow, total)
           basket(o) == CHOOSE b \in bs : place[b] = o
<1>5. /\ orders' = [o \in Orders |-> IF o \in S THEN NewOrder(c, basket(o)) ELSE orders[o]]
      /\ CanPost(PaymentRef(S), debit, credit)
      /\ Post(PaymentRef(S), debit, credit)
      /\ \A p \in Products : stock[p] >= GroupNeeds(bs, p)
      /\ stock' = [p \in Products |-> stock[p] - GroupNeeds(bs, p)]
  BY <1>1, <1>2, <1>4 DEF PlaceOrders, PaymentOk, CheckoutCommit, InStock
<1>6. \A b \in bs : /\ orders'[place[b]].basket = b
                    /\ orders'[place[b]].pay = "PAID"
                    /\ Live(orders'[place[b]])
  <2> SUFFICES ASSUME NEW b \in bs
      PROVE  /\ orders'[place[b]].basket = b
             /\ orders'[place[b]].pay = "PAID"
             /\ Live(orders'[place[b]])
    OBVIOUS
  <2>1. place[b] \in S
    BY <1>4
  <2>2. basket(place[b]) = b
    BY <1>3
  <2>3. orders'[place[b]] = NewOrder(c, b)
    BY <1>5, <2>1, <2>2
  <2> QED BY <2>3 DEF NewOrder, Live, NoRow
<1>7. \A o \in Orders \ S : orders'[o] = orders[o]
  BY <1>5
<1>8. IsFiniteSet(bs) /\ \A b \in bs : b \in Baskets
  BY FiniteAssumption, FS_Subset
<1>9. /\ orders \in [Orders -> OrderRow \cup {NoRow}]
      /\ orders' \in [Orders -> OrderRow \cup {NoRow}]
  BY DEF IInv, TypeOK
<1> HIDE DEF basket
<1>13. Places(place, bs, S)
  BY <1>3, <1>4 DEF Places
<1>10. balance'[Escrow] = balance[Escrow] + total /\ total \in Int
  <2>1. PaymentRef(S) \notin posted
    <3>1. PICK o \in S : TRUE
      BY <1>4
    <3>2. ~Paid(o)
      BY <1>4, <3>1 DEF IInv, PostedOK
    <3> QED BY <3>2 DEF Paid
  <2>2. Escrow \in Wallets /\ balance[Escrow] \in Int /\ balance \in [Wallets -> Int]
    BY DEF IInv, TypeOK, Wallets
  <2>7. c # Escrow
    BY PeopleAssumption, WalletsAssumption
  <2>3. debit[Escrow] = 0 /\ credit[Escrow] = total
    BY <2>2, <2>7 DEF Line
  <2> HIDE DEF debit, credit, total
  <2>8. CanPost(PaymentRef(S), debit, credit) /\ Post(PaymentRef(S), debit, credit)
    BY <1>5
  <2>4. /\ balance'[Escrow] = balance[Escrow] - debit[Escrow] + credit[Escrow]
        /\ credit[Escrow] \in Nat
    BY <2>1, <2>2, <2>8, PostChanges
  <2> QED BY <2>2, <2>3, <2>4
<1>11. EscrowBook'
  <2> DEFINE f == Worth(orders)
             g == Worth(orders')
             v == [b \in bs |-> Total(b)]
             before == SumFunctionOnSet(f, Orders)
             after == SumFunctionOnSet(g, Orders)
  <2>1. \A o \in Orders : f[o] \in Int
    BY <1>9, RowsCount
  <2>2. \A o \in Orders : g[o] \in Int
    BY <1>9, RowsCount
  <2>3. \A o \in Orders \ S : g[o] = f[o]
    BY <1>7 DEF Worth
  <2>4. \A o \in S : f[o] = 0
    BY <1>4 DEF Worth, NoRow
  <2>5. \A b \in bs : v[b] \in Int /\ g[place[b]] = v[b]
    BY <1>3, <1>6, <1>8, PricesAreNat DEF Worth
  <2>6. total = SumFunctionOnSet(v, bs)
    BY GroupTotalIsSum
  <2>7. balance[Escrow] - OpeningBalance[Escrow] = before
    BY DEF EscrowBook
  <2>8. balance[Escrow] \in Int /\ OpeningBalance[Escrow] \in Int
    BY WalletsAssumption DEF IInv, TypeOK, Wallets
  <2> HIDE DEF f, g, v, total
  <2>9. after = before + SumFunctionOnSet(v, bs)
    BY <1>13, <2>1, <2>2, <2>3, <2>4, <2>5, RowsAdded
  <2>10. before \in Int
    BY <2>1, FiniteAssumption, SumIsInt
  <2> HIDE DEF before, after
  <2>11. balance'[Escrow] - OpeningBalance[Escrow] = after
    BY <1>10, <2>6, <2>7, <2>8, <2>9, <2>10
  <2> QED BY <2>11 DEF after, g, EscrowBook
<1>12. ASSUME NEW p \in Products
       PROVE  OpeningStock[p] = stock'[p] + SumFunctionOnSet(Units(orders', p), Orders)
  <2> DEFINE f == Units(orders, p)
             g == Units(orders', p)
             v == [b \in bs |-> Needs[b][p]]
             before == SumFunctionOnSet(f, Orders)
             after == SumFunctionOnSet(g, Orders)
             old == stock[p]
             new == stock'[p]
             taken == GroupNeeds(bs, p)
  <2>1. \A o \in Orders : f[o] \in Int
    BY <1>9, RowsCount
  <2>2. \A o \in Orders : g[o] \in Int
    BY <1>9, RowsCount
  <2>3. \A o \in Orders \ S : g[o] = f[o]
    BY <1>7 DEF Units
  <2>4. \A o \in S : f[o] = 0
    BY <1>4 DEF Units, Live
  <2>5. \A b \in bs : v[b] \in Int /\ g[place[b]] = v[b]
    BY <1>3, <1>6, <1>8, PricesAreNat DEF Units
  <2>6. taken = SumFunctionOnSet(v, bs)
    BY <1>1, GroupNeedsIsSum
  <2>7. OpeningStock[p] = old + before
    BY DEF StockBook
  <2>8. new = old - taken /\ old \in Int /\ taken \in Int
    BY <1>5, GroupNeedsNat DEF IInv, TypeOK
  <2> HIDE DEF f, g, v, old, new, taken
  <2>9. after = before + SumFunctionOnSet(v, bs)
    BY <1>13, <2>1, <2>2, <2>3, <2>4, <2>5, RowsAdded
  <2>10. before \in Int
    BY <2>1, FiniteAssumption, SumIsInt
  <2> HIDE DEF before, after
  <2>11. OpeningStock[p] = new + after
    BY <2>6, <2>7, <2>8, <2>9, <2>10
  <2> QED BY <2>11 DEF new, after, g
<1> QED BY <1>11, <1>12 DEF StockBook

-----------------------------------------------------------------------------
(* Handlers: what they hold, and the wrong codes they count *)

\* A handler forgets what it holds only when it answers, and learns only by reading.
LEMMA RequestStep ==
  ASSUME TypeOK, [Next]_vars, NEW q \in Requests
  PROVE  \/ req'[q] = req[q]
         \/ req'[q] = Idle
         \/ Read(q) /\ UNCHANGED <<orders, deliveries, cart>>
<1>1. ASSUME NEW r \in Requests, Read(r)
      PROVE  req'[q] = req[q] \/ (Read(q) /\ UNCHANGED <<orders, deliveries, cart>>)
  <2>1. /\ UNCHANGED <<orders, deliveries, cart>>
        /\ \E new : req' = [req EXCEPT ![r] = new]
    BY <1>1
    DEF Read, CheckoutRead, CancelRead, AraciRead, ClaimRead, PickupRead, DeliverRead,
        Remember, orderVars, shopVars
  <2>2. CASE q = r
    BY <1>1, <2>1, <2>2
  <2>3. CASE q # r
    BY <2>1, <2>3 DEF TypeOK
  <2> QED BY <2>2, <2>3
<1>2. ASSUME NEW r \in Requests, Commit(r) PROVE req'[q] = req[q] \/ req'[q] = Idle
  <2>1. Answer(r)
    BY <1>2
    DEF Commit, CheckoutCommit, CancelCommit, ClaimCommit, PickupCommit, WrongCodeCommit,
        DeliverCommit, AraciCommit, Refused
  <2> QED BY <2>1 DEF Answer, TypeOK
<1>3. CASE \/ \E o \in Orders, next \in OrderStatus : UpdateStatus(o, next)
           \/ \E s \in Suspendable : ToggleStore(s)
           \/ Finance
           \/ UNCHANGED vars
  BY <1>3 DEF UpdateStatus, ToggleStore, Finance, vars
<1> QED BY <1>1, <1>2, <1>3 DEF Next

LEMMA Remembered ==
  ASSUME TypeOK, NEW q \in Requests, NEW op, NEW o, NEW u, NEW bs, Remember(q, op, o, u, bs)
  PROVE  /\ req'[q].op = op /\ req'[q].ord = o
         /\ req'[q].by = u /\ req'[q].baskets = bs
BY DEF Remember, TypeOK

\* A step leaves the rest of an order's row alone that is about the basket.
LEMMA BasketStays ==
  ASSUME IInv, [Next]_vars, NEW o \in Orders, orders[o] # NoRow
  PROVE  orders'[o].basket = orders[o].basket
<1>1. ASSUME NEW r \in Requests, CancelCommit(r) \/ DeliverCommit(r)
      PROVE  orders'[o].basket = orders[o].basket
  <2>1. PICK p, status, pay :
          /\ p \in Orders
          /\ orders' = [orders EXCEPT ![p].status = status, ![p].pay = pay]
    <3>1. req[r].ord \in Orders
      BY <1>1, KnownOrder DEF CancelCommit, DeliverCommit, Ops
    <3>2. CASE CancelCommit(r)
      <4>1. orders' = [orders EXCEPT ![req[r].ord].status = "CANCELLED",
                                     ![req[r].ord].pay = "REFUNDED"]
        BY <3>2 DEF CancelCommit
      <4> QED BY <3>1, <4>1
    <3>3. CASE DeliverCommit(r)
      <4>1. orders' = [orders EXCEPT ![req[r].ord].status = "DELIVERED",
                                     ![req[r].ord].pay = "RELEASED"]
        BY <3>3 DEF DeliverCommit
      <4> QED BY <3>1, <4>1
    <3> QED BY <1>1, <3>2, <3>3
  <2>2. orders \in [Orders -> OrderRow \cup {NoRow}] /\ orders[o] \in OrderRow
    BY DEF IInv, TypeOK
  <2>3. CASE p = o
    BY <2>1, <2>2, <2>3 DEF OrderRow
  <2>4. CASE p # o
    BY <2>1, <2>2, <2>4
  <2> QED BY <2>3, <2>4
<1>2. ASSUME NEW r \in Requests, CheckoutCommit(r)
      PROVE  orders'[o].basket = orders[o].basket
  BY <1>2, CheckoutPlaces
<1>3. CASE \A r \in Requests : ~Pays(r)
  BY <1>3, QuietStep DEF Quiet
<1> QED BY <1>1, <1>2, <1>3 DEF Pays

LEMMA CartStep ==
  ASSUME IInv, \A c \in Customers : OnePerStore(cart[c]), [Next]_vars
  PROVE  \A c \in Customers : OnePerStore(cart'[c])
<1>1. ASSUME NEW r \in Requests, CheckoutCommit(r)
      PROVE  \A c \in Customers : cart'[c] = cart[c] \/ cart'[c] = {}
  BY <1>1 DEF CheckoutCommit, IInv, TypeOK
<1>2. ASSUME NEW r \in Requests, Read(r) \/ Commit(r)
      PROVE  CheckoutCommit(r) \/ cart' = cart
  BY <1>2
  DEF Read, CheckoutRead, CancelRead, AraciRead, ClaimRead, PickupRead, DeliverRead, Remember,
      Commit, CancelCommit, ClaimCommit, PickupCommit, WrongCodeCommit, DeliverCommit,
      AraciCommit, Refused, shopVars
<1>3. ASSUME \/ \E o \in Orders, next \in OrderStatus : UpdateStatus(o, next)
             \/ \E s \in Suspendable : ToggleStore(s)
             \/ Finance
             \/ UNCHANGED vars
      PROVE  cart' = cart
  BY <1>3 DEF UpdateStatus, ToggleStore, Finance, vars, shopVars
<1>4. cart' = cart \/ \E r \in Requests : CheckoutCommit(r)
  BY <1>2, <1>3 DEF Next
<1>6. \A c \in Customers : cart'[c] = cart[c] \/ cart'[c] = {}
  BY <1>1, <1>4
<1>5. OnePerStore({})
  BY DEF OnePerStore
<1> QED BY <1>5, <1>6

LEMMA HandlersStep ==
  ASSUME IInv, \A c \in Customers : OnePerStore(cart[c]), HandlersKnow, [Next]_vars
  PROVE  HandlersKnow'
<1> SUFFICES ASSUME NEW q \in Requests
    PROVE  /\ req'[q].op = "checkout" => OnePerStore(req'[q].baskets)
           /\ req'[q].op = "cancel" => req'[q].baskets = {orders'[req'[q].ord].basket}
           /\ req'[q].op = "deliver" =>
                req'[q].by \in SuperAdmins \cup {deliveries'[req'[q].ord].courier}
  BY DEF HandlersKnow, OnePerStore
<1>1. CASE req'[q] = Idle
  BY <1>1 DEF Idle
<1>2. CASE req'[q] = req[q]
  <2>1. /\ req[q].op = "checkout" => OnePerStore(req[q].baskets)
        /\ req[q].op = "cancel" => req[q].baskets = {orders[req[q].ord].basket}
        /\ req[q].op = "deliver" =>
             req[q].by \in SuperAdmins \cup {deliveries[req[q].ord].courier}
    BY DEF HandlersKnow
  <2>2. ASSUME req[q].op \in {"cancel", "deliver"}
        PROVE  /\ req[q].ord \in Orders /\ orders[req[q].ord] # NoRow
               /\ req[q].op = "deliver" => req[q].by # NoUser
    <3>1. req[q].op \in Ops \ {"idle", "checkout"} /\ NoUser \notin Users
      BY <2>2, PeopleAssumption DEF Ops
    <3> QED BY <3>1 DEF IInv, RequestsOK
  <2>3. CASE req[q].op = "cancel"
    <3>1. orders'[req[q].ord].basket = orders[req[q].ord].basket
      BY <2>2, <2>3, BasketStays
    <3> QED BY <1>2, <2>1, <2>3, <3>1
  <2>4. CASE req[q].op = "deliver"
    <3>1. CASE req[q].by \in SuperAdmins
      BY <1>2, <2>4, <3>1
    <3>2. CASE req[q].by = deliveries[req[q].ord].courier
      <4>1. deliveries'[req[q].ord].courier = deliveries[req[q].ord].courier
        BY <2>2, <2>4, <3>2, CourierStep
      <4> QED BY <1>2, <2>4, <3>2, <4>1
    <3> QED BY <2>1, <2>4, <3>1, <3>2
  <2> QED BY <1>2, <2>1, <2>3, <2>4
<1>3. CASE Read(q) /\ UNCHANGED <<orders, deliveries, cart>>
  <2>1. TypeOK
    BY DEF IInv
  <2>2. ASSUME NEW c \in Customers, CheckoutRead(q, c)
        PROVE  req'[q].op = "checkout" /\ OnePerStore(req'[q].baskets)
    BY <2>1, <2>2, Remembered DEF CheckoutRead
  <2>3. ASSUME NEW o \in Orders, CancelRead(q, o)
        PROVE  req'[q].op = "cancel" /\ req'[q].baskets = {orders'[req'[q].ord].basket}
    BY <1>3, <2>1, <2>3, Remembered DEF CancelRead
  <2>4. ASSUME NEW o \in Orders, NEW u \in Carriers,
               AraciRead(q, o) \/ ClaimRead(q, o, u) \/ PickupRead(q, o, u)
        PROVE  req'[q].op \in {"aracikurum", "claim", "pickup"}
    BY <2>1, <2>4, Remembered DEF AraciRead, ClaimRead, PickupRead
  <2>5. ASSUME NEW o \in Orders, AraciRead(q, o) PROVE req'[q].op = "aracikurum"
    BY <2>1, <2>5, Remembered DEF AraciRead
  <2>6. ASSUME NEW o \in Orders, NEW u \in Carriers, NEW op \in {"deliver", "wrongCode"},
               DeliverRead(q, o, u, op)
        PROVE  /\ req'[q].op = op
               /\ req'[q].by \in SuperAdmins \cup {deliveries'[req'[q].ord].courier}
    BY <1>3, <2>1, <2>6, Remembered DEF DeliverRead, Holds
  <2> QED BY <1>3, <2>2, <2>3, <2>4, <2>5, <2>6 DEF Read
<1> QED BY <1>1, <1>2, <1>3, RequestStep DEF IInv

\* The counter of wrong codes and the handlers that still have one to count.
LEMMA WrongCodes ==
  ASSUME IInv, [Next]_vars, NEW o \in Orders
  PROVE  \/ deliveries'[o].deneme = deliveries[o].deneme /\ Wrong(o)' \subseteq Wrong(o)
         \/ /\ deliveries'[o].deneme = deliveries[o].deneme
            /\ deliveries[o].deneme < MAX_KOD_DENEME
         \/ /\ deliveries'[o].deneme = deliveries[o].deneme + 1
            /\ \E r \in Wrong(o) : Wrong(o)' = Wrong(o) \ {r}
<1>0. TypeOK /\ deliveries \in [Orders -> DeliveryRow \cup {NoDelivery}]
  BY DEF IInv, TypeOK
<1>1. ASSUME \A q \in Requests : req'[q] = req[q] \/ req'[q] = Idle
      PROVE  Wrong(o)' \subseteq Wrong(o)
  BY <1>1 DEF Wrong, Idle
<1>2. ASSUME NEW r \in Requests, Answer(r)
      PROVE  \A q \in Requests : req'[q] = req[q] \/ req'[q] = Idle
  BY <1>0, <1>2 DEF Answer, TypeOK
<1>3. ASSUME NEW r \in Requests, Read(r), deliveries[o].deneme >= MAX_KOD_DENEME
      PROVE  deliveries' = deliveries /\ Wrong(o)' \subseteq Wrong(o)
  <2>1. deliveries' = deliveries
    BY <1>3
    DEF Read, CheckoutRead, CancelRead, AraciRead, ClaimRead, PickupRead, DeliverRead,
        Remember, orderVars
  <2>2. \A q \in Requests \ {r} : req'[q] = req[q]
    BY <1>0, <1>3
    DEF Read, CheckoutRead, CancelRead, AraciRead, ClaimRead, PickupRead, DeliverRead,
        Remember, TypeOK
  <2>3. req'[r].op = "wrongCode" => req'[r].ord # o
    <3>1. ASSUME NEW c \in Customers, CheckoutRead(r, c) PROVE req'[r].op = "checkout"
      BY <1>0, <3>1, Remembered DEF CheckoutRead
    <3>2. ASSUME NEW p \in Orders, CancelRead(r, p) PROVE req'[r].op = "cancel"
      BY <1>0, <3>2, Remembered DEF CancelRead
    <3>3. ASSUME NEW p \in Orders, AraciRead(r, p) PROVE req'[r].op = "aracikurum"
      BY <1>0, <3>3, Remembered DEF AraciRead
    <3>4. ASSUME NEW p \in Orders, NEW u \in Carriers, ClaimRead(r, p, u) \/ PickupRead(r, p, u)
          PROVE  req'[r].op \in {"claim", "pickup"}
      BY <1>0, <3>4, Remembered DEF ClaimRead, PickupRead
    <3>5. ASSUME NEW p \in Orders, NEW u \in Carriers, NEW op \in {"deliver", "wrongCode"},
                 DeliverRead(r, p, u, op)
          PROVE  req'[r].ord # o
      <4>1. req'[r].ord = p /\ deliveries[p].deneme < MAX_KOD_DENEME
        BY <1>0, <3>5, Remembered DEF DeliverRead, TriesLeft
      <4>2. deliveries[o].deneme \in Nat /\ deliveries[p].deneme \in Nat
        BY <1>0 DEF DeliveryRow, NoDelivery
      <4> QED BY <1>3, <4>1, <4>2, LimitsAssumption
    <3> QED BY <1>3, <3>1, <3>2, <3>3, <3>4, <3>5 DEF Read
  <2> QED BY <2>1, <2>2, <2>3 DEF Wrong
<1>4. ASSUME NEW r \in Requests, WrongCodeCommit(r)
      PROVE  \/ deliveries'[o].deneme = deliveries[o].deneme /\ Wrong(o)' \subseteq Wrong(o)
             \/ /\ deliveries'[o].deneme = deliveries[o].deneme + 1
                /\ \E q \in Wrong(o) : Wrong(o)' = Wrong(o) \ {q}
  <2>1. req[r].op = "wrongCode" /\ deliveries' = [deliveries EXCEPT ![req[r].ord].deneme = @ + 1]
        /\ req' = [req EXCEPT ![r] = Idle]
    BY <1>4 DEF WrongCodeCommit, Answer
  <2>2. CASE req[r].ord = o
    <3>1. deliveries[o] \in DeliveryRow
      BY <2>1, <2>2, KnownOrder DEF Ops
    <3>2. deliveries'[o].deneme = deliveries[o].deneme + 1
      BY <1>0, <2>1, <2>2, <3>1 DEF DeliveryRow
    <3>3. \A q \in Requests : req'[q] = IF q = r THEN Idle ELSE req[q]
      BY <1>0, <2>1 DEF TypeOK
    <3>4. r \in Wrong(o) /\ Wrong(o)' = Wrong(o) \ {r}
      BY <2>1, <2>2, <3>3 DEF Wrong, Idle
    <3> QED BY <3>2, <3>4
  <2>3. CASE req[r].ord # o
    <3>1. deliveries'[o] = deliveries[o]
      BY <1>0, <2>1, <2>3
    <3>2. Wrong(o)' \subseteq Wrong(o)
      BY <1>1, <1>2, <1>4 DEF WrongCodeCommit
    <3> QED BY <3>1, <3>2
  <2> QED BY <2>2, <2>3
<1>5. ASSUME NEW r \in Requests, Commit(r), ~WrongCodeCommit(r)
      PROVE  deliveries'[o].deneme = deliveries[o].deneme /\ Wrong(o)' \subseteq Wrong(o)
  <2>1. Answer(r)
    BY <1>5
    DEF Commit, CheckoutCommit, CancelCommit, ClaimCommit, PickupCommit, DeliverCommit,
        AraciCommit, Refused
  <2>2. CASE CheckoutCommit(r)
    <3>1. PICK place \in Numberings(req[r].baskets) :
            PlaceOrders(req[r].by, req[r].baskets, place)
      BY <2>2 DEF CheckoutCommit
    <3>2. \A p \in Range(place) : orders[p] = NoRow
      BY DEF Numberings, Range, FreeOrders
    <3>3. CASE o \in Range(place)
      <4>1. deliveries[o] = NoDelivery
        BY <3>2, <3>3, OrderRowIsSome DEF IInv, RowsOK, RowOK, Fresh
      <4>2. deliveries'[o] = NewDelivery
        BY <3>1, <3>3 DEF PlaceOrders
      <4> QED BY <1>1, <1>2, <2>1, <4>1, <4>2 DEF NewDelivery, NoDelivery
    <3>4. CASE o \notin Range(place)
      <4>1. deliveries'[o] = deliveries[o]
        BY <3>1, <3>4 DEF PlaceOrders
      <4> QED BY <1>1, <1>2, <2>1, <4>1
    <3> QED BY <3>3, <3>4
  <2>3. CASE \/ CancelCommit(r) \/ ClaimCommit(r) \/ PickupCommit(r) \/ DeliverCommit(r)
             \/ AraciCommit(r)
    <3>1. deliveries[o] \in DeliveryRow \cup {NoDelivery}
      BY <1>0
    <3>2. deliveries'[o].deneme = deliveries[o].deneme
      <4>1. CASE CancelCommit(r)
        BY <1>0, <3>1, <4>1 DEF CancelCommit, DeliveryRow, NoDelivery
      <4>2. CASE ClaimCommit(r)
        BY <1>0, <3>1, <4>2 DEF ClaimCommit, DeliveryRow, NoDelivery
      <4>3. CASE PickupCommit(r)
        BY <1>0, <3>1, <4>3 DEF PickupCommit, DeliveryRow, NoDelivery
      <4>4. CASE DeliverCommit(r)
        BY <1>0, <3>1, <4>4 DEF DeliverCommit, DeliveryRow, NoDelivery
      <4>5. CASE AraciCommit(r)
        BY <1>0, <3>1, <4>5 DEF AraciCommit, DeliveryRow, NoDelivery
      <4> QED BY <2>3, <4>1, <4>2, <4>3, <4>4, <4>5
    <3> QED BY <1>1, <1>2, <2>1, <3>2
  <2>4. CASE Refused(r)
    BY <1>1, <1>2, <2>1, <2>4 DEF Refused, orderVars
  <2> QED BY <1>5, <2>2, <2>3, <2>4 DEF Commit
<1>6. ASSUME \/ \E p \in Orders, next \in OrderStatus : UpdateStatus(p, next)
             \/ \E s \in Suspendable : ToggleStore(s)
             \/ Finance
             \/ UNCHANGED vars
      PROVE  deliveries' = deliveries /\ req' = req
  BY <1>6 DEF UpdateStatus, ToggleStore, Finance, vars, orderVars
<1>7. CASE deliveries' = deliveries /\ req' = req
  BY <1>1, <1>7
<1>8. CASE \E r \in Requests : Commit(r)
  BY <1>4, <1>5, <1>8
<1>9. CASE \E r \in Requests : Read(r)
  <2>1. deliveries' = deliveries
    BY <1>9
    DEF Read, CheckoutRead, CancelRead, AraciRead, ClaimRead, PickupRead, DeliverRead,
        Remember, orderVars
  <2>2. deliveries[o].deneme \in Nat
    BY <1>0 DEF DeliveryRow, NoDelivery
  <2> QED BY <1>3, <1>9, <2>1, <2>2, LimitsAssumption
<1> QED BY <1>6, <1>7, <1>8, <1>9 DEF Next

LEMMA AttemptsStep ==
  ASSUME IInv, AttemptsBook, [Next]_vars
  PROVE  AttemptsBook'
<1> SUFFICES ASSUME NEW o \in Orders
    PROVE  deliveries'[o].deneme + Cardinality(Wrong(o)')
             <= MAX_KOD_DENEME + Cardinality(Requests) - 1
  BY DEF AttemptsBook
<1> DEFINE W == Wrong(o)
           R == Cardinality(Requests)
           d == deliveries[o].deneme
<1>1. IsFiniteSet(Requests) /\ W \subseteq Requests /\ W' \subseteq Requests
  BY FiniteAssumption DEF Wrong
<1>2. /\ R \in Nat /\ Cardinality(W) \in Nat /\ Cardinality(W') \in Nat
      /\ Cardinality(W') <= R /\ IsFiniteSet(W)
  BY <1>1, FS_Subset, FS_CardinalityType
<1>3. d \in Nat /\ MAX_KOD_DENEME \in Nat
  BY LimitsAssumption DEF IInv, TypeOK, DeliveryRow, NoDelivery
<1>4. d + Cardinality(W) <= MAX_KOD_DENEME + R - 1
  BY DEF AttemptsBook
<1>5. \/ d' = d /\ W' \subseteq W
      \/ d' = d /\ d < MAX_KOD_DENEME
      \/ d' = d + 1 /\ \E r \in W : W' = W \ {r}
  BY WrongCodes
<1>6. W' \subseteq W => Cardinality(W') <= Cardinality(W)
  BY <1>2, FS_Subset
<1>7. \A r \in W : Cardinality(W \ {r}) = Cardinality(W) - 1
  BY <1>2, FS_RemoveElement
<1> HIDE DEF W, R, d
<1>8. d' + Cardinality(W') <= MAX_KOD_DENEME + R - 1
  BY <1>2, <1>3, <1>4, <1>5, <1>6, <1>7
<1> QED BY <1>8 DEF W, R, d

-----------------------------------------------------------------------------
(* The books stay in balance *)

LEMMA BooksStep ==
  ASSUME IInv, IInv', Books, [Next]_vars
  PROVE  Books'
<1>0. /\ MoneyConserved /\ EscrowBook /\ StockBook /\ AttemptsBook
      /\ \A c \in Customers : OnePerStore(cart[c])
      /\ HandlersKnow
  BY DEF Books
<1>1. EscrowBook' /\ StockBook'
  <2>1. ASSUME NEW r \in Requests, Pays(r) PROVE EscrowBook' /\ StockBook'
    BY <1>0, <2>1, CheckoutBooks, CancelBooks, DeliverBooks DEF Pays
  <2>2. CASE \A r \in Requests : ~Pays(r)
    <3>1. Quiet /\ (Finance \/ UNCHANGED <<balance, posted>>)
      BY <2>2, QuietStep
    <3>2. balance'[Escrow] = balance[Escrow]
      BY <3>1, FinanceSparesEscrow
    <3> QED BY <1>0, <3>1, <3>2, QuietBooks
  <2> QED BY <2>1, <2>2
<1>2. MoneyConserved'
  BY <1>0, MoneyStep
<1>3. AttemptsBook'
  BY <1>0, AttemptsStep
<1>4. \A c \in Customers : OnePerStore(cart'[c])
  BY <1>0, CartStep
<1>5. HandlersKnow'
  BY <1>0, HandlersStep
<1>6. (\A c \in Customers : OnePerStore(cart[c]))'
  BY <1>4 DEF OnePerStore
<1> QED BY <1>1, <1>2, <1>3, <1>5, <1>6 DEF Books

LEMMA BooksInvariant == Spec => [](IInv /\ Books)
<1>1. IInv /\ IInv' /\ Books /\ [Next]_vars => Books'
  BY BooksStep
<1> QED BY <1>1, InitBooks, Invariant, PTL DEF Spec

\* ledger.service under checkouts, refunds, settlements and the wallet operations of
\* clients, interleaved as they may be: money moves between wallets and none is made.
THEOREM MoneyIsConserved == Spec => []MoneyConserved
<1>1. IInv /\ Books => MoneyConserved
  BY DEF Books
<1> QED BY <1>1, BooksInvariant, PTL

\* checkout, cancel and deliver: what the escrow wallet holds is what the orders paid
\* and not yet delivered or cancelled are worth, whichever handlers overlap.
THEOREM EscrowAccounted == Spec => []EscrowHoldsOpenOrders
<1>1. ASSUME IInv, Books PROVE EscrowHoldsOpenOrders
  <2> DEFINE open == {o \in Orders : orders[o].pay = "PAID"}
             f == [o \in open |-> Total(orders[o].basket)]
             g == Worth(orders)
  <2>1. IsFiniteSet(Orders) /\ IsFiniteSet(open) /\ open \in SUBSET Orders
    BY FiniteAssumption, FS_Subset
  <2>2. \A o \in Orders : g[o] \in Int
    BY <1>1, RowsCount DEF IInv, TypeOK
  <2>3. \A o \in Orders \ open : g[o] = 0
    BY DEF Worth
  <2>4. DOMAIN f = open /\ \A o \in open : f[o] = g[o]
    BY DEF Worth
  <2>5. balance[Escrow] - OpeningBalance[Escrow] = SumFunctionOnSet(g, Orders)
    BY <1>1 DEF Books, EscrowBook
  <2> HIDE DEF open, f, g
  <2>6. SumFunctionOnSet(g, Orders) = SumFunctionOnSet(g, open)
    BY <2>1, <2>2, <2>3, SumOfSupport
  <2>7. SumFunction(f) = SumFunctionOnSet(g, open)
    BY <2>1, <2>4, SumOfFunction
  <2>8. balance[Escrow] - OpeningBalance[Escrow] = SumFunction(f)
    BY <2>5, <2>6, <2>7
  <2> QED BY <2>8 DEF f, open, EscrowHoldsOpenOrders
<1> QED BY <1>1, BooksInvariant, PTL

\* checkout's conditional decrement and cancel's increment: every unit that was ever in
\* stock is on the shelf or in an order that was not cancelled.
THEOREM StockIsAccounted == Spec => []StockAccounted
<1>1. ASSUME IInv, Books, NEW p \in Products
      PROVE  OpeningStock[p] = stock[p] + SumFunction([o \in
               {q \in Orders : orders[q] # NoRow /\ orders[q].status # "CANCELLED"}
                 |-> Needs[orders[o].basket][p]])
  <2> DEFINE live == {q \in Orders : orders[q] # NoRow /\ orders[q].status # "CANCELLED"}
             f == [o \in live |-> Needs[orders[o].basket][p]]
             g == Units(orders, p)
  <2>1. IsFiniteSet(Orders) /\ IsFiniteSet(live) /\ live \in SUBSET Orders
    BY FiniteAssumption, FS_Subset
  <2>2. \A o \in Orders : g[o] \in Int
    BY <1>1, RowsCount DEF IInv, TypeOK
  <2>3. \A o \in Orders \ live : g[o] = 0
    BY DEF Units, Live
  <2>4. DOMAIN f = live /\ \A o \in live : f[o] = g[o]
    BY DEF Units, Live
  <2>5. OpeningStock[p] = stock[p] + SumFunctionOnSet(g, Orders)
    BY <1>1 DEF Books, StockBook
  <2> HIDE DEF live, f, g
  <2>6. SumFunctionOnSet(g, Orders) = SumFunctionOnSet(g, live)
    BY <2>1, <2>2, <2>3, SumOfSupport
  <2>7. SumFunction(f) = SumFunctionOnSet(g, live)
    BY <2>1, <2>4, SumOfFunction
  <2>8. OpeningStock[p] = stock[p] + SumFunction(f)
    BY <2>5, <2>6, <2>7
  <2> QED BY <2>8 DEF f, live
<1>2. IInv /\ Books => StockAccounted
  BY <1>1 DEF StockAccounted
<1> QED BY <1>2, BooksInvariant, PTL

\* deliver compares the counter of wrong codes on a row read before: handlers that
\* overlap pass the limit together by no more than one less than there are of them.
THEOREM AttemptsAreBounded == Spec => []AttemptsBounded
<1>1. ASSUME IInv, Books, NEW o \in Orders
      PROVE  deliveries[o].deneme <= MAX_KOD_DENEME + Cardinality(Requests) - 1
  <2>1. deliveries[o].deneme + Cardinality(Wrong(o))
          <= MAX_KOD_DENEME + Cardinality(Requests) - 1
    BY <1>1 DEF Books, AttemptsBook
  <2>2. IsFiniteSet(Requests) /\ IsFiniteSet(Wrong(o))
    BY FiniteAssumption, FS_Subset DEF Wrong
  <2>3. Cardinality(Requests) \in Nat /\ Cardinality(Wrong(o)) \in Nat
    BY <2>2, FS_CardinalityType
  <2>4. deliveries[o].deneme \in Nat /\ MAX_KOD_DENEME \in Nat
    BY <1>1, LimitsAssumption DEF IInv, TypeOK, DeliveryRow, NoDelivery
  <2> QED BY <2>1, <2>3, <2>4
<1>2. IInv /\ Books => AttemptsBounded
  BY <1>1 DEF AttemptsBounded
<1> QED BY <1>2, BooksInvariant, PTL

-----------------------------------------------------------------------------
(* Who gets the delivery fee *)

\* The commission is a part of the subtotal.
LEMMA CommissionIsPart ==
  ASSUME NEW b \in Baskets
  PROVE  Commission(b) \in Nat /\ NetRevenue(b) \in Nat
<1> DEFINE a == Subtotal[b]
           rate == CommissionRate[BasketStore[b]]
           x == a * rate
           q == x \div 10000
<1>1. a \in Nat
  BY GoodsAssumption
<1>2. rate \in Nat /\ rate <= 10000
  <2>1. PICK store \in Stores : store = BasketStore[b]
    BY GoodsAssumption
  <2>2. CommissionRate[store] \in Nat /\ CommissionRate[store] <= 10000
    BY RatesAssumption
  <2>3. rate = CommissionRate[store]
    BY <2>1
  <2> HIDE DEF rate
  <2> QED BY <2>2, <2>3
<1>3. Commission(b) = q /\ NetRevenue(b) = a - q
  BY DEF Commission, NetRevenue
<1> HIDE DEF a, rate
<1>4. x \in Nat /\ x <= a * 10000
  BY <1>1, <1>2
<1> HIDE DEF x
<1>5. q \in Nat /\ q <= a
  BY <1>1, <1>4
<1> HIDE DEF q
<1> QED BY <1>1, <1>3, <1>5

\* Only deliver releases the money of an order.
LEMMA OnlyDeliverReleases ==
  ASSUME IInv, [Next]_vars, NEW o \in Orders,
         orders[o].pay = "PAID", orders'[o].pay = "RELEASED"
  PROVE  \E r \in Requests : DeliverCommit(r) /\ req[r].ord = o
<1>1. PICK r \in Requests : Pays(r)
  BY QuietStep DEF Quiet
<1>2. ~CheckoutCommit(r)
  BY CheckoutPlaces DEF NoRow
<1>3. orders \in [Orders -> OrderRow \cup {NoRow}] /\ orders[o] \in OrderRow
  BY DEF IInv, TypeOK, NoRow
<1>4. ~CancelCommit(r)
  <2> SUFFICES ASSUME CancelCommit(r) PROVE FALSE
    OBVIOUS
  <2>1. orders' = [orders EXCEPT ![req[r].ord].status = "CANCELLED",
                                 ![req[r].ord].pay = "REFUNDED"]
    BY DEF CancelCommit
  <2>2. orders'[o].pay \in {"PAID", "REFUNDED"}
    BY <1>3, <2>1 DEF OrderRow
  <2> QED BY <2>2
<1>5. DeliverCommit(r)
  BY <1>1, <1>2, <1>4 DEF Pays
<1>6. req[r].ord = o
  <2>1. orders' = [orders EXCEPT ![req[r].ord].status = "DELIVERED",
                                 ![req[r].ord].pay = "RELEASED"]
    BY <1>5 DEF DeliverCommit
  <2> QED BY <1>3, <2>1
<1> QED BY <1>5, <1>6

\* deliver, which checks who holds the delivery before its transaction only: the fee
\* goes in full to the courier who holds it when the transaction commits, or to a super
\* administrator in his place; no other user is paid but the store's owner, by the net
\* revenue.
THEOREM FeeReachesHolder == Spec => FeeToHolder
<1> DEFINE Share(o, u, w) ==
             LET b == orders[o].basket
             IN (IF w = Owner[BasketStore[b]] THEN NetRevenue(b) ELSE 0)
                  + (IF w = u THEN DeliveryFeeOf(b) ELSE 0)
           Released(o) == orders[o].pay = "PAID" /\ orders'[o].pay = "RELEASED"
           Holders(o) == (SuperAdmins \cup {deliveries[o].courier}) \cap Users
<1>1. ASSUME IInv, Books, [Next]_vars, NEW o \in Orders, Released(o)
      PROVE  \E u \in Holders(o) : \A w \in Users : balance'[w] - balance[w] = Share(o, u, w)
  <2>1. PICK r \in Requests : DeliverCommit(r) /\ req[r].ord = o
    BY <1>1, OnlyDeliverReleases
  <2> DEFINE u == req[r].by
             b == orders[o].basket
             debit == Line(Escrow, Total(b))
             credit == SettleCredit(o, u)
             net == NetRevenue(b)
             fee == DeliveryFeeOf(b)
  <2>2. u \in SuperAdmins \cup {deliveries[o].courier}
    BY <1>1, <2>1 DEF Books, HandlersKnow, DeliverCommit
  <2>3. u \in Users
    BY <1>1, <2>1 DEF IInv, RequestsOK, DeliverCommit
  <2>4. b \in Baskets
    BY <1>1 DEF IInv, TypeOK, OrderRow, NoRow
  <2>5. CanPost(SettleRef(o), debit, credit) /\ Post(SettleRef(o), debit, credit)
    BY <2>1 DEF DeliverCommit, DeliverOk, SettleOk
  <2>6. SettleRef(o) \notin posted /\ balance \in [Wallets -> Int]
    BY <1>1 DEF IInv, PostedOK, TypeOK
  <2>7. net \in Nat /\ fee \in Nat
    BY <2>4, CommissionIsPart, PricesAreNat
  <2> SUFFICES ASSUME NEW w \in Users
               PROVE  balance'[w] - balance[w] = Share(o, u, w)
    BY <2>2, <2>3
  <2>8. w # Escrow /\ w # Platform /\ w \in Wallets
    BY WalletsAssumption DEF Wallets
  <2>9. debit[w] = 0
    BY <2>8 DEF Line
  <2>10. credit[w] = (IF w = Owner[BasketStore[b]] THEN net ELSE 0)
                       + (0 + (IF w = u THEN fee ELSE 0))
    BY <2>8 DEF SettleCredit, Both, Line
  <2>11. balance'[w] = balance[w] - debit[w] + credit[w] /\ balance[w] \in Int
    <3> HIDE DEF debit, credit
    <3> QED BY <2>5, <2>6, <2>8, PostChanges
  <2>12. Share(o, u, w) = (IF w = Owner[BasketStore[b]] THEN net ELSE 0) + (IF w = u THEN fee ELSE 0)
    OBVIOUS
  <2> HIDE DEF debit, credit, net, fee, u, b, Share
  <2> QED BY <2>7, <2>9, <2>10, <2>11, <2>12
<1>2. IInv /\ Books /\ [Next]_vars =>
        [\A o \in Orders :
           Released(o) =>
             \E u \in Holders(o) : \A w \in Users : balance'[w] - balance[w] = Share(o, u, w)]_vars
  <2> HIDE DEF Released, Holders, Share
  <2> QED BY <1>1
<1>3. Spec =>
        [][\A o \in Orders :
             Released(o) =>
               \E u \in Holders(o) : \A w \in Users : balance'[w] - balance[w] = Share(o, u, w)]_vars
  BY <1>2, BooksInvariant, PTL DEF Spec
<1> QED BY <1>3 DEF FeeToHolder
=============================================================================
