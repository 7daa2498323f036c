SPECIFICATION Spec
CONSTANTS
  c1 = c1  c2 = c2  k1 = k1  k2 = k2  adm = adm  own = own
  s1 = s1  s2 = s2  p1 = p1  p2 = p2  b1 = b1  b2 = b2
  Escrow = Escrow  Platform = Platform
  NoUser = NoUser  NoOrder = NoOrder  NoBasket = NoBasket
  Users = {c1, k1, own}
  Customers = {c1}  Couriers = {k1}  SuperAdmins = {}
  Orders = {o1, o2, o3}
  Requests = {r1, r2}
  Stores = {s1, s2}  CarsiStores = {s1, s2}  Suspendable = {s1}
  Products = {p1, p2}  Baskets = {b1, b2}
  ClientRefs = {f1}  Amounts = {20000}
  DELIVERY_FEE = 1500  FREE_DELIVERY_THRESHOLD = 30000  MAX_KOD_DENEME = 1
  Owner <- CarsiOwner
  ProductStore <- CarsiProductStore
  OpeningStock <- CarsiStock
  BasketStore <- CarsiBasketStore
  Needs <- CarsiNeeds
  Subtotal <- CarsiSubtotal
  OpeningCart <- CarsiCart
  CommissionRate <- CarsiRate
  OpeningBalance <- OpeningCarsi
SYMMETRY Symmetry
INVARIANTS MoneyConserved NoOverdraft EscrowHoldsOpenOrders StockAccounted
PROPERTY KeepsPromise
CHECK_DEADLOCK FALSE
