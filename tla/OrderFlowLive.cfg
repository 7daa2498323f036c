SPECIFICATION FairSpec
CONSTANTS
  c1 = c1  c2 = c2  k1 = k1  k2 = k2  adm = adm  own = own
  s1 = s1  s2 = s2  p1 = p1  p2 = p2  b1 = b1  b2 = b2
  Escrow = Escrow  Platform = Platform
  NoUser = NoUser  NoOrder = NoOrder  NoBasket = NoBasket
  Users = {c1, k1, adm, own}
  Customers = {c1}  Couriers = {k1}  SuperAdmins = {adm}
  Orders = {o1}
  Requests = {r1, r2}
  Stores = {s1}  CarsiStores = {}  Suspendable = {}
  Products = {p1}  Baskets = {b1}
  ClientRefs = {}  Amounts = {}
  DELIVERY_FEE = 1500  FREE_DELIVERY_THRESHOLD = 30000  MAX_KOD_DENEME = 2
  Owner <- LastUnitOwner
  ProductStore <- LastUnitStore
  OpeningStock <- LastUnitStock
  BasketStore <- OneBasketStore
  Needs <- OneNeeds
  Subtotal <- OneSubtotal
  OpeningCart <- OneCart
  CommissionRate <- LastUnitRate
  OpeningBalance <- Opening
PROPERTY OrderPaysOut
CHECK_DEADLOCK FALSE
