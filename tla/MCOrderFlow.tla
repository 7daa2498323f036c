----------------------------- MODULE MCOrderFlow -----------------------------
(***************************************************************************)
(* Instances of OrderFlow for TLC.                                         *)
(***************************************************************************)
EXTENDS OrderFlow, TLC

CONSTANTS
  c1, c2,      \* customers
  k1, k2,      \* couriers
  adm,         \* a SUPER_ADMIN
  own,         \* the owner of the stores
  s1, s2,      \* stores
  p1, p2,      \* products
  b1, b2       \* baskets

\* Two customers of one store that has two units: one basket needs one of them,
\* the other both.  The first customer can pay twice, the second only once.
\* The commission on 19999 is not a whole number of kurus; 30000 is delivered free.
LastUnitOwner == [s \in {s1} |-> own]
LastUnitStore == [p \in {p1} |-> s1]
LastUnitStock == [p \in {p1} |-> 2]
LastUnitBasketStore == [b \in {b1, b2} |-> s1]
LastUnitNeeds == (b1 :> (p1 :> 1)) @@ (b2 :> (p1 :> 2))
LastUnitSubtotal == (b1 :> 19999) @@ (b2 :> 30000)
LastUnitCart == (c1 :> {b1}) @@ (c2 :> {b2})
LastUnitRate == [s \in {s1} |-> 1500]

\* One customer whose CARSI cart holds baskets of two stores.
CarsiOwner == [s \in {s1, s2} |-> own]
CarsiProductStore == (p1 :> s1) @@ (p2 :> s2)
CarsiStock == (p1 :> 2) @@ (p2 :> 2)
CarsiBasketStore == (b1 :> s1) @@ (b2 :> s2)
CarsiNeeds == (b1 :> ((p1 :> 1) @@ (p2 :> 0))) @@ (b2 :> ((p1 :> 0) @@ (p2 :> 2)))
CarsiSubtotal == (b1 :> 19999) @@ (b2 :> 30000)
CarsiCart == (c1 :> {b1, b2})
CarsiRate == [s \in {s1, s2} |-> 1500]

\* One customer and one order, for liveness.
OneBasketStore == [b \in {b1} |-> s1]
OneNeeds == (b1 :> (p1 :> 1))
OneSubtotal == (b1 :> 19999)
OneCart == (c1 :> {b1})

Opening == [w \in Wallets |-> IF w \in Customers THEN 43000 ELSE 0]

OpeningCarsi == [w \in Wallets |-> IF w \in Customers THEN 60000 ELSE 0]

Symmetry == Permutations(Orders) \cup Permutations(Requests)
=============================================================================
