-------------------------------- MODULE Sepet --------------------------------
(***************************************************************************)
(* Shopping carts (cart/).  A user has one cart for each business unit; its *)
(* lines keep the unit price and the surcharges of the options as they were *)
(* when they were put in.  MARKET and YEMEK carts belong to one store.      *)
(*                                                                         *)
(* addItem runs statement by statement, so that two requests of one user    *)
(* interleave.  A line is a row of kalem; one piece is added at a time.     *)
(***************************************************************************)
EXTENDS Katalog

CONSTANTS ADET_SINIRI     \* bound on the pieces of a line

ASSUME SepetAssumption == ADET_SINIRI \in Nat

VARIABLES
  sepet,     \* carts.storeId, by <<user, business unit>>
  kalem      \* cart_items with cart_item_options

sepetVars == <<sepet, kalem>>

YokKalem == [sepet |-> <<>>, p |-> NoRow, v |-> <<>>, secimler |-> {}, adet |-> 0, birim |-> 0]

Kalemleri(c) == {k \in DOMAIN kalem : kalem[k].sepet = c}

-----------------------------------------------------------------------------
(* secimleriCoz *)

BagliGruplar(p) == {g \in DOMAIN grup : <<p, g>> \in bag /\ grup[g].aktif}

\* Each chosen option must be on offer; each group of the product must have enough of
\* them, but a group that is not mandatory may be passed over.
SecimOlur(p, secilen) ==
  /\ \A o \in secilen : secenek[o].aktif /\ secenek[o].g \in BagliGruplar(p)
  /\ \A g \in BagliGruplar(p) :
       LET n == Cardinality({o \in secilen : secenek[o].g = g})
       IN /\ grup[g].zorunlu => n > 0
          /\ n > 0 => n >= grup[g].min
          /\ n <= grup[g].max

\* A surcharge of BaniCarsi carries the platform's share; elsewhere it is the seller's.
Secim(p, o) ==
  IF Carsi(urun[p].s)
    THEN Ustune([o |-> o], EkUcretHesapla(secenek[o].ek, urun[p].kdv))
    ELSE [o |-> o, ekUcret |-> secenek[o].ek]

-----------------------------------------------------------------------------
(* addItem *)

SatinAlinir(p) == Yayinda(p) /\ satici[magaza[urun[p].s].sahip].durum = "ACTIVE"

\* The product, the variant, the options and the cart (made if need be) are read.
EkleOku(r, u, p, vs, secilen) ==
  LET c == <<u, magaza[urun[p].s].dikey>>
  IN /\ Cagrilir("addItem")
     /\ Oturumlu(u)
     /\ urun[p] # YokUrun /\ SatinAlinir(p)
     /\ vs # <<>> => varyant[vs[1]].aktif /\ ~ varyant[vs[1]].silindi
     /\ SecimOlur(p, secilen)
     /\ Basla(r, [op |-> "ekleMagaza", c |-> c, s |-> sepet[c],
               kalem |-> [sepet |-> c, p |-> p, v |-> vs, adet |-> 1, birim |-> EtkinFiyat(p, vs),
                          secimler |-> {Secim(p, o) : o \in secilen}]])
     /\ UNCHANGED <<kadroVars, katalogVars, sepetVars>>

\* One store for a cart, except in BaniCarsi: its lines are counted, its store is the one
\* read before.
EkleMagaza(r) ==
  LET q == req[r]
      s == urun[q.kalem.p].s
      baska == Kalemleri(q.c) # {} /\ q.s # NoStore /\ q.s # s
      hedef == IF Carsi(s) THEN NoStore ELSE s
  IN /\ Sira(r, "ekleMagaza")
     /\ IF ~ Carsi(s) /\ baska
          THEN Bitir(r) /\ UNCHANGED sepet
          ELSE /\ sepet' = IF q.s # hedef THEN [sepet EXCEPT ![q.c] = hedef] ELSE sepet
               /\ Gec(r, [op |-> "ekleAra", c |-> q.c, kalem |-> q.kalem])
     /\ UNCHANGED <<kadroVars, katalogVars, kalem>>

\* A line of the same product, variant and options.
Ayni(k, yeni) ==
  /\ kalem[k].sepet = yeni.sepet /\ kalem[k].p = yeni.p /\ kalem[k].v = yeni.v
  /\ {x.o : x \in kalem[k].secimler} = {x.o : x \in yeni.secimler}

EkleAra(r) ==
  LET q == req[r]
      adaylar == {k \in DOMAIN kalem : Ayni(k, q.kalem)}
  IN /\ Sira(r, "ekleAra")
     /\ IF adaylar = {}
          THEN Gec(r, [op |-> "ekleYaz", kalem |-> q.kalem])
          ELSE \E k \in adaylar :
                 Gec(r, [op |-> "ekleArtir", k |-> k, kalem |-> [q.kalem EXCEPT !.adet = kalem[k].adet + 1]])
     /\ UNCHANGED <<kadroVars, katalogVars, sepetVars>>

EkleYaz(r) ==
  /\ Sira(r, "ekleYaz")
  /\ \E k \in DOMAIN kalem : /\ kalem[k] = YokKalem
                             /\ kalem' = [kalem EXCEPT ![k] = req[r].kalem]
  /\ Bitir(r)
  /\ UNCHANGED <<kadroVars, katalogVars, sepet>>

\* The quantity read plus one, by id: the update fails if the line has gone.  The line
\* keeps the surcharges it has.
EkleArtir(r) ==
  LET q == req[r]
  IN /\ Sira(r, "ekleArtir")
     /\ q.kalem.adet <= ADET_SINIRI
     /\ kalem' = IF kalem[q.k] = YokKalem
                   THEN kalem
                   ELSE [kalem EXCEPT ![q.k].adet = q.kalem.adet, ![q.k].birim = q.kalem.birim]
     /\ Bitir(r)
     /\ UNCHANGED <<kadroVars, katalogVars, sepet>>

-----------------------------------------------------------------------------
(* The other handlers *)

\* kalemBul: the line is the caller's.
Kalemi(u, k) == Oturumlu(u) /\ kalem[k] # YokKalem /\ kalem[k].sepet[1] = u

KalemGuncelle(u, k, adet) ==
  /\ Cagrilir("updateItem")
  /\ Kalemi(u, k)
  /\ kalem' = [kalem EXCEPT ![k] = IF adet = 0 THEN YokKalem ELSE [@ EXCEPT !.adet = adet]]
  /\ UNCHANGED <<req, kadroVars, katalogVars, sepet>>

KalemSil(u, k) ==
  /\ Cagrilir("removeItem")
  /\ Kalemi(u, k)
  /\ kalem' = [kalem EXCEPT ![k] = YokKalem]
  /\ UNCHANGED <<req, kadroVars, katalogVars, sepet>>

\* clear: the lines go, then the store.
SepetBosalt(r, u, d) ==
  /\ Cagrilir("clear")
  /\ Oturumlu(u)
  /\ kalem' = [k \in DOMAIN kalem |-> IF kalem[k].sepet = <<u, d>> THEN YokKalem ELSE kalem[k]]
  /\ Basla(r, [op |-> "sepetMagazaSil", c |-> <<u, d>>])
  /\ UNCHANGED <<kadroVars, katalogVars, sepet>>

SepetMagazaSil(r) ==
  /\ Sira(r, "sepetMagazaSil")
  /\ sepet' = [sepet EXCEPT ![req[r].c] = NoStore]
  /\ Bitir(r)
  /\ UNCHANGED <<kadroVars, katalogVars, kalem>>

\* view: what one piece of a line costs.
SatirBirimFiyat(k) ==
  kalem[k].birim + MapThenSumSet(LAMBDA x : x.ekUcret, kalem[k].secimler)

-----------------------------------------------------------------------------

SepetNext ==
  \/ \E r \in Requests, u \in Users, p \in DOMAIN urun :
       \E vs \in VaryantTek(p), secilen \in SUBSET DOMAIN secenek : EkleOku(r, u, p, vs, secilen)
  \/ \E r \in Requests :
       EkleMagaza(r) \/ EkleAra(r) \/ EkleYaz(r) \/ EkleArtir(r) \/ SepetMagazaSil(r)
  \/ \E u \in Users, k \in DOMAIN kalem :
       KalemSil(u, k) \/ \E adet \in 0..ADET_SINIRI : KalemGuncelle(u, k, adet)
  \/ \E r \in Requests, c \in DOMAIN sepet : SepetBosalt(r, c[1], c[2])
=============================================================================
