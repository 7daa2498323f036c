----------------------------- MODULE PazaryeriGoods -----------------------------
(***************************************************************************)
(* Proofs about the goods of the market place and about the rows of all    *)
(* its tables.  MalInv is what products, variants, options, lines of carts *)
(* and sales are, and what a request between two of its statements knows   *)
(* of them: the parts of a price add up to it wherever it has been copied. *)
(* RowInv adds accounts, roles, one-time codes, staff, change requests and *)
(* categories.                                                             *)
(***************************************************************************)
EXTENDS PazaryeriRecords, SumLemmas

-----------------------------------------------------------------------------
(* Prices *)

\* A sum over a finite set, as SumLemmas has it.
LEMMA ToplamSum ==
  ASSUME NEW d
  PROVE  Toplam(d) = SumFunctionOnSet(d, DOMAIN d)
BY DEF Toplam, MapThenSumSet, SumFunctionOnSet, FoldFunctionOnSet, MapThenFoldSet

LEMMA UcParca ==
  ASSUME NEW a \in Int, NEW b \in Int, NEW c \in Int
  PROVE  Toplam([komisyon |-> a, malKdv |-> b, hizmetKdv |-> c]) = a + b + c
<1> DEFINE d == [komisyon |-> a, malKdv |-> b, hizmetKdv |-> c]
           D1 == {"komisyon"}
           D2 == {"komisyon", "malKdv"}
<1>1. DOMAIN d = D2 \cup {"hizmetKdv"} /\ d["komisyon"] = a /\ d["malKdv"] = b /\ d["hizmetKdv"] = c
  OBVIOUS
<1>2. D2 = D1 \cup {"malKdv"} /\ "malKdv" \notin D1 /\ "hizmetKdv" \notin D2
  OBVIOUS
<1>3. IsFiniteSet(D1) /\ IsFiniteSet(D2)
  BY <1>2, FS_Singleton, FS_AddElement
<1> HIDE DEF d
<1>4. SumFunctionOnSet(d, D1) = a
  BY <1>1, SumOfOne
<1>5. SumFunctionOnSet(d, D2) = b + a
  BY <1>1, <1>2, <1>3, <1>4, SumAdds
<1>6. SumFunctionOnSet(d, D2 \cup {"hizmetKdv"}) = c + (b + a)
  BY <1>1, <1>2, <1>3, <1>5, SumAdds
<1> QED BY <1>1, <1>6, ToplamSum DEF d

LEMMA DortParca ==
  ASSUME NEW a \in Int, NEW e \in Int, NEW b \in Int, NEW c \in Int
  PROVE  Toplam([komisyon |-> a, kargo |-> e, malKdv |-> b, hizmetKdv |-> c]) = a + e + b + c
<1> DEFINE d == [komisyon |-> a, kargo |-> e, malKdv |-> b, hizmetKdv |-> c]
           D1 == {"komisyon"}
           D2 == {"komisyon", "kargo"}
           D3 == {"komisyon", "kargo", "malKdv"}
<1>1. /\ DOMAIN d = D3 \cup {"hizmetKdv"}
      /\ d["komisyon"] = a /\ d["kargo"] = e /\ d["malKdv"] = b /\ d["hizmetKdv"] = c
  OBVIOUS
<1>2. /\ D2 = D1 \cup {"kargo"} /\ "kargo" \notin D1
      /\ D3 = D2 \cup {"malKdv"} /\ "malKdv" \notin D2 /\ "hizmetKdv" \notin D3
  OBVIOUS
<1>3. IsFiniteSet(D1) /\ IsFiniteSet(D2) /\ IsFiniteSet(D3)
  <2>1. IsFiniteSet(D1)
    BY FS_Singleton
  <2>2. IsFiniteSet(D2)
    BY <1>2, <2>1, FS_AddElement
  <2> QED BY <1>2, <2>1, <2>2, FS_AddElement
<1> HIDE DEF d
<1>4. SumFunctionOnSet(d, D1) = a
  BY <1>1, SumOfOne
<1>5. SumFunctionOnSet(d, D2) = e + a
  BY <1>1, <1>2, <1>3, <1>4, SumAdds
<1>6. SumFunctionOnSet(d, D3) = b + (e + a)
  BY <1>1, <1>2, <1>3, <1>5, SumAdds
<1>7. SumFunctionOnSet(d, D3 \cup {"hizmetKdv"}) = c + (b + (e + a))
  BY <1>1, <1>2, <1>3, <1>6, SumAdds
<1> QED BY <1>1, <1>7, ToplamSum DEF d

LEMMA YuzdeNat ==
  ASSUME NEW tutar \in Nat, NEW oran \in Nat
  PROVE  Yuzde(tutar, oran) \in Nat
<1>1. tutar * oran \in Nat
  OBVIOUS
<1> QED BY <1>1 DEF Yuzde

LEMMA KargoNat ==
  ASSUME NEW desi \in Nat
  PROVE  KargoKurusHesapla(desi) \in Nat
<1> DEFINE son == Max(DOMAIN DESI_TARIFE_KURUS)
<1>1. son \in Nat /\ DOMAIN DESI_TARIFE_KURUS = 0..son
  BY FiyatAssumption
<1>2. KargoKurusHesapla(desi)
        = IF desi <= son THEN DESI_TARIFE_KURUS[desi]
          ELSE DESI_TARIFE_KURUS[son] + DESI_USTU_BIRIM_KURUS * (desi - son)
  BY DEF KargoKurusHesapla
<1> HIDE DEF son
<1>3. \A d \in 0..son : DESI_TARIFE_KURUS[d] \in Nat
  BY <1>1, FiyatAssumption
<1>4. CASE desi <= son
  BY <1>1, <1>2, <1>3, <1>4
<1>5. CASE ~ desi <= son
  <2>1. desi - son \in Nat /\ DESI_USTU_BIRIM_KURUS \in Nat /\ DESI_TARIFE_KURUS[son] \in Nat
    BY <1>1, <1>3, <1>5, FiyatAssumption
  <2>2. DESI_USTU_BIRIM_KURUS * (desi - son) \in Nat
    BY <2>1
  <2> QED BY <1>2, <1>5, <2>1, <2>2
<1> QED BY <1>4, <1>5

LEMMA OranNat == KomisyonOran \in Nat
BY FiyatAssumption DEF KomisyonOran

\* The price shown is the next whole lira.
LEMMA Yuvarlanir ==
  ASSUME NEW ham \in Nat
  PROVE  /\ ((ham + 99) \div 100) * 100 \in Nat
         /\ ham <= ((ham + 99) \div 100) * 100
         /\ ((ham + 99) \div 100) * 100 < ham + 100
         /\ (((ham + 99) \div 100) * 100) % 100 = 0
OBVIOUS

\* The price a product shows in BaniCarsi is exactly what its parts pay: the seller's net, the
\* commission, the freight with the rounding, and both VATs, none of them negative; and the
\* customer pays less than one lira for the rounding (vitrinFiyatHesapla).
THEOREM PricePaysItsParts ==
  ASSUME NEW net \in Nat, NEW desi \in Nat, NEW model, NEW kdv \in Nat
  PROVE  /\ Dagitilir(VitrinFiyatHesapla(net, desi, model, kdv))
         /\ VitrinFiyatHesapla(net, desi, model, kdv).net = net
         /\ VitrinFiyatHesapla(net, desi, model, kdv).price % 100 = 0
         /\ VitrinFiyatHesapla(net, desi, model, kdv).dagitim.kargo - KargoKurusHesapla(desi) \in 0..99
<1> DEFINE komisyon == Yuzde(net, KomisyonOran)
           kargo == KargoKurusHesapla(desi)
           malKdv == Yuzde(net, kdv)
           matrah == IF model = "B" THEN komisyon ELSE komisyon + kargo
           hizmetKdv == Yuzde(matrah, HIZMET_KDV_ORAN)
           ham == net + komisyon + kargo + malKdv + hizmetKdv
           vitrin == ((ham + 99) \div 100) * 100
           dagitim == [komisyon |-> komisyon, kargo |-> kargo + YuvarlamaPayi(vitrin, ham),
                       malKdv |-> malKdv, hizmetKdv |-> hizmetKdv]
<1>1. VitrinFiyatHesapla(net, desi, model, kdv) = [price |-> vitrin, net |-> net, dagitim |-> dagitim]
  BY DEF VitrinFiyatHesapla
<1>2. komisyon \in Nat /\ kargo \in Nat /\ malKdv \in Nat
  BY YuzdeNat, KargoNat, OranNat
<1> HIDE DEF komisyon, kargo, malKdv
<1>3. matrah \in Nat /\ HIZMET_KDV_ORAN \in Nat
  BY <1>2 DEF HIZMET_KDV_ORAN
<1> HIDE DEF matrah
<1>4. hizmetKdv \in Nat
  BY <1>3, YuzdeNat
<1> HIDE DEF hizmetKdv
<1>5. ham \in Nat
  BY <1>2, <1>4
<1>6. vitrin \in Nat /\ ham <= vitrin /\ vitrin < ham + 100 /\ vitrin % 100 = 0
  <2> HIDE DEF ham
  <2> QED BY <1>5, Yuvarlanir
<1>7. vitrin = net + (komisyon + (kargo + YuvarlamaPayi(vitrin, ham)) + malKdv + hizmetKdv)
  <2> HIDE DEF vitrin
  <2> QED BY <1>2, <1>4, <1>6 DEF YuvarlamaPayi
<1>8. /\ kargo + YuvarlamaPayi(vitrin, ham) \in Nat
      /\ (kargo + YuvarlamaPayi(vitrin, ham)) - kargo \in 0..99
  <2> HIDE DEF vitrin, ham
  <2> QED BY <1>2, <1>5, <1>6 DEF YuvarlamaPayi
<1> HIDE DEF vitrin, ham
<1>9. Toplam(dagitim) = komisyon + (kargo + YuvarlamaPayi(vitrin, ham)) + malKdv + hizmetKdv
  BY <1>2, <1>4, <1>8, DortParca
<1>10. \A a \in DOMAIN dagitim : dagitim[a] \in Nat
  BY <1>2, <1>4, <1>8
<1>11. dagitim.kargo - KargoKurusHesapla(desi) \in 0..99
  BY <1>8 DEF kargo
<1> HIDE DEF dagitim
<1> QED BY <1>1, <1>6, <1>7, <1>9, <1>10, <1>11 DEF Dagitilir

\* The same of a surcharge, which carries no freight and is not rounded (ekUcretHesapla).
LEMMA EkUcretDagitilir ==
  ASSUME NEW net \in Nat, NEW kdv \in Nat
  PROVE  LET f == EkUcretHesapla(net, kdv)
         IN  f.ekUcret \in Nat /\ f.ekUcret = f.net + Toplam(f.dagitim)
<1> DEFINE komisyon == Yuzde(net, KomisyonOran)
           malKdv == Yuzde(net, kdv)
           hizmetKdv == Yuzde(komisyon, HIZMET_KDV_ORAN)
           dagitim == [komisyon |-> komisyon, malKdv |-> malKdv, hizmetKdv |-> hizmetKdv]
<1>1. EkUcretHesapla(net, kdv)
        = [ekUcret |-> net + komisyon + malKdv + hizmetKdv, net |-> net, dagitim |-> dagitim]
  BY DEF EkUcretHesapla
<1>2. komisyon \in Nat /\ malKdv \in Nat
  BY YuzdeNat, OranNat
<1> HIDE DEF komisyon, malKdv
<1>3. hizmetKdv \in Nat
  BY <1>2, YuzdeNat DEF HIZMET_KDV_ORAN
<1> HIDE DEF hizmetKdv
<1>4. Toplam(dagitim) = komisyon + malKdv + hizmetKdv
  BY <1>2, <1>3, UcParca
<1> HIDE DEF dagitim
<1> QED BY <1>1, <1>2, <1>3, <1>4

\* A sum over the members of a finite set, by what each adds.
LEMMA ToplamEsit ==
  ASSUME NEW T, IsFiniteSet(T),
         \A x \in T : x.ekUcret \in Nat /\ x.ekUcret = x.net + Toplam(x.dagitim)
  PROVE  /\ MapThenSumSet(LAMBDA x : x.ekUcret, T) = MapThenSumSet(LAMBDA x : x.net + Toplam(x.dagitim), T)
         /\ MapThenSumSet(LAMBDA x : x.ekUcret, T) \in Int
<1> DEFINE a == [x \in T |-> x.ekUcret]
           b == [x \in T |-> x.net + Toplam(x.dagitim)]
           Ilk(p) == p = [s \in SUBSET T |-> IF s = {} THEN 0 ELSE Pick(s).ekUcret + p[s \ {Pick(s)}]]
           Son(p) == p = [s \in SUBSET T |->
                            IF s = {} THEN 0
                            ELSE (Pick(s).net + Toplam(Pick(s).dagitim)) + p[s \ {Pick(s)}]]
<1>1. MapThenSumSet(LAMBDA x : x.ekUcret, T) = (CHOOSE p : Ilk(p))[T]
  BY DEF MapThenSumSet, MapThenFoldSet, Pick
<1>2. MapThenSumSet(LAMBDA x : x.net + Toplam(x.dagitim), T) = (CHOOSE p : Son(p))[T]
  BY DEF MapThenSumSet, MapThenFoldSet, Pick
<1>3. \A s \in SUBSET T : s # {} => Pick(s) \in T
  BY DEF Pick
<1>4. \A p : Ilk(p) <=> Solves(a, T, p)
  BY <1>3 DEF Solves, IsSum
<1>5. \A p : Son(p) <=> Solves(b, T, p)
  BY <1>3 DEF Solves, IsSum
<1> HIDE DEF Ilk, Son
<1>6. Ilk(CHOOSE p : Ilk(p)) /\ Son(CHOOSE p : Son(p))
  <2>1. (\E p : Ilk(p)) /\ (\E p : Son(p))
    BY <1>4, <1>5, SumExists
  <2> QED BY <2>1
<1>7. \A x \in T : a[x] = b[x] /\ a[x] \in Int
  OBVIOUS
<1> HIDE DEF a, b
<1>8. \A s \in SUBSET T : (CHOOSE p : Ilk(p))[s] = (CHOOSE p : Son(p))[s]
  BY <1>4, <1>5, <1>6, <1>7, SumUnique
<1>9. (CHOOSE p : Ilk(p))[T] \in Int
  <2>1. PICK g : Solves(a, T, g) /\ SumFunctionOnSet(a, T) = g[T]
    BY SumIsSolution
  <2>2. \A s \in SUBSET T : (CHOOSE p : Ilk(p))[s] = g[s]
    BY <1>4, <1>6, <2>1, SumUnique
  <2>3. SumFunctionOnSet(a, T) \in Int
    BY <1>7, SumIsInt
  <2> QED BY <2>1, <2>2, <2>3
<1> QED BY <1>1, <1>2, <1>8, <1>9

-----------------------------------------------------------------------------
(* Goods *)

\* Stores, products and variants that there are, and those of BaniCarsi.
Dukkanlar == Duran(magaza)

CarsiDukkanlar == CarsiDuran(magaza)

Urunler == Mallar(urun, Dukkanlar)

CarsiUrunler == Mallar(urun, CarsiDukkanlar)

Varyantlar == {v \in DOMAIN varyant : varyant[v].p \in Urunler}

CarsiVaryantlar == {v \in DOMAIN varyant : varyant[v].p \in CarsiUrunler}

FIYAT_ALANLARI == {"price", "net", "dagitim"}

\* What a handler writes over a product: the price with all its parts, or none of it.
UrunYazilir(veri, carsi) ==
  /\ "s" \notin DOMAIN veri /\ Sayilar(veri)
  /\ carsi => \/ FIYAT_ALANLARI \cap DOMAIN veri = {}
              \/ FIYAT_ALANLARI \subseteq DOMAIN veri /\ Dagitilir(veri)

VaryantYazilir(veri, carsi) ==
  /\ "p" \notin DOMAIN veri
  /\ "stok" \in DOMAIN veri /\ veri.stok # <<>> => veri.stok[1] \in Nat
  /\ "fiyat" \in DOMAIN veri /\ veri.fiyat # <<>> => FiyatSatiri(veri.fiyat[1], carsi)

\* What a request knows of the goods: M, CM the products, V, CV the variants.
MalBilir(q, M, CM, V, CV) ==
  /\ q.op \in {"urunYaz", "stokYaz"} => q.p \in M /\ UrunYazilir(q.veri, q.p \in CM)
  /\ q.op = "varyantYaz" => q.v \in V /\ VaryantYazilir(q.veri, q.v \in CV)
  /\ q.op \in {"ekleMagaza", "ekleAra", "ekleYaz"} => KalemSatiri(q.kalem, M, CM) /\ q.kalem.adet = 1
  /\ q.op = "ekleArtir" => q.kalem.adet \in Nat \ {0} /\ q.kalem.birim \in Nat

Secenekler ==
  /\ IsFiniteSet(DOMAIN secenek)
  /\ \A o \in DOMAIN secenek : "ek" \in DOMAIN secenek[o] /\ secenek[o].ek \in Nat

Sahipli ==
  /\ DOMAIN magaza \subseteq Stores
  /\ \A s \in DOMAIN magaza : magaza[s] # YokMagaza => magaza[s].sahip # NoUser

MalInv ==
  /\ DOMAIN req = Requests
  /\ \A r \in Requests : MalBilir(req[r], Urunler, CarsiUrunler, Varyantlar, CarsiVaryantlar)
  /\ Sahipli
  /\ NoRow \notin DOMAIN urun
  /\ \A p \in DOMAIN urun : UrunSatiri(urun[p], Dukkanlar, CarsiDukkanlar)
  /\ \A v \in DOMAIN varyant : VaryantSatiri(varyant[v], Urunler, CarsiUrunler)
  /\ \A k \in DOMAIN kalem : KalemYeri(kalem[k], Urunler, CarsiUrunler)
  /\ satis \in Seq(SatisRow(Urunler, DOMAIN varyant))
  /\ Secenekler

-----------------------------------------------------------------------------
(* What a step may do to the goods: no store, product or variant goes away or goes elsewhere, *)
(* and every row that is written, and all that a request learns, is right for those there are. *)

\* B has all of A, and its marked members CB mark no other members of A than CA.
Genisler(A, CA, B, CB) == A \subseteq B /\ CB \cap A \subseteq CA

LEMMA UrunGenis ==
  ASSUME NEW x, NEW S, NEW CS, NEW S2, NEW CS2, Genisler(S, CS, S2, CS2), NoStore \notin CS2,
         UrunSatiri(x, S, CS)
  PROVE  UrunSatiri(x, S2, CS2)
BY DEF Genisler, UrunSatiri, YokUrun

LEMMA VaryantGenis ==
  ASSUME NEW x, NEW M, NEW CM, NEW M2, NEW CM2, Genisler(M, CM, M2, CM2), VaryantSatiri(x, M, CM)
  PROVE  VaryantSatiri(x, M2, CM2)
<1>1. CASE x = YokVaryant
  BY <1>1 DEF VaryantSatiri, YokVaryant
<1>2. CASE x # YokVaryant
  <2>1. x.p \in M /\ x.p \in M2 /\ (x.p \in CM2 => x.p \in CM)
    BY <1>2 DEF VaryantSatiri, Genisler
  <2> QED BY <2>1 DEF VaryantSatiri, FiyatSatiri
<1> QED BY <1>1, <1>2

LEMMA KalemGenis ==
  ASSUME NEW z, NEW M, NEW CM, NEW M2, NEW CM2, Genisler(M, CM, M2, CM2), KalemSatiri(z, M, CM)
  PROVE  KalemSatiri(z, M2, CM2)
<1>1. z.p \in M2 /\ (z.p \in CM2 => z.p \in CM)
  BY DEF KalemSatiri, Genisler
<1> QED BY <1>1 DEF KalemSatiri

LEMMA BilirGenis ==
  ASSUME NEW q, NEW M, NEW CM, NEW M2, NEW CM2, Genisler(M, CM, M2, CM2),
         NEW V, NEW CV, NEW V2, NEW CV2, Genisler(V, CV, V2, CV2), MalBilir(q, M, CM, V, CV)
  PROVE  MalBilir(q, M2, CM2, V2, CV2)
<1>1. ASSUME q.op \in {"urunYaz", "stokYaz"} PROVE q.p \in M2 /\ UrunYazilir(q.veri, q.p \in CM2)
  <2>1. q.p \in M /\ UrunYazilir(q.veri, q.p \in CM)
    BY <1>1 DEF MalBilir
  <2>2. q.p \in M2 /\ (q.p \in CM2 => q.p \in CM)
    BY <2>1 DEF Genisler
  <2> QED BY <2>1, <2>2 DEF UrunYazilir
<1>2. ASSUME q.op = "varyantYaz" PROVE q.v \in V2 /\ VaryantYazilir(q.veri, q.v \in CV2)
  <2>1. q.v \in V /\ VaryantYazilir(q.veri, q.v \in CV)
    BY <1>2 DEF MalBilir
  <2>2. q.v \in V2 /\ (q.v \in CV2 => q.v \in CV)
    BY <2>1 DEF Genisler
  <2> QED BY <2>1, <2>2 DEF VaryantYazilir, FiyatSatiri
<1>3. ASSUME q.op \in {"ekleMagaza", "ekleAra", "ekleYaz"}
      PROVE  KalemSatiri(q.kalem, M2, CM2) /\ q.kalem.adet = 1
  BY <1>3, KalemGenis DEF MalBilir
<1> QED BY <1>1, <1>2, <1>3 DEF MalBilir

\* The parts of a step.
MagazaAdimi ==
  /\ Sahipli' /\ DOMAIN magaza' = DOMAIN magaza
  /\ \A s \in Dukkanlar : magaza'[s].sahip # NoUser /\ magaza'[s].dikey = magaza[s].dikey

UrunAdimi ==
  /\ DOMAIN urun' = DOMAIN urun
  /\ \A p \in Urunler : urun'[p].s = urun[p].s
  /\ \A p \in DOMAIN urun : UrunSatiri(urun'[p], Dukkanlar, CarsiDukkanlar)

VaryantAdimi ==
  /\ DOMAIN varyant' = DOMAIN varyant
  /\ \A v \in Varyantlar : varyant'[v].p = varyant[v].p
  /\ \A v \in DOMAIN varyant : VaryantSatiri(varyant'[v], Urunler, CarsiUrunler)

KalemAdimi ==
  /\ DOMAIN kalem' = DOMAIN kalem
  /\ \A k \in DOMAIN kalem : KalemYeri(kalem'[k], Urunler, CarsiUrunler)

SatisAdimi == satis' \in Seq(SatisRow(Urunler, DOMAIN varyant))

MalOgrenir ==
  /\ DOMAIN req' = Requests
  /\ \A r \in Requests :
       req'[r] = req[r] \/ MalBilir(req'[r], Urunler, CarsiUrunler, Varyantlar, CarsiVaryantlar)

LEMMA MalKurulur ==
  ASSUME MalInv, MagazaAdimi, UrunAdimi, VaryantAdimi, KalemAdimi, SatisAdimi, Secenekler', MalOgrenir
  PROVE  MalInv'
<1>1. Genisler(Dukkanlar, CarsiDukkanlar, Dukkanlar', CarsiDukkanlar') /\ NoStore \notin CarsiDukkanlar'
  <2>1. NoStore \notin DOMAIN magaza'
    BY KullaniciAssumption DEF MagazaAdimi, Sahipli
  <2> QED BY <2>1 DEF MagazaAdimi, Genisler, Dukkanlar, CarsiDukkanlar, Duran, CarsiDuran
<1>2. Genisler(Urunler, CarsiUrunler, Urunler', CarsiUrunler')
  BY <1>1 DEF UrunAdimi, Genisler, Urunler, CarsiUrunler, Mallar
<1>3. Genisler(Varyantlar, CarsiVaryantlar, Varyantlar', CarsiVaryantlar')
  BY <1>2 DEF VaryantAdimi, Genisler, Varyantlar, CarsiVaryantlar
<1>4. \A p \in DOMAIN urun' : UrunSatiri(urun'[p], Dukkanlar', CarsiDukkanlar')
  BY <1>1, UrunGenis DEF UrunAdimi
<1>5. \A v \in DOMAIN varyant' : VaryantSatiri(varyant'[v], Urunler', CarsiUrunler')
  BY <1>2, VaryantGenis DEF VaryantAdimi
<1>6. \A k \in DOMAIN kalem' : KalemYeri(kalem'[k], Urunler', CarsiUrunler')
  BY <1>2, KalemGenis DEF KalemAdimi, KalemYeri
<1>7. satis' \in Seq(SatisRow(Urunler', DOMAIN varyant'))
  <2>1. SatisRow(Urunler, DOMAIN varyant) \subseteq SatisRow(Urunler', DOMAIN varyant')
    BY <1>2 DEF Genisler, VaryantAdimi, SatisRow
  <2> QED BY <2>1 DEF SatisAdimi
<1>8. \A r \in Requests : MalBilir(req'[r], Urunler', CarsiUrunler', Varyantlar', CarsiVaryantlar')
  <2>1. \A r \in Requests : MalBilir(req'[r], Urunler, CarsiUrunler, Varyantlar, CarsiVaryantlar)
    BY DEF MalInv, MalOgrenir
  <2> QED BY <1>2, <1>3, <2>1, BilirGenis
<1> QED BY <1>4, <1>5, <1>6, <1>7, <1>8 DEF MalInv, MagazaAdimi, UrunAdimi, MalOgrenir

\* What is left alone stays right.
LEMMA MagazaSabit ==
  ASSUME MalInv, magaza' = magaza
  PROVE  MagazaAdimi
BY DEF MalInv, MagazaAdimi, Sahipli, Dukkanlar, Duran

LEMMA UrunSabit ==
  ASSUME MalInv, urun' = urun
  PROVE  UrunAdimi
BY DEF MalInv, UrunAdimi

LEMMA VaryantSabit ==
  ASSUME MalInv, varyant' = varyant
  PROVE  VaryantAdimi
BY DEF MalInv, VaryantAdimi

LEMMA KalemSabit ==
  ASSUME MalInv, kalem' = kalem
  PROVE  KalemAdimi
BY DEF MalInv, KalemAdimi

LEMMA SatisSabit ==
  ASSUME MalInv, satis' = satis
  PROVE  SatisAdimi
BY DEF MalInv, SatisAdimi

LEMMA SecenekSabit ==
  ASSUME MalInv, secenek' = secenek
  PROVE  Secenekler'
BY DEF MalInv, Secenekler

LEMMA BaslaMal ==
  ASSUME MalInv, NEW r, NEW q, MalBilir(q, Urunler, CarsiUrunler, Varyantlar, CarsiVaryantlar),
         Basla(r, q) \/ Gec(r, q)
  PROVE  MalOgrenir
BY DEF MalInv, MalOgrenir, Basla, Gec

LEMMA BitirMal ==
  ASSUME MalInv, NEW r, Bitir(r)
  PROVE  MalOgrenir
<1>1. MalBilir(Bos, Urunler, CarsiUrunler, Varyantlar, CarsiVaryantlar)
  BY DEF Bos, MalBilir
<1> QED BY <1>1, BaslaMal DEF Bitir

LEMMA DurursaMal ==
  ASSUME MalInv, req' = req
  PROVE  MalOgrenir
BY DEF MalInv, MalOgrenir

MalOps == {"urunYaz", "stokYaz", "varyantYaz", "ekleMagaza", "ekleAra", "ekleYaz", "ekleArtir"}

LEMMA SurerMal ==
  ASSUME MalInv, NEW ops, Surer(ops), ops \cap MalOps = {}
  PROVE  MalOgrenir
<1>1. ASSUME NEW r \in Requests, req'[r].op \in ops
      PROVE  MalBilir(req'[r], Urunler, CarsiUrunler, Varyantlar, CarsiVaryantlar)
  <2>1. req'[r].op \notin MalOps
    BY <1>1
  <2> QED BY <2>1 DEF MalOps, MalBilir
<1> QED BY <1>1 DEF MalInv, MalOgrenir, Surer

-----------------------------------------------------------------------------
(* What is written over a product *)

LEMMA UstuneSayilar ==
  ASSUME NEW yeni, NEW eski, Sayilar(yeni), Sayilar(eski)
  PROVE  Sayilar(Ustune(yeni, eski))
<1> SUFFICES ASSUME NEW a \in SayiAlanlari, a \in DOMAIN Ustune(yeni, eski)
             PROVE  Ustune(yeni, eski)[a] \in Nat
  BY DEF Sayilar
<1> QED BY UstuneAlan DEF Sayilar

LEMMA UstuneUrun ==
  ASSUME NEW x, NEW S, NEW CS, NEW veri,
         {"s", "dagitim"} \cup SayiAlanlari \subseteq DOMAIN x, Sayilar(x), x.s \in S,
         UrunYazilir(veri, x.s \in CS),
         x.s \in CS => Dagitilir(x) \/ FIYAT_ALANLARI \subseteq DOMAIN veri
  PROVE  UrunSatiri(Ustune(veri, x), S, CS) /\ Ustune(veri, x).s = x.s
<1> DEFINE y == Ustune(veri, x)
<1>1. DOMAIN x \subseteq DOMAIN y /\ Sayilar(y)
  BY UstuneSayilar, UstuneAlan DEF UrunYazilir
<1>2. y["s"] = x["s"]
  BY UstuneAlan DEF UrunYazilir
<1>3. ASSUME x.s \in CS PROVE Dagitilir(y)
  <2>1. {"price", "net", "dagitim"} \subseteq DOMAIN x
    BY DEF SayiAlanlari
  <2>2. CASE FIYAT_ALANLARI \subseteq DOMAIN veri
    <3>1. y["price"] = veri["price"] /\ y["net"] = veri["net"] /\ y["dagitim"] = veri["dagitim"]
      BY <2>2, UstuneAlan DEF FIYAT_ALANLARI
    <3>2. Dagitilir(veri)
      BY <1>3, <2>2 DEF UrunYazilir, FIYAT_ALANLARI
    <3> HIDE DEF y
    <3> QED BY <3>1, <3>2 DEF Dagitilir
  <2>3. CASE ~ FIYAT_ALANLARI \subseteq DOMAIN veri
    <3>1. Dagitilir(x) /\ FIYAT_ALANLARI \cap DOMAIN veri = {}
      BY <1>3, <2>3 DEF UrunYazilir
    <3>2. y["price"] = x["price"] /\ y["net"] = x["net"] /\ y["dagitim"] = x["dagitim"]
      BY <2>1, <3>1, UstuneAlan DEF FIYAT_ALANLARI
    <3> HIDE DEF y
    <3> QED BY <3>1, <3>2 DEF Dagitilir
  <2> QED BY <2>2, <2>3
<1> HIDE DEF y
<1>4. UrunSatiri(y, S, CS) /\ y.s = x.s
  BY <1>1, <1>2, <1>3 DEF UrunSatiri
<1> QED BY <1>4 DEF y

LEMMA SayiAl ==
  ASSUME NEW dto, Sayilar(dto), NEW a \in SayiAlanlari, NEW n \in Nat
  PROVE  Al(dto, a, n) \in Nat
BY DEF Al, Sayilar

LEMMA CarsiDukkan ==
  ASSUME NEW s \in Dukkanlar
  PROVE  s \in CarsiDukkanlar <=> Carsi(s)
BY DEF Dukkanlar, CarsiDukkanlar, CarsiDuran, Carsi

\* The price columns of a product, all of them in BaniCarsi.
LEMMA FiyatYazilir ==
  ASSUME NEW s \in Dukkanlar, NEW net \in Nat, NEW desi \in Nat, NEW model, NEW kdv \in Nat,
         NEW dto, Sayilar(dto)
  PROVE  LET fiyat == UrunFiyatAlanlari(s, net, desi, model, kdv, dto)
         IN  /\ UrunYazilir(fiyat, s \in CarsiDukkanlar)
             /\ s \in CarsiDukkanlar => FIYAT_ALANLARI \subseteq DOMAIN fiyat
<1>1. CASE Carsi(s)
  <2> DEFINE f == VitrinFiyatHesapla(net, desi, model, kdv)
  <2>1. DOMAIN f = {"price", "net", "dagitim"}
    BY DEF VitrinFiyatHesapla
  <2>2. Dagitilir(f)
    BY PricePaysItsParts
  <2>3. UrunFiyatAlanlari(s, net, desi, model, kdv, dto) = f
    BY <1>1 DEF UrunFiyatAlanlari
  <2> HIDE DEF f
  <2>4. Sayilar(f)
    BY <2>1, <2>2 DEF Sayilar, SayiAlanlari, Dagitilir
  <2> QED BY <2>1, <2>2, <2>3, <2>4 DEF UrunYazilir, FIYAT_ALANLARI
<1>2. CASE ~ Carsi(s)
  <2> DEFINE f == Sec(dto, {"price"})
  <2>1. "s" \notin DOMAIN f /\ Sayilar(f)
    BY DEF Sec, Sayilar
  <2>2. UrunFiyatAlanlari(s, net, desi, model, kdv, dto) = f
    BY <1>2 DEF UrunFiyatAlanlari
  <2> HIDE DEF f
  <2> QED BY <1>2, <2>1, <2>2, CarsiDukkan DEF UrunYazilir
<1> QED BY <1>1, <1>2

\* The rate found for a text is one of the table's.
LEMMA KdvNat ==
  ASSUME NEW metin
  PROVE  KdvOraniBul(metin) \in Nat
<1> DEFINE uyan == {k \in DOMAIN KDV_KURALLARI : KDV_KURALLARI[k].etiket \in metin}
<1>1. DOMAIN KDV_KURALLARI = 1..16
  BY DEF KDV_KURALLARI
<1>2. \A k \in 1..16 : KDV_KURALLARI[k].oran \in Nat
  <2>1. /\ KDV_KURALLARI[1].oran \in Nat /\ KDV_KURALLARI[2].oran \in Nat /\ KDV_KURALLARI[3].oran \in Nat /\ KDV_KURALLARI[4].oran \in Nat
        /\ KDV_KURALLARI[5].oran \in Nat /\ KDV_KURALLARI[6].oran \in Nat /\ KDV_KURALLARI[7].oran \in Nat /\ KDV_KURALLARI[8].oran \in Nat
        /\ KDV_KURALLARI[9].oran \in Nat /\ KDV_KURALLARI[10].oran \in Nat /\ KDV_KURALLARI[11].oran \in Nat /\ KDV_KURALLARI[12].oran \in Nat
        /\ KDV_KURALLARI[13].oran \in Nat /\ KDV_KURALLARI[14].oran \in Nat /\ KDV_KURALLARI[15].oran \in Nat /\ KDV_KURALLARI[16].oran \in Nat
    BY DEF KDV_KURALLARI
  <2>2. \A k \in 1..16 : k <= 8 \/ k \in 9..16
    OBVIOUS
  <2>3. \A k \in 1..16 : k <= 8 => KDV_KURALLARI[k].oran \in Nat
    BY <2>1
  <2>4. \A k \in 9..16 : KDV_KURALLARI[k].oran \in Nat
    BY <2>1
  <2> QED BY <2>2, <2>3, <2>4
<1>3. KdvOraniBul(metin) = IF uyan = {} THEN VARSAYILAN_KDV ELSE KDV_KURALLARI[Min(uyan)].oran
  BY DEF KdvOraniBul
<1>4. uyan \in SUBSET Nat
  BY <1>1
<1>5. uyan \subseteq 1..16
  BY <1>1
<1> HIDE DEF uyan
<1>6. CASE uyan # {}
  <2>1. \E x \in uyan : \A y \in uyan : x <= y
    BY <1>4, <1>6, LeastNatural
  <2>2. Min(uyan) \in uyan
    BY <2>1 DEF Min
  <2> QED BY <1>2, <1>3, <1>5, <1>6, <2>2
<1> QED BY <1>3, <1>6 DEF VARSAYILAN_KDV

\* What updateProduct computes from the row it has read.
LEMMA VeriYazilir ==
  ASSUME NEW eski, UrunSatiri(eski, Dukkanlar, CarsiDukkanlar), eski.s \in Dukkanlar,
         NEW dto, Sayilar(dto)
  PROVE  UrunYazilir(UrunVerisi(eski, dto), eski.s \in CarsiDukkanlar)
<1> DEFINE net == Al(dto, "net", eski.net)
           desi == Al(dto, "desi", eski.desi)
           model == Al(dto, "model", eski.model)
           kdv == Al(dto, "kdv", eski.kdv)
           fiyat == UrunFiyatAlanlari(eski.s, net, desi, model, kdv, dto)
           kalan == [desi |-> desi, model |-> model, kdv |-> kdv]
           sec == Sec(dto, {"ad", "net", "stok"})
           alt == Ustune(sec, kalan)
           veri == Ustune(fiyat, alt)
           kapali == [aktif |-> FALSE]
           carsi == eski.s \in CarsiDukkanlar
<1>1. UrunVerisi(eski, dto) \in {veri, Ustune(kapali, veri)}
  BY DEF UrunVerisi
<1>2. net \in Nat /\ desi \in Nat /\ kdv \in Nat
  <2>1. eski.net \in Nat /\ eski.desi \in Nat /\ eski.kdv \in Nat
    BY DEF UrunSatiri, Sayilar, SayiAlanlari
  <2> QED BY <2>1, SayiAl DEF SayiAlanlari
<1> HIDE DEF net, desi, kdv
<1>3. UrunYazilir(fiyat, carsi) /\ (carsi => FIYAT_ALANLARI \subseteq DOMAIN fiyat)
  BY <1>2, FiyatYazilir
<1> HIDE DEF fiyat
<1>4. Sayilar(kalan) /\ Sayilar(sec) /\ "s" \notin DOMAIN kalan /\ "s" \notin DOMAIN sec
  BY <1>2 DEF Sayilar, SayiAlanlari, Sec
<1>5. Sayilar(kapali) /\ DOMAIN kapali = {"aktif"}
  BY DEF Sayilar, SayiAlanlari
<1> HIDE DEF kalan, sec, kapali
<1>6. Sayilar(alt) /\ "s" \notin DOMAIN alt
  BY <1>4, UstuneSayilar, UstuneAlan
<1> HIDE DEF alt
<1>7. Sayilar(veri) /\ "s" \notin DOMAIN veri
  BY <1>3, <1>6, UstuneSayilar, UstuneAlan DEF UrunYazilir
<1>8. carsi => FIYAT_ALANLARI \subseteq DOMAIN veri /\ Dagitilir(veri)
  <2> SUFFICES ASSUME carsi PROVE FIYAT_ALANLARI \subseteq DOMAIN veri /\ Dagitilir(veri)
    OBVIOUS
  <2>1. FIYAT_ALANLARI \subseteq DOMAIN fiyat /\ Dagitilir(fiyat)
    BY <1>3 DEF UrunYazilir, FIYAT_ALANLARI
  <2>2. \A a \in FIYAT_ALANLARI : a \in DOMAIN veri /\ veri[a] = fiyat[a]
    BY <2>1, UstuneAlan
  <2> HIDE DEF veri, carsi
  <2>3. veri["price"] = fiyat["price"] /\ veri["net"] = fiyat["net"] /\ veri["dagitim"] = fiyat["dagitim"]
    BY <2>2 DEF FIYAT_ALANLARI
  <2> QED BY <2>1, <2>2, <2>3 DEF Dagitilir
<1> HIDE DEF veri
<1>9. UrunYazilir(veri, carsi)
  BY <1>7, <1>8 DEF UrunYazilir
<1> DEFINE son == Ustune(kapali, veri)
<1>10. Sayilar(son) /\ "s" \notin DOMAIN son
  BY <1>5, <1>7, UstuneSayilar, UstuneAlan
<1>11. carsi => FIYAT_ALANLARI \subseteq DOMAIN son /\ Dagitilir(son)
  <2> SUFFICES ASSUME carsi PROVE FIYAT_ALANLARI \subseteq DOMAIN son /\ Dagitilir(son)
    OBVIOUS
  <2>1. \A a \in FIYAT_ALANLARI : a \in DOMAIN son /\ son[a] = veri[a]
    BY <1>5, <1>8, UstuneAlan DEF FIYAT_ALANLARI
  <2> HIDE DEF son, carsi
  <2>2. son["price"] = veri["price"] /\ son["net"] = veri["net"] /\ son["dagitim"] = veri["dagitim"]
    BY <2>1 DEF FIYAT_ALANLARI
  <2> QED BY <1>8, <2>1, <2>2 DEF Dagitilir
<1> HIDE DEF son
<1>12. UrunYazilir(son, carsi)
  BY <1>10, <1>11 DEF UrunYazilir
<1> QED BY <1>1, <1>9, <1>12 DEF son

-----------------------------------------------------------------------------
(* The statements about products *)

\* A product that was made is in a store.
LEMMA UrunDukkanda ==
  ASSUME MalInv, NEW p \in DOMAIN urun
  PROVE  /\ urun[p] # YokUrun => urun[p].s \in Dukkanlar
         /\ p \in Urunler <=> urun[p].s \in Dukkanlar
         /\ p \in CarsiUrunler <=> urun[p].s \in CarsiDukkanlar
         /\ UrunSatiri(urun[p], Dukkanlar, CarsiDukkanlar)
BY DEF MalInv, UrunSatiri, Urunler, CarsiUrunler, Mallar

\* A step of the catalogue that leaves carts and options alone.
LEMMA UrunKurulur ==
  ASSUME MalInv, magaza' = magaza, kalem' = kalem, secenek' = secenek,
         UrunAdimi, VaryantAdimi, SatisAdimi, MalOgrenir
  PROVE  MalInv'
BY MalKurulur, MagazaSabit, KalemSabit, SecenekSabit

LEMMA UrunEkleMal ==
  ASSUME MalInv, NEW u, NEW s \in DOMAIN magaza, NEW p \in DOMAIN urun, NEW dto \in YeniUrunler,
         UrunEkle(u, s, p, dto)
  PROVE  UrunAdimi
<1> DEFINE n == Al(dto, "stok", 0)
           net == Al(dto, "net", dto.price)
           desi == Al(dto, "desi", 0)
           model == Al(dto, "model", "A")
           kdv == Al(dto, "kdv", KdvOraniBul(dto.ad))
           fiyat == UrunFiyatAlanlari(s, net, desi, model, kdv, dto)
           satir == [YokUrun EXCEPT !.s = s, !.ad = dto.ad, !.price = dto.price, !.kdv = kdv,
                                    !.desi = desi, !.model = model, !.stok = n]
           yeni == Ustune(fiyat, satir)
<1>1. urun' = [urun EXCEPT ![p] = yeni] /\ urun[p] = YokUrun /\ Var(s)
  BY DEF UrunEkle, PanelIzni, Erisebilir
<1>2. s \in Dukkanlar
  BY <1>1 DEF Var, MalInv, Sahipli, Dukkanlar, Duran
<1>3. Sayilar(dto) /\ dto.price \in Nat
  BY RafGovdeleri DEF Sayilar, SayiAlanlari
<1>4. n \in Nat /\ net \in Nat /\ desi \in Nat /\ kdv \in Nat
  BY <1>3, SayiAl, KdvNat DEF SayiAlanlari
<1> HIDE DEF n, net, desi, kdv, model
<1>5. UrunYazilir(fiyat, s \in CarsiDukkanlar) /\ (s \in CarsiDukkanlar => FIYAT_ALANLARI \subseteq DOMAIN fiyat)
  BY <1>2, <1>3, <1>4, FiyatYazilir
<1>6. {"s", "dagitim"} \cup SayiAlanlari \subseteq DOMAIN satir /\ Sayilar(satir) /\ satir.s = s
  <2>1. /\ satir.s = s /\ satir.net = 0 /\ satir.desi = desi /\ satir.kdv = kdv
        /\ satir.price = dto.price /\ satir.stok = n
    BY DEF YokUrun
  <2>2. {"s", "dagitim"} \cup SayiAlanlari \subseteq DOMAIN satir
    BY DEF YokUrun, SayiAlanlari
  <2> HIDE DEF satir
  <2>3. Sayilar(satir)
    BY <1>3, <1>4, <2>1 DEF Sayilar, SayiAlanlari
  <2> QED BY <2>1, <2>2, <2>3
<1> HIDE DEF fiyat, satir
<1>7. UrunSatiri(yeni, Dukkanlar, CarsiDukkanlar)
  BY <1>2, <1>5, <1>6, UstuneUrun
<1> HIDE DEF yeni
<1>8. p \notin Urunler
  BY <1>1, KullaniciAssumption DEF MalInv, Sahipli, Urunler, Mallar, Dukkanlar, Duran, YokUrun
<1> QED BY <1>1, <1>7, <1>8 DEF MalInv, UrunAdimi, Urunler, Mallar

\* The row of a product there is is written over.
LEMMA UrunYazinca ==
  ASSUME MalInv, NEW p \in Urunler, NEW veri, UrunYazilir(veri, p \in CarsiUrunler),
         urun' = [urun EXCEPT ![p] = Ustune(veri, @)]
  PROVE  UrunAdimi
<1> DEFINE x == urun[p]
<1>1. p \in DOMAIN urun /\ UrunSatiri(x, Dukkanlar, CarsiDukkanlar) /\ x.s \in Dukkanlar
      /\ (p \in CarsiUrunler <=> x.s \in CarsiDukkanlar)
  BY UrunDukkanda DEF Urunler, Mallar
<1>2. urun' = [urun EXCEPT ![p] = Ustune(veri, x)]
  OBVIOUS
<1>3. UrunYazilir(veri, x.s \in CarsiDukkanlar)
  BY <1>1 DEF UrunYazilir
<1> HIDE DEF x
<1>4. UrunSatiri(Ustune(veri, x), Dukkanlar, CarsiDukkanlar) /\ Ustune(veri, x).s = x.s
  BY <1>1, <1>3, UstuneUrun DEF UrunSatiri
<1> QED BY <1>1, <1>2, <1>4 DEF MalInv, UrunAdimi, x

LEMMA UrunYazMal ==
  ASSUME MalInv, NEW r \in Requests, UrunYaz(r) \/ StokYaz(r)
  PROVE  UrunAdimi
<1> DEFINE q == req[r]
<1>1. q.p \in Urunler /\ UrunYazilir(q.veri, q.p \in CarsiUrunler)
  BY DEF MalInv, MalBilir, UrunYaz, StokYaz, Sira
<1>2. urun' = urun \/ urun' = [urun EXCEPT ![q.p] = Ustune(q.veri, @)]
  BY DEF UrunYaz, StokYaz
<1> QED BY <1>1, <1>2, UrunSabit, UrunYazinca

\* What a handler is going to write over a product.
LEMMA YazacakMal ==
  ASSUME MalInv, NEW p \in Urunler, NEW q, q.op \in {"urunYaz", "stokYaz"}, q.p = p,
         UrunYazilir(q.veri, p \in CarsiUrunler)
  PROVE  MalBilir(q, Urunler, CarsiUrunler, Varyantlar, CarsiVaryantlar)
BY DEF MalBilir

LEMMA UrunOkuMal ==
  ASSUME MalInv, NEW r \in Requests, NEW u, NEW p \in DOMAIN urun,
         UrunOnaylaOku(r, u, p) \/ UrunReddetOku(r, u, p) \/ UrunKaldirOku(r, u, p)
  PROVE  MalOgrenir
<1>1. p \in Urunler
  BY UrunDukkanda DEF UrunOnaylaOku, UrunReddetOku, UrunKaldirOku, Onayci, UrunPaneli
<1>2. PICK veri \in {[aktif |-> TRUE], [silindi |-> TRUE, aktif |-> FALSE]} : Basla(r, UrunYazacak(p, veri))
  BY DEF UrunOnaylaOku, UrunReddetOku, UrunKaldirOku
<1>3. UrunYazilir(veri, p \in CarsiUrunler)
  BY <1>2 DEF UrunYazilir, Sayilar, SayiAlanlari, FIYAT_ALANLARI
<1> DEFINE q == UrunYazacak(p, veri)
<1>4. q.op = "urunYaz" /\ q.p = p /\ q.veri = veri
  BY DEF UrunYazacak
<1> HIDE DEF q
<1>5. MalBilir(q, Urunler, CarsiUrunler, Varyantlar, CarsiVaryantlar)
  BY <1>1, <1>3, <1>4, YazacakMal
<1> QED BY <1>2, <1>5, BaslaMal DEF q

LEMMA UrunGuncelleMal ==
  ASSUME MalInv, NEW r \in Requests, NEW u, NEW p \in DOMAIN urun, NEW dto \in UrunDegisiklikleri,
         UrunGuncelleOku(r, u, p, dto)
  PROVE  MalOgrenir
<1> DEFINE veri == UrunVerisi(urun[p], dto)
           q == [op |-> IF "stok" \in DOMAIN dto THEN "stokYaz" ELSE "urunYaz", p |-> p,
                 veri |-> veri, beklenen |-> Al(dto, "beklenen", urun[p].stok)]
<1>1. Basla(r, q) /\ urun[p] # YokUrun
  BY DEF UrunGuncelleOku, UrunPaneli
<1>2. p \in Urunler /\ urun[p].s \in Dukkanlar /\ UrunSatiri(urun[p], Dukkanlar, CarsiDukkanlar)
      /\ (p \in CarsiUrunler <=> urun[p].s \in CarsiDukkanlar)
  BY <1>1, UrunDukkanda
<1>3. Sayilar(dto)
  BY RafGovdeleri
<1>4. UrunYazilir(veri, urun[p].s \in CarsiDukkanlar)
  BY <1>2, <1>3, VeriYazilir
<1> HIDE DEF veri
<1>5. UrunYazilir(veri, p \in CarsiUrunler)
  BY <1>2, <1>4 DEF UrunYazilir
<1>6. q.op \in {"urunYaz", "stokYaz"} /\ q.p = p /\ q.veri = veri
  OBVIOUS
<1> HIDE DEF q
<1>7. MalBilir(q, Urunler, CarsiUrunler, Varyantlar, CarsiVaryantlar)
  BY <1>2, <1>5, <1>6, YazacakMal
<1> QED BY <1>1, <1>7, BaslaMal

-----------------------------------------------------------------------------
(* Sales and returns *)

LEMMA StokUrun ==
  ASSUME MalInv, NEW p \in Urunler, NEW n \in Nat, urun' = [urun EXCEPT ![p].stok = n]
  PROVE  UrunAdimi
<1> DEFINE x == urun[p]
           y == [x EXCEPT !.stok = n]
<1>1. p \in DOMAIN urun /\ UrunSatiri(x, Dukkanlar, CarsiDukkanlar) /\ x.s \in Dukkanlar
  BY UrunDukkanda DEF Urunler, Mallar
<1>2. urun' = [urun EXCEPT ![p] = y]
  BY <1>1
<1> HIDE DEF x
<1>3. DOMAIN y = DOMAIN x /\ y.stok = n /\ \A a \in DOMAIN x : a # "stok" => y[a] = x[a]
  BY <1>1 DEF UrunSatiri, SayiAlanlari
<1> HIDE DEF y
<1>4. y["s"] = x["s"] /\ y["price"] = x["price"] /\ y["net"] = x["net"] /\ y["dagitim"] = x["dagitim"]
  BY <1>1, <1>3 DEF UrunSatiri, SayiAlanlari
<1>5. Sayilar(y)
  BY <1>1, <1>3 DEF UrunSatiri, Sayilar
<1>6. UrunSatiri(y, Dukkanlar, CarsiDukkanlar)
  BY <1>1, <1>3, <1>4, <1>5 DEF UrunSatiri, Dagitilir
<1> QED BY <1>1, <1>2, <1>4, <1>6 DEF MalInv, UrunAdimi, x

LEMMA StokVaryant ==
  ASSUME MalInv, NEW v \in DOMAIN varyant, NEW n \in Nat, varyant[v].stok # <<>>,
         varyant' = [varyant EXCEPT ![v].stok = <<n>>]
  PROVE  VaryantAdimi
<1> DEFINE x == varyant[v]
           y == [x EXCEPT !.stok = <<n>>]
<1>1. VaryantSatiri(x, Urunler, CarsiUrunler) /\ x # YokVaryant
  BY DEF MalInv, YokVaryant
<1>2. varyant' = [varyant EXCEPT ![v] = y]
  OBVIOUS
<1> HIDE DEF x
<1>3. {"p", "stok", "fiyat"} \subseteq DOMAIN x /\ x.p \in Urunler
  BY <1>1 DEF VaryantSatiri
<1>4. DOMAIN y = DOMAIN x /\ y.stok = <<n>> /\ y.p = x.p /\ y.fiyat = x.fiyat
  BY <1>3
<1> HIDE DEF y
<1>5. VaryantSatiri(y, Urunler, CarsiUrunler)
  BY <1>1, <1>3, <1>4 DEF VaryantSatiri
<1> QED BY <1>2, <1>4, <1>5 DEF MalInv, VaryantAdimi, x

\* A piece more or less, if there is one to take.
LEMMA StokOynatMal ==
  ASSUME MalInv, NEW p \in Urunler, NEW vs \in {<<>>} \cup {<<v>> : v \in DOMAIN varyant},
         NEW fark \in {1, -1}, StokOynat(p, vs, fark), fark = 1 \/ SatisOlur(p, vs)
  PROVE  UrunAdimi /\ VaryantAdimi
<1>1. CASE VaryantStogu(vs)
  <2>1. PICK v \in DOMAIN varyant : vs = <<v>>
    BY <1>1 DEF VaryantStogu
  <2> DEFINE n == varyant[v].stok[1] + fark
  <2>2. varyant[v].stok # <<>> /\ varyant' = [varyant EXCEPT ![v].stok = <<@[1] + fark>>] /\ urun' = urun
    BY <1>1, <2>1 DEF VaryantStogu, StokOynat
  <2>3. varyant[v].stok[1] \in Nat
    BY <2>2 DEF MalInv, VaryantSatiri
  <2>4. n \in Nat
    BY <1>1, <2>1, <2>3 DEF SatisOlur
  <2>5. varyant' = [varyant EXCEPT ![v].stok = <<n>>]
    BY <2>2
  <2> HIDE DEF n
  <2> QED BY <2>2, <2>4, <2>5, StokVaryant, UrunSabit
<1>2. CASE ~ VaryantStogu(vs)
  <2> DEFINE n == urun[p].stok + fark
  <2>1. urun' = [urun EXCEPT ![p].stok = @ + fark] /\ varyant' = varyant
    BY <1>2 DEF StokOynat
  <2>2. urun[p].stok \in Nat
    BY UrunDukkanda DEF Urunler, Mallar, UrunSatiri, Sayilar, SayiAlanlari
  <2>3. n \in Nat
    BY <1>2, <2>2 DEF SatisOlur
  <2>4. urun' = [urun EXCEPT ![p].stok = n]
    BY <2>1
  <2> HIDE DEF n
  <2> QED BY <2>1, <2>3, <2>4, StokUrun, VaryantSabit
<1> QED BY <1>1, <1>2

LEMMA SatisMal ==
  ASSUME MalInv, NEW p \in DOMAIN urun, NEW vs \in VaryantTek(p), Satis(p, vs),
         kalem' = kalem
  PROVE  MalInv'
<1> DEFINE x == [p |-> p, v |-> vs, yer |-> StokYeri(vs), iade |-> "YOK"]
<1>1. p \in Urunler
  BY UrunDukkanda DEF Satis, Yayinda, YokUrun
<1>2. vs \in {<<>>} \cup {<<v>> : v \in DOMAIN varyant}
  BY DEF VaryantTek
<1>3. StokOynat(p, vs, -1) /\ SatisOlur(p, vs) /\ satis' = Append(satis, x)
      /\ req' = req /\ magaza' = magaza /\ kalem' = kalem /\ secenek' = secenek
  BY DEF Satis, kadroVars, saticilik, secenekVars
<1>4. x \in SatisRow(Urunler, DOMAIN varyant)
  BY <1>1, <1>2 DEF SatisRow, StokYeri
<1>5. SatisAdimi
  BY <1>3, <1>4 DEF MalInv, SatisAdimi
<1> QED BY <1>1, <1>2, <1>3, <1>5, StokOynatMal, UrunKurulur, DurursaMal

LEMMA IadeMal ==
  ASSUME MalInv, NEW k \in DOMAIN satis, Iade(k), kalem' = kalem
  PROVE  MalInv'
<1> DEFINE x == satis[k]
<1>1. x \in SatisRow(Urunler, DOMAIN varyant)
  BY DEF MalInv
<1>2. x.p \in Urunler /\ x.v \in {<<>>} \cup {<<v>> : v \in DOMAIN varyant}
  BY <1>1 DEF SatisRow
<1>3. StokOynat(x.p, x.v, 1) /\ satis' = [satis EXCEPT ![k].iade = StokYeri(x.v)]
      /\ req' = req /\ magaza' = magaza /\ kalem' = kalem /\ secenek' = secenek
  BY DEF Iade, kadroVars, saticilik, secenekVars
<1> DEFINE y == [x EXCEPT !.iade = StokYeri(x.v)]
<1>4. satis' = [satis EXCEPT ![k] = y] /\ y \in SatisRow(Urunler, DOMAIN varyant)
  BY <1>1, <1>3 DEF SatisRow, StokYeri
<1> HIDE DEF x, y
<1>5. SatisAdimi
  BY <1>4 DEF MalInv, SatisAdimi
<1> QED BY <1>2, <1>3, <1>5, StokOynatMal, UrunKurulur, DurursaMal

LEMMA UrunNextMal ==
  ASSUME MalInv, UrunNext, kalem' = kalem
  PROVE  MalInv'
<1>1. magaza' = magaza
  BY KatalogKorur DEF KatalogNext, kadroVars, saticilik
<1>2. ASSUME UrunAdimi, varyant' = varyant, satis' = satis, secenek' = secenek, MalOgrenir PROVE MalInv'
  BY <1>1, <1>2, UrunKurulur, VaryantSabit, SatisSabit
<1>3. ASSUME NEW u, NEW s \in DOMAIN magaza, NEW p \in DOMAIN urun, NEW dto \in YeniUrunler,
             UrunEkle(u, s, p, dto)
      PROVE  MalInv'
  BY <1>2, <1>3, UrunEkleMal, DurursaMal DEF UrunEkle, secenekVars
<1>4. ASSUME NEW r \in Requests, NEW u, NEW p \in DOMAIN urun,
             \/ UrunOnaylaOku(r, u, p) \/ UrunReddetOku(r, u, p) \/ UrunKaldirOku(r, u, p)
             \/ \E dto \in UrunDegisiklikleri : UrunGuncelleOku(r, u, p, dto)
      PROVE  MalInv'
  <2>1. urun' = urun /\ varyant' = varyant /\ satis' = satis /\ secenek' = secenek
    BY <1>4 DEF UrunOnaylaOku, UrunReddetOku, UrunKaldirOku, UrunGuncelleOku, katalogVars, stokVars,
                secenekVars
  <2>2. MalOgrenir
    BY <1>4, UrunOkuMal, UrunGuncelleMal
  <2> QED BY <1>2, <2>1, <2>2, UrunSabit
<1>5. ASSUME NEW r \in Requests, UrunYaz(r) \/ StokYaz(r) PROVE MalInv'
  <2>1. varyant' = varyant /\ satis' = satis /\ secenek' = secenek /\ Bitir(r)
    BY <1>5 DEF UrunYaz, StokYaz, secenekVars
  <2> QED BY <1>2, <1>5, <2>1, UrunYazMal, BitirMal
<1> QED BY <1>3, <1>4, <1>5, SatisMal, IadeMal DEF UrunNext

-----------------------------------------------------------------------------
(* The statements about variants and options *)

LEMMA VaryantFiyatYazilir ==
  ASSUME MalInv, NEW p \in Urunler, NEW dto, Sayilar(dto)
  PROVE  LET f == VaryantFiyati(p, dto) IN f # <<>> => FiyatSatiri(f[1], p \in CarsiUrunler)
<1> DEFINE desi == Al(dto, "desi", urun[p].desi)
           model == Al(dto, "model", urun[p].model)
           kdv == Al(dto, "kdv", urun[p].kdv)
           net == VaryantNet(dto)
           x == VitrinFiyatHesapla(net, desi, model, kdv)
<1>1. p \in DOMAIN urun /\ urun[p].s \in Dukkanlar /\ (p \in CarsiUrunler <=> urun[p].s \in CarsiDukkanlar)
  BY UrunDukkanda DEF Urunler, Mallar
<1>2. p \in CarsiUrunler <=> Carsi(urun[p].s)
  BY <1>1, CarsiDukkan
<1>3. CASE Carsi(urun[p].s)
  <2>1. urun[p].desi \in Nat /\ urun[p].kdv \in Nat
    BY <1>1, UrunDukkanda DEF UrunSatiri, Sayilar, SayiAlanlari
  <2>2. desi \in Nat /\ kdv \in Nat
    BY <2>1, SayiAl DEF SayiAlanlari
  <2>3. net \in Nat
    <3>1. Al(dto, "price", 0) \in Nat
      BY SayiAl DEF SayiAlanlari
    <3> QED BY <3>1, SayiAl DEF VaryantNet, SayiAlanlari
  <2>4. VaryantFiyati(p, dto) = <<x>>
    BY <1>3 DEF VaryantFiyati
  <2> HIDE DEF desi, kdv, net, model
  <2>5. Dagitilir(x)
    BY <2>2, <2>3, PricePaysItsParts
  <2>6. DOMAIN x = {"price", "net", "dagitim"}
    BY DEF VitrinFiyatHesapla
  <2> HIDE DEF x
  <2> QED BY <2>4, <2>5, <2>6 DEF FiyatSatiri, Dagitilir
<1>4. CASE ~ Carsi(urun[p].s)
  <2> DEFINE y == Sec(dto, {"price"})
  <2>1. VaryantFiyati(p, dto) = IF "price" \in DOMAIN dto THEN <<y>> ELSE <<>>
    BY <1>4 DEF VaryantFiyati
  <2>2. "price" \in DOMAIN dto => "price" \in DOMAIN y /\ y.price \in Nat
    BY DEF Sec, Sayilar, SayiAlanlari
  <2> HIDE DEF y
  <2> QED BY <1>2, <1>4, <2>1, <2>2 DEF FiyatSatiri
<1> QED BY <1>3, <1>4

LEMMA VaryantOlusturMal ==
  ASSUME MalInv, NEW u, NEW p \in DOMAIN urun, NEW v \in DOMAIN varyant, NEW dto \in YeniVaryantlar,
         VaryantOlustur(u, p, v, dto)
  PROVE  VaryantAdimi
<1> DEFINE stok == IF "stok" \in DOMAIN dto THEN <<dto.stok>> ELSE <<>>
           fiyat == VaryantFiyati(p, dto)
           yeni == [p |-> p, aktif |-> TRUE, silindi |-> FALSE, stok |-> stok, fiyat |-> fiyat]
<1>1. varyant' = [varyant EXCEPT ![v] = yeni] /\ varyant[v] = YokVaryant /\ urun[p] # YokUrun
  BY DEF VaryantOlustur, UrunPaneli
<1>2. p \in Urunler
  BY <1>1, UrunDukkanda
<1>3. Sayilar(dto)
  BY RafGovdeleri
<1>4. fiyat # <<>> => FiyatSatiri(fiyat[1], p \in CarsiUrunler)
  BY <1>2, <1>3, VaryantFiyatYazilir
<1>5. stok # <<>> => stok[1] \in Nat
  BY <1>3 DEF Sayilar, SayiAlanlari
<1> HIDE DEF stok, fiyat
<1>6. yeni.p = p /\ yeni.stok = stok /\ yeni.fiyat = fiyat /\ {"p", "stok", "fiyat"} \subseteq DOMAIN yeni
  OBVIOUS
<1> HIDE DEF yeni
<1>7. VaryantSatiri(yeni, Urunler, CarsiUrunler)
  BY <1>2, <1>4, <1>5, <1>6 DEF VaryantSatiri
<1>8. v \notin Varyantlar
  BY <1>1 DEF MalInv, Varyantlar, YokVaryant, Urunler, Mallar
<1> QED BY <1>1, <1>7, <1>8 DEF MalInv, VaryantAdimi, Varyantlar

LEMMA VaryantSilMal ==
  ASSUME MalInv, NEW u, NEW v \in DOMAIN varyant, VaryantSil(u, v)
  PROVE  VaryantAdimi
<1> DEFINE x == varyant[v]
           y == [x EXCEPT !.silindi = TRUE, !.aktif = FALSE]
<1>1. varyant' = [varyant EXCEPT ![v].silindi = TRUE, ![v].aktif = FALSE] /\ x # YokVaryant
  BY DEF VaryantSil, VaryantPaneli
<1>2. varyant' = [varyant EXCEPT ![v] = y]
  BY <1>1
<1>3. VaryantSatiri(x, Urunler, CarsiUrunler)
  BY DEF MalInv
<1> HIDE DEF x
<1>4. DOMAIN y = DOMAIN x /\ y["p"] = x["p"] /\ y["stok"] = x["stok"] /\ y["fiyat"] = x["fiyat"]
  BY <1>3 DEF VaryantSatiri
<1> HIDE DEF y
<1>5. VaryantSatiri(y, Urunler, CarsiUrunler)
  BY <1>1, <1>3, <1>4 DEF VaryantSatiri
<1> QED BY <1>2, <1>4, <1>5 DEF MalInv, VaryantAdimi, x

LEMMA VaryantYazMal ==
  ASSUME MalInv, NEW r \in Requests, VaryantYaz(r)
  PROVE  VaryantAdimi
<1> DEFINE v == req[r].v
           veri == req[r].veri
           x == varyant[v]
           y == Ustune(veri, x)
<1>1. v \in Varyantlar /\ VaryantYazilir(veri, v \in CarsiVaryantlar)
      /\ varyant' = [varyant EXCEPT ![v] = Ustune(veri, @)]
  BY DEF MalInv, MalBilir, VaryantYaz, Sira
<1>2. /\ varyant' = [varyant EXCEPT ![v] = y] /\ v \in DOMAIN varyant /\ x.p \in Urunler
      /\ v \in CarsiVaryantlar <=> x.p \in CarsiUrunler
      /\ VaryantSatiri(x, Urunler, CarsiUrunler)
  BY <1>1 DEF Varyantlar, CarsiVaryantlar, MalInv
<1> HIDE DEF v, veri, x
<1>3. /\ {"p", "stok", "fiyat"} \subseteq DOMAIN y /\ y["p"] = x["p"]
      /\ y["stok"] = IF "stok" \in DOMAIN veri THEN veri["stok"] ELSE x["stok"]
      /\ y["fiyat"] = IF "fiyat" \in DOMAIN veri THEN veri["fiyat"] ELSE x["fiyat"]
  BY <1>1, <1>2, UstuneAlan DEF VaryantSatiri, VaryantYazilir
<1> HIDE DEF y
<1>4. y.stok # <<>> => y.stok[1] \in Nat
  BY <1>1, <1>2, <1>3 DEF VaryantSatiri, VaryantYazilir
<1>5. y.fiyat # <<>> => FiyatSatiri(y.fiyat[1], y.p \in CarsiUrunler)
  <2>1. CASE "fiyat" \in DOMAIN veri
    BY <1>1, <1>2, <1>3, <2>1 DEF VaryantYazilir, FiyatSatiri
  <2>2. CASE "fiyat" \notin DOMAIN veri
    BY <1>2, <1>3, <2>2 DEF VaryantSatiri
  <2> QED BY <2>1, <2>2
<1>6. VaryantSatiri(y, Urunler, CarsiUrunler)
  BY <1>2, <1>3, <1>4, <1>5 DEF VaryantSatiri
<1> QED BY <1>2, <1>3, <1>6 DEF MalInv, VaryantAdimi, x

LEMMA VaryantGuncelleMal ==
  ASSUME MalInv, NEW r \in Requests, NEW u, NEW v \in DOMAIN varyant, NEW dto \in VaryantDegisiklikleri,
         VaryantGuncelleOku(r, u, v, dto)
  PROVE  MalOgrenir
<1> DEFINE p == varyant[v].p
           f == VaryantFiyati(p, dto)
           fiyat == IF FiyatGirdisi(dto) THEN f ELSE <<>>
           sec == Sec(dto, {"aktif"})
           a == IF "stok" \in DOMAIN dto THEN [stok |-> <<dto.stok>>] ELSE <<>>
           b == IF fiyat # <<>> THEN [fiyat |-> fiyat] ELSE <<>>
           alt == Ustune(a, b)
           veri == Ustune(sec, alt)
           q == [op |-> "varyantYaz", v |-> v, veri |-> veri]
<1>1. Basla(r, q) /\ varyant[v] # YokVaryant
  BY DEF VaryantGuncelleOku, VaryantPaneli
<1>2. p \in Urunler /\ v \in Varyantlar /\ (v \in CarsiVaryantlar <=> p \in CarsiUrunler)
  BY <1>1 DEF MalInv, VaryantSatiri, Varyantlar, CarsiVaryantlar
<1>3. Sayilar(dto)
  BY RafGovdeleri
<1>4. f # <<>> => FiyatSatiri(f[1], p \in CarsiUrunler)
  BY <1>2, <1>3, VaryantFiyatYazilir
<1> HIDE DEF f
<1>5. fiyat # <<>> => FiyatSatiri(fiyat[1], p \in CarsiUrunler)
  BY <1>4
<1> HIDE DEF fiyat, p
<1>6. /\ DOMAIN sec \subseteq {"aktif"}
      /\ DOMAIN a \subseteq {"stok"} /\ ("stok" \in DOMAIN a => a.stok[1] \in Nat)
      /\ DOMAIN b \subseteq {"fiyat"} /\ ("fiyat" \in DOMAIN b => b.fiyat = fiyat /\ fiyat # <<>>)
  <2>1. DOMAIN sec \subseteq {"aktif"}
    BY DEF Sec
  <2>2. DOMAIN a \subseteq {"stok"} /\ ("stok" \in DOMAIN a => a.stok[1] \in Nat)
    BY <1>3 DEF Sayilar, SayiAlanlari
  <2>3. DOMAIN b \subseteq {"fiyat"} /\ ("fiyat" \in DOMAIN b => b.fiyat = fiyat /\ fiyat # <<>>)
    OBVIOUS
  <2> QED BY <2>1, <2>2, <2>3
<1> HIDE DEF sec, a, b
<1>7. /\ DOMAIN alt \subseteq {"stok", "fiyat"}
      /\ "stok" \in DOMAIN alt => alt["stok"][1] \in Nat
      /\ "fiyat" \in DOMAIN alt => alt["fiyat"] = fiyat
  BY <1>6, UstuneAlan
<1> HIDE DEF alt
<1>8. /\ "p" \notin DOMAIN veri
      /\ "stok" \in DOMAIN veri => veri["stok"][1] \in Nat
      /\ "fiyat" \in DOMAIN veri => veri["fiyat"] = fiyat
  BY <1>6, <1>7, UstuneAlan
<1> HIDE DEF veri
<1>9. VaryantYazilir(veri, v \in CarsiVaryantlar)
  BY <1>2, <1>5, <1>8 DEF VaryantYazilir, FiyatSatiri
<1>10. q.op = "varyantYaz" /\ q.v = v /\ q.veri = veri
  OBVIOUS
<1> HIDE DEF q
<1>11. MalBilir(q, Urunler, CarsiUrunler, Varyantlar, CarsiVaryantlar)
  BY <1>2, <1>9, <1>10 DEF MalBilir
<1> QED BY <1>1, <1>11, BaslaMal

LEMMA VaryantNextMal ==
  ASSUME MalInv, VaryantNext, kalem' = kalem
  PROVE  MalInv'
<1>1. magaza' = magaza /\ urun' = urun
  BY KatalogKorur, RafKorur DEF KatalogNext, kadroVars, saticilik
<1>2. satis' = satis /\ secenek' = secenek
  BY DEF VaryantNext, VaryantOlustur, VaryantSil, VaryantGuncelleOku, VaryantYaz, katalogVars, stokVars,
         secenekVars
<1>3. VaryantAdimi /\ MalOgrenir => MalInv'
  BY <1>1, <1>2, UrunKurulur, UrunSabit, SatisSabit
<1>4. ASSUME NEW u, NEW p \in DOMAIN urun, NEW v \in DOMAIN varyant, NEW dto \in YeniVaryantlar,
             VaryantOlustur(u, p, v, dto)
      PROVE  MalInv'
  BY <1>3, <1>4, VaryantOlusturMal, DurursaMal DEF VaryantOlustur
<1>5. ASSUME NEW u, NEW v \in DOMAIN varyant, VaryantSil(u, v) PROVE MalInv'
  BY <1>3, <1>5, VaryantSilMal, DurursaMal DEF VaryantSil
<1>6. ASSUME NEW r \in Requests, NEW u, NEW v \in DOMAIN varyant, NEW dto \in VaryantDegisiklikleri,
             VaryantGuncelleOku(r, u, v, dto)
      PROVE  MalInv'
  BY <1>3, <1>6, VaryantGuncelleMal, VaryantSabit DEF VaryantGuncelleOku, katalogVars, stokVars
<1>7. ASSUME NEW r \in Requests, VaryantYaz(r) PROVE MalInv'
  BY <1>3, <1>7, VaryantYazMal, BitirMal DEF VaryantYaz
<1> QED BY <1>4, <1>5, <1>6, <1>7 DEF VaryantNext

\* What else the catalogue does: options get surcharges, and no other row is written that is
\* counted here.
VitrinOps == {"bos", "grupYaz", "birincilDigerleri", "birincilResim"}

LEMMA VitrinSurer ==
  ASSUME DOMAIN req = Requests, SecenekNext \/ MedyaNext \/ KategoriNext
  PROVE  Surer(VitrinOps)
<1>1. \A o : o \in {"bos", "grupYaz", "birincilDigerleri", "birincilResim"} => o \in VitrinOps
  BY DEF VitrinOps
<1> HIDE DEF VitrinOps
<1>2. ASSUME NEW r, NEW p, NEW m, NEW birincil, BirincilIse(r, p, m, birincil) PROVE Surer(VitrinOps)
  BY <1>1, <1>2, BaslaSurer, DurursaSurer DEF BirincilIse
<1>3. ASSUME SecenekNext PROVE Surer(VitrinOps)
  BY <1>1, <1>3, BitirSurer, BaslaSurer, DurursaSurer
  DEF SecenekNext, SecenekGrubuOlustur, SecenekGrubuGuncelleOku, GrupYaz, SecenekGrubuSil, SecenekEkle,
      SecenekGuncelle, SecenekSil, UrunSecenekGruplari
<1>4. ASSUME MedyaNext \/ KategoriNext PROVE Surer(VitrinOps)
  BY <1>1, <1>2, <1>4, BitirSurer, GecSurer, DurursaSurer
  DEF MedyaNext, MedyaEkle, MedyaGuncelle, BirincilDigerleri, BirincilResim, MedyaSil, KategoriNext,
      KategoriEkle
<1> QED BY <1>3, <1>4

LEMMA SecenekMal ==
  ASSUME MalInv, SecenekNext \/ MedyaNext \/ KategoriNext
  PROVE  Secenekler'
<1>1. CASE MedyaNext \/ KategoriNext
  <2>1. secenekVars' = secenekVars
    BY <1>1 DEF MedyaNext, MedyaEkle, MedyaGuncelle, BirincilDigerleri, BirincilResim, MedyaSil,
                KategoriNext, KategoriEkle
  <2> QED BY <2>1, SecenekSabit DEF secenekVars
<1>2. ASSUME NEW u, NEW g, NEW o \in DOMAIN secenek, NEW ek \in EkUcretler, SecenekEkle(u, g, o, ek)
      PROVE  Secenekler'
  <2> DEFINE yeni == [g |-> g, ek |-> ek, aktif |-> TRUE]
  <2>1. secenek' = [secenek EXCEPT ![o] = yeni] /\ "ek" \in DOMAIN yeni /\ yeni.ek \in Nat
    BY <1>2, RafGovdeleri DEF SecenekEkle
  <2> HIDE DEF yeni
  <2> QED BY <2>1 DEF MalInv, Secenekler
<1>3. ASSUME NEW u, NEW o \in DOMAIN secenek, NEW ek \in EkUcretler, NEW aktif,
             SecenekGuncelle(u, o, ek, aktif)
      PROVE  Secenekler'
  <2> DEFINE x == secenek[o]
             yeni == [x EXCEPT !.ek = ek, !.aktif = aktif]
  <2>1. secenek' = [secenek EXCEPT ![o] = yeni]
    BY <1>3 DEF SecenekGuncelle
  <2>2. "ek" \in DOMAIN x
    BY DEF MalInv, Secenekler
  <2> HIDE DEF x
  <2>3. "ek" \in DOMAIN yeni /\ yeni.ek \in Nat
    BY <2>2, RafGovdeleri
  <2> HIDE DEF yeni
  <2> QED BY <2>1, <2>3 DEF MalInv, Secenekler
<1>4. ASSUME NEW u, NEW o \in DOMAIN secenek, SecenekSil(u, o) PROVE Secenekler'
  <2> DEFINE x == secenek[o]
             yeni == [x EXCEPT !.aktif = FALSE]
  <2>1. secenek' = [secenek EXCEPT ![o] = yeni]
    BY <1>4 DEF SecenekSil
  <2>2. "ek" \in DOMAIN x /\ x.ek \in Nat
    BY DEF MalInv, Secenekler
  <2> HIDE DEF x
  <2>3. "ek" \in DOMAIN yeni /\ yeni.ek \in Nat
    BY <2>2
  <2> HIDE DEF yeni
  <2> QED BY <2>1, <2>3 DEF MalInv, Secenekler
<1>5. CASE SecenekNext
  <2>1. ASSUME NEW u, NEW g, NEW s, NEW dto, SecenekGrubuOlustur(u, s, g, dto) PROVE Secenekler'
    BY <2>1, SecenekSabit DEF SecenekGrubuOlustur
  <2>2. ASSUME NEW u, NEW g, NEW r, NEW dto, SecenekGrubuGuncelleOku(r, u, g, dto) PROVE Secenekler'
    BY <2>2, SecenekSabit DEF SecenekGrubuGuncelleOku, katalogVars, secenekVars
  <2>3. ASSUME NEW u, NEW g, SecenekGrubuSil(u, g) \/ GrupYaz(u) PROVE Secenekler'
    BY <2>3, SecenekSabit DEF SecenekGrubuSil, GrupYaz
  <2>4. ASSUME NEW u, NEW p, NEW gruplar, UrunSecenekGruplari(u, p, gruplar) PROVE Secenekler'
    BY <2>4, SecenekSabit DEF UrunSecenekGruplari
  <2> QED BY <1>2, <1>3, <1>4, <1>5, <2>1, <2>2, <2>3, <2>4 DEF SecenekNext
<1> QED BY <1>1, <1>5

LEMMA VitrinMal ==
  ASSUME MalInv, SecenekNext \/ MedyaNext \/ KategoriNext, kalem' = kalem
  PROVE  MalInv'
<1>1. stokVars' = stokVars
  BY DEF SecenekNext, SecenekGrubuOlustur, SecenekGrubuGuncelleOku, GrupYaz, SecenekGrubuSil, SecenekEkle,
         SecenekGuncelle, SecenekSil, UrunSecenekGruplari, katalogVars, MedyaNext, MedyaEkle,
         MedyaGuncelle, BirincilDigerleri, BirincilResim, MedyaSil, KategoriNext, KategoriEkle
<1>2. magaza' = magaza
  BY KatalogKorur DEF KatalogNext, kadroVars, saticilik
<1>3. MalOgrenir
  <2>1. Surer(VitrinOps)
    BY VitrinSurer DEF MalInv
  <2>2. VitrinOps \cap MalOps = {}
    BY DEF VitrinOps, MalOps
  <2> QED BY <2>1, <2>2, SurerMal
<1>4. urun' = urun /\ varyant' = varyant /\ satis' = satis
  BY <1>1 DEF stokVars
<1> QED
  BY <1>2, <1>3, <1>4, MalKurulur, MagazaSabit, UrunSabit, VaryantSabit, KalemSabit, SatisSabit, SecenekMal

LEMMA KatalogMal ==
  ASSUME MalInv, KatalogNext, kalem' = kalem
  PROVE  MalInv'
BY UrunNextMal, VaryantNextMal, VitrinMal DEF KatalogNext

-----------------------------------------------------------------------------
(* The statements about carts *)

\* A step of a cart's handler.
LEMMA SepetKurulur ==
  ASSUME MalInv, kadroVars' = kadroVars /\ katalogVars' = katalogVars, KalemAdimi, MalOgrenir
  PROVE  MalInv'
<1>1. /\ magaza' = magaza /\ urun' = urun /\ varyant' = varyant /\ satis' = satis
      /\ secenek' = secenek
  BY DEF kadroVars, saticilik, katalogVars, stokVars, secenekVars
<1> QED
  BY <1>1, MalKurulur, MagazaSabit, UrunSabit, VaryantSabit, SatisSabit, SecenekSabit

\* What a piece costs now is a whole number, and in BaniCarsi the sum of its parts.
LEMMA EtkinDagitilir ==
  ASSUME MalInv, NEW p \in Urunler, NEW vs \in VaryantTek(p)
  PROVE  /\ EtkinFiyat(p, vs) \in Nat
         /\ p \in CarsiUrunler => EtkinFiyat(p, vs) = FiyatKaynagi(p, vs).net + Toplam(EtkinDagitim(p, vs))
<1> DEFINE x == urun[p]
<1>1. /\ UrunSatiri(x, Dukkanlar, CarsiDukkanlar)
      /\ p \in CarsiUrunler => Dagitilir(x)
  BY UrunDukkanda DEF Urunler, Mallar, UrunSatiri
<1>2. {"price", "net", "dagitim"} \subseteq DOMAIN x /\ x.price \in Nat
  BY <1>1 DEF UrunSatiri, Sayilar, SayiAlanlari
<1>3. CASE FiyatKaynagi(p, vs) = x
  BY <1>1, <1>2, <1>3 DEF EtkinFiyat, EtkinDagitim, Dagitilir
<1>4. ASSUME NEW v \in DOMAIN varyant, varyant[v].p = p, vs = <<v>>, varyant[v].fiyat # <<>>
      PROVE  /\ EtkinFiyat(p, vs) \in Nat
             /\ p \in CarsiUrunler =>
                  EtkinFiyat(p, vs) = FiyatKaynagi(p, vs).net + Toplam(EtkinDagitim(p, vs))
  <2> DEFINE f == varyant[v].fiyat[1]
             y == Ustune(f, x)
  <2>1. FiyatSatiri(f, p \in CarsiUrunler)
    BY <1>4 DEF MalInv, VaryantSatiri
  <2>2. FiyatKaynagi(p, vs) = y
    BY <1>4 DEF FiyatKaynagi
  <2> HIDE DEF f, x
  <2>3. y["price"] = f["price"] /\ y["price"] \in Nat
    BY <2>1, UstuneAlan DEF FiyatSatiri
  <2>4. p \in CarsiUrunler => y["net"] = f["net"] /\ y["dagitim"] = f["dagitim"] /\ Dagitilir(f)
    BY <2>1, UstuneAlan DEF FiyatSatiri
  <2> HIDE DEF y
  <2> QED BY <2>2, <2>3, <2>4 DEF EtkinFiyat, EtkinDagitim, Dagitilir
<1> HIDE DEF x
<1>5. FiyatKaynagi(p, vs) = x
      \/ \E v \in DOMAIN varyant : varyant[v].p = p /\ vs = <<v>> /\ varyant[v].fiyat # <<>>
  BY DEF FiyatKaynagi, VaryantTek, x
<1> QED BY <1>3, <1>4, <1>5

\* What a chosen option costs.
LEMMA SecimDagitilir ==
  ASSUME MalInv, NEW p \in Urunler, NEW o \in DOMAIN secenek
  PROVE  /\ Secim(p, o).ekUcret \in Nat
         /\ p \in CarsiUrunler => Secim(p, o).ekUcret = Secim(p, o).net + Toplam(Secim(p, o).dagitim)
<1> DEFINE ek == secenek[o].ek
           f == EkUcretHesapla(ek, urun[p].kdv)
           y == Ustune([o |-> o], f)
<1>1. ek \in Nat
  BY DEF MalInv, Secenekler
<1>2. /\ p \in DOMAIN urun /\ urun[p].s \in Dukkanlar /\ urun[p].kdv \in Nat
      /\ p \in CarsiUrunler <=> urun[p].s \in CarsiDukkanlar
  BY UrunDukkanda DEF Urunler, Mallar, UrunSatiri, Sayilar, SayiAlanlari
<1>3. p \in CarsiUrunler <=> Carsi(urun[p].s)
  BY <1>2, CarsiDukkan
<1>4. CASE Carsi(urun[p].s)
  <2>1. Secim(p, o) = y
    BY <1>4 DEF Secim
  <2>2. f.ekUcret \in Nat /\ f.ekUcret = f.net + Toplam(f.dagitim)
    BY <1>1, <1>2, EkUcretDagitilir
  <2>3. DOMAIN f = {"ekUcret", "net", "dagitim"}
    BY DEF EkUcretHesapla
  <2> HIDE DEF f
  <2>4. DOMAIN [o |-> o] = {"o"}
    OBVIOUS
  <2>5. y["ekUcret"] = f["ekUcret"] /\ y["net"] = f["net"] /\ y["dagitim"] = f["dagitim"]
    BY <2>3, <2>4, UstuneAlan
  <2> HIDE DEF y
  <2> QED BY <2>1, <2>2, <2>5
<1>5. CASE ~ Carsi(urun[p].s)
  BY <1>1, <1>3, <1>5 DEF Secim
<1> QED BY <1>4, <1>5

LEMMA EkleOkuMal ==
  ASSUME MalInv, NEW r \in Requests, NEW u, NEW p \in DOMAIN urun, NEW vs \in VaryantTek(p),
         NEW secilen \in SUBSET DOMAIN secenek, EkleOku(r, u, p, vs, secilen)
  PROVE  MalOgrenir
<1> DEFINE c == <<u, magaza[urun[p].s].dikey>>
           birim == EtkinFiyat(p, vs)
           secimler == {Secim(p, o) : o \in secilen}
           z == [sepet |-> c, p |-> p, v |-> vs, adet |-> 1, birim |-> birim, secimler |-> secimler]
           q == [op |-> "ekleMagaza", c |-> c, s |-> sepet[c], kalem |-> z]
<1>1. Basla(r, q) /\ urun[p] # YokUrun
  BY DEF EkleOku
<1>2. p \in Urunler
  BY <1>1, UrunDukkanda
<1>3. birim \in Nat
  BY <1>2, EtkinDagitilir
<1>4. IsFiniteSet(secimler)
  <2>1. IsFiniteSet(secilen)
    BY FS_Subset DEF MalInv, Secenekler
  <2> DEFINE f == [o \in secilen |-> Secim(p, o)]
  <2>2. f \in Surjection(secilen, secimler)
    BY DEF Surjection
  <2> QED BY <2>1, <2>2, FS_Surjection
<1>5. \A x \in secimler : x.ekUcret \in Nat /\ (p \in CarsiUrunler => x.ekUcret = x.net + Toplam(x.dagitim))
  BY <1>2, SecimDagitilir
<1> HIDE DEF c, birim, secimler
<1>6. /\ z.p = p /\ z.birim = birim /\ z.adet = 1 /\ z.secimler = secimler
      /\ {"p", "birim", "adet", "secimler"} \subseteq DOMAIN z
  OBVIOUS
<1> HIDE DEF z
<1>7. KalemSatiri(z, Urunler, CarsiUrunler)
  BY <1>2, <1>3, <1>4, <1>5, <1>6 DEF KalemSatiri
<1>8. q.op = "ekleMagaza" /\ q.kalem = z
  OBVIOUS
<1> HIDE DEF q
<1>9. MalBilir(q, Urunler, CarsiUrunler, Varyantlar, CarsiVaryantlar)
  BY <1>6, <1>7, <1>8 DEF MalBilir
<1> QED BY <1>1, <1>9, BaslaMal

LEMMA EkleMagazaMal ==
  ASSUME MalInv, NEW r \in Requests, EkleMagaza(r)
  PROVE  MalOgrenir
<1> DEFINE q == [op |-> "ekleAra", c |-> req[r].c, kalem |-> req[r].kalem]
<1>1. Bitir(r) \/ Gec(r, q)
  BY DEF EkleMagaza
<1>2. MalBilir(req[r], Urunler, CarsiUrunler, Varyantlar, CarsiVaryantlar) /\ req[r].op = "ekleMagaza"
  BY DEF MalInv, EkleMagaza, Sira
<1>3. q.op = "ekleAra" /\ q.kalem = req[r].kalem
  OBVIOUS
<1> HIDE DEF q
<1>4. MalBilir(q, Urunler, CarsiUrunler, Varyantlar, CarsiVaryantlar)
  BY <1>2, <1>3 DEF MalBilir
<1> QED BY <1>1, <1>4, BaslaMal, BitirMal

LEMMA EkleAraMal ==
  ASSUME MalInv, NEW r \in Requests, EkleAra(r)
  PROVE  MalOgrenir
<1> DEFINE z == req[r].kalem
           q == [op |-> "ekleYaz", kalem |-> z]
           y(k) == [z EXCEPT !.adet = kalem[k].adet + 1]
           w(k) == [op |-> "ekleArtir", k |-> k, kalem |-> y(k)]
<1>1. Gec(r, q) \/ \E k \in DOMAIN kalem : Ayni(k, z) /\ Gec(r, w(k))
  BY DEF EkleAra
<1>2. KalemSatiri(z, Urunler, CarsiUrunler) /\ z.adet = 1
  BY DEF MalInv, EkleAra, Sira, MalBilir
<1> HIDE DEF z
<1>3. MalBilir(q, Urunler, CarsiUrunler, Varyantlar, CarsiVaryantlar)
  <2>1. q.op = "ekleYaz" /\ q.kalem = z
    OBVIOUS
  <2> HIDE DEF q
  <2> QED BY <1>2, <2>1 DEF MalBilir
<1>4. ASSUME NEW k \in DOMAIN kalem, Ayni(k, z)
      PROVE  MalBilir(w(k), Urunler, CarsiUrunler, Varyantlar, CarsiVaryantlar)
  <2>1. kalem[k].adet \in Nat
    <3>1. KalemYeri(kalem[k], Urunler, CarsiUrunler)
      BY DEF MalInv
    <3>2. YokKalem.adet \in Nat
      BY DEF YokKalem
    <3> QED BY <3>1, <3>2 DEF KalemYeri
  <2>2. y(k).adet = kalem[k].adet + 1 /\ y(k).birim = z.birim
    BY <1>2 DEF KalemSatiri
  <2> HIDE DEF y
  <2>3. w(k).op = "ekleArtir" /\ w(k).kalem = y(k)
    OBVIOUS
  <2> HIDE DEF w
  <2>4. y(k).adet \in Nat \ {0} /\ y(k).birim \in Nat
    BY <1>2, <2>1, <2>2 DEF KalemSatiri
  <2> QED BY <2>3, <2>4 DEF MalBilir
<1> HIDE DEF q, w
<1> QED BY <1>1, <1>3, <1>4, BaslaMal

\* A line that is written, over others that are left alone.
LEMMA KalemYazinca ==
  ASSUME MalInv, NEW k \in DOMAIN kalem, NEW z, KalemYeri(z, Urunler, CarsiUrunler),
         kalem' = [kalem EXCEPT ![k] = z]
  PROVE  KalemAdimi
BY DEF MalInv, KalemAdimi

LEMMA YokKalemYeri == \A M, CM : KalemYeri(YokKalem, M, CM)
BY DEF KalemYeri

\* Quantity and unit price of a line are written anew.
LEMMA AdetYazinca ==
  ASSUME MalInv, NEW k \in DOMAIN kalem, kalem[k] # YokKalem, NEW adet \in 1..(ADET_SINIRI + 1),
         NEW z, DOMAIN z = DOMAIN kalem[k], z.adet = adet, z.birim \in Nat,
         z.p = kalem[k].p, z.secimler = kalem[k].secimler, kalem' = [kalem EXCEPT ![k] = z]
  PROVE  KalemAdimi
<1>1. KalemSatiri(kalem[k], Urunler, CarsiUrunler)
  BY DEF MalInv, KalemYeri
<1>2. KalemSatiri(z, Urunler, CarsiUrunler)
  BY <1>1 DEF KalemSatiri
<1> QED BY <1>2, KalemYazinca DEF KalemYeri

LEMMA EkleYazMal ==
  ASSUME MalInv, NEW r \in Requests, EkleYaz(r)
  PROVE  KalemAdimi
<1> DEFINE z == req[r].kalem
<1>1. KalemSatiri(z, Urunler, CarsiUrunler) /\ z.adet = 1
  BY DEF MalInv, EkleYaz, Sira, MalBilir
<1>2. PICK k \in DOMAIN kalem : kalem' = [kalem EXCEPT ![k] = z]
  BY DEF EkleYaz
<1> HIDE DEF z
<1>3. KalemYeri(z, Urunler, CarsiUrunler)
  BY <1>1, SepetAssumption DEF KalemYeri
<1> QED BY <1>2, <1>3, KalemYazinca

LEMMA EkleArtirMal ==
  ASSUME MalInv, NEW r \in Requests, EkleArtir(r)
  PROVE  KalemAdimi
<1> DEFINE k == req[r].k
           z == req[r].kalem
           adet == z.adet
           birim == z.birim
           x == kalem[k]
           y == [x EXCEPT !.adet = adet, !.birim = birim]
<1>1. /\ adet \in Nat \ {0} /\ birim \in Nat /\ adet <= ADET_SINIRI
      /\ kalem' = IF x = YokKalem THEN kalem ELSE [kalem EXCEPT ![k].adet = adet, ![k].birim = birim]
  BY DEF MalInv, EkleArtir, Sira, MalBilir
<1>2. CASE x = YokKalem \/ k \notin DOMAIN kalem
  <2> HIDE DEF k, adet, birim
  <2> QED BY <1>1, <1>2 DEF MalInv, KalemAdimi
<1>3. CASE x # YokKalem /\ k \in DOMAIN kalem
  <2>1. kalem' = [kalem EXCEPT ![k] = y]
    BY <1>1, <1>3
  <2>2. KalemSatiri(x, Urunler, CarsiUrunler)
    BY <1>3 DEF MalInv, KalemYeri
  <2>3. adet \in 1..(ADET_SINIRI + 1)
    BY <1>1, SepetAssumption
  <2> HIDE DEF adet, birim, k, z
  <2>4. /\ DOMAIN y = DOMAIN x /\ y.adet = adet /\ y.birim = birim
        /\ y.p = x.p /\ y.secimler = x.secimler
    <3> HIDE DEF x
    <3> QED BY <2>2 DEF KalemSatiri
  <2>5. y.birim \in Nat
    BY <1>1, <2>4
  <2> HIDE DEF y
  <2> QED BY <1>3, <2>1, <2>3, <2>4, <2>5, AdetYazinca
<1> QED BY <1>2, <1>3

LEMMA KalemGuncelleMal ==
  ASSUME MalInv, NEW u, NEW k \in DOMAIN kalem, NEW adet \in 0..ADET_SINIRI, KalemGuncelle(u, k, adet)
  PROVE  KalemAdimi
<1> DEFINE x == kalem[k]
           y == [x EXCEPT !.adet = adet]
<1>1. kalem' = [kalem EXCEPT ![k] = IF adet = 0 THEN YokKalem ELSE y] /\ x # YokKalem
  BY DEF KalemGuncelle, Kalemi
<1>2. CASE adet = 0
  BY <1>1, <1>2, YokKalemYeri, KalemYazinca
<1>3. CASE adet # 0
  <2>1. kalem' = [kalem EXCEPT ![k] = y]
    BY <1>1, <1>3
  <2>2. KalemSatiri(x, Urunler, CarsiUrunler)
    BY <1>1 DEF MalInv, KalemYeri
  <2>3. adet \in 1..(ADET_SINIRI + 1)
    BY <1>3, SepetAssumption
  <2>4. /\ DOMAIN y = DOMAIN x /\ y.adet = adet /\ y.birim \in Nat
        /\ y.p = x.p /\ y.secimler = x.secimler
    <3> HIDE DEF x
    <3> QED BY <2>2 DEF KalemSatiri
  <2> HIDE DEF y
  <2> QED BY <1>1, <2>1, <2>3, <2>4, AdetYazinca
<1> QED BY <1>2, <1>3

LEMMA KalemSilMal ==
  ASSUME MalInv, (\E u : \E k \in DOMAIN kalem : KalemSil(u, k)) \/ (\E r, u, d : SepetBosalt(r, u, d))
  PROVE  KalemAdimi
<1>1. ASSUME NEW u, NEW k \in DOMAIN kalem, KalemSil(u, k) PROVE KalemAdimi
  BY <1>1, YokKalemYeri, KalemYazinca DEF KalemSil
<1>2. ASSUME NEW r, NEW u, NEW d, SepetBosalt(r, u, d) PROVE KalemAdimi
  BY <1>2, YokKalemYeri DEF SepetBosalt, MalInv, KalemAdimi
<1> QED BY <1>1, <1>2

LEMMA SepetMal ==
  ASSUME MalInv, SepetNext
  PROVE  MalInv'
<1>1. KalemAdimi /\ MalOgrenir => MalInv'
  BY SepetKorur, SepetKurulur
<1>2. kalem' = kalem /\ MalOgrenir => MalInv'
  BY <1>1, KalemSabit
<1>3. ASSUME NEW r \in Requests, NEW u, NEW p \in DOMAIN urun, NEW vs \in VaryantTek(p),
             NEW secilen \in SUBSET DOMAIN secenek, EkleOku(r, u, p, vs, secilen)
      PROVE  MalInv'
  BY <1>2, <1>3, EkleOkuMal DEF EkleOku, sepetVars
<1>4. ASSUME NEW r \in Requests, EkleMagaza(r) \/ EkleAra(r) PROVE MalInv'
  <2>1. kalem' = kalem
    BY <1>4 DEF EkleMagaza, EkleAra, sepetVars
  <2> QED BY <1>2, <1>4, <2>1, EkleMagazaMal, EkleAraMal
<1>5. ASSUME NEW r \in Requests, EkleYaz(r) \/ EkleArtir(r) PROVE MalInv'
  <2>1. Bitir(r)
    BY <1>5 DEF EkleYaz, EkleArtir
  <2> QED BY <1>1, <1>5, <2>1, BitirMal, EkleYazMal, EkleArtirMal
<1>6. ASSUME NEW r \in Requests, SepetMagazaSil(r) PROVE MalInv'
  BY <1>2, <1>6, BitirMal DEF SepetMagazaSil
<1>7. ASSUME NEW u, NEW k \in DOMAIN kalem, KalemSil(u, k) \/ \E adet \in 0..ADET_SINIRI : KalemGuncelle(u, k, adet)
      PROVE  MalInv'
  <2>1. req' = req
    BY <1>7 DEF KalemSil, KalemGuncelle
  <2> QED BY <1>1, <1>7, <2>1, DurursaMal, KalemSilMal, KalemGuncelleMal
<1>8. ASSUME NEW r, NEW u, NEW d, SepetBosalt(r, u, d) PROVE MalInv'
  <2> DEFINE q == [op |-> "sepetMagazaSil", c |-> <<u, d>>]
  <2>1. Basla(r, q) /\ q.op = "sepetMagazaSil"
    BY <1>8 DEF SepetBosalt
  <2> HIDE DEF q
  <2>2. MalBilir(q, Urunler, CarsiUrunler, Varyantlar, CarsiVaryantlar)
    BY <2>1 DEF MalBilir
  <2>3. MalOgrenir
    BY <2>1, <2>2, BaslaMal
  <2> QED BY <1>1, <1>8, <2>3, KalemSilMal
<1> QED BY <1>3, <1>4, <1>5, <1>6, <1>7, <1>8 DEF SepetNext

-----------------------------------------------------------------------------
(* The other parts: a store is opened or is no longer shown *)

LEMMA MagazaMal ==
  ASSUME SaticiInv, MagazaInv, MalInv, [Next]_vars
  PROVE  MagazaAdimi
<1>1. magaza \in [DOMAIN magaza -> MagazaRow] /\ Sahipli
  BY DEF MagazaInv, MalInv
<1>2. ASSUME NEW s \in DOMAIN magaza, NEW x \in MagazaRow, x.sahip # NoUser,
             magaza' = [magaza EXCEPT ![s] = x], s \in Dukkanlar => x.dikey = magaza[s].dikey
      PROVE  MagazaAdimi
  BY <1>1, <1>2 DEF MagazaAdimi, Sahipli, Dukkanlar, Duran
<1>3. ASSUME NEW s \in DOMAIN magaza, NEW aktif \in BOOLEAN, AktifYazilir(s, aktif) PROVE MagazaAdimi
  <2> DEFINE x == [magaza[s] EXCEPT !.aktif = aktif]
  <2>1. magaza[s] \in MagazaRow /\ magaza[s].sahip # NoUser
    BY <1>1, <1>3 DEF AktifYazilir, Var, Sahipli
  <2>2. x \in MagazaRow /\ x.sahip # NoUser /\ x.dikey = magaza[s].dikey
    BY <2>1 DEF MagazaRow
  <2>3. magaza' = [magaza EXCEPT ![s] = x]
    BY <1>3 DEF AktifYazilir
  <2> HIDE DEF x
  <2> QED BY <1>2, <2>2, <2>3
<1>4. ASSUME NEW r \in Requests, MagazaYaz(r) PROVE MagazaAdimi
  <2> DEFINE u == req[r].u
             x == [YokMagaza EXCEPT !.sahip = u, !.dikey = satici[u].dikey, !.aktif = TRUE]
  <2>1. PICK s \in DOMAIN magaza : magaza[s] = YokMagaza /\ magaza' = [magaza EXCEPT ![s] = x]
    <3>1. PICK c \in {s \in DOMAIN magaza : magaza[s] = YokMagaza} : magaza' = [magaza EXCEPT ![c] = x]
      BY <1>4 DEF MagazaYaz
    <3> QED BY <3>1
  <2>2. u \in Users
    BY <1>4 DEF MagazaInv, MagazaYaz
  <2>3. satici[u].dikey \in Dikeyler \cup {"YOK"}
    BY <2>2 DEF SaticiInv, SaticiRow
  <2> HIDE DEF u
  <2>4. x \in MagazaRow /\ x.sahip # NoUser
    BY <2>2, <2>3, SaticiAssumption DEF YokMagaza, MagazaRow
  <2> HIDE DEF x
  <2>5. s \notin Dukkanlar
    BY <2>1 DEF YokMagaza, Dukkanlar, Duran
  <2> QED BY <1>2, <2>1, <2>4, <2>5
<1>5. ASSUME NEW r \in Requests, NEW u \in Users, MagazaKur(r, u) PROVE MagazaAdimi
  BY <1>5, MagazaSabit DEF MagazaKur, saticilik
<1>6. DOMAIN req = Requests
  BY DEF MalInv
<1> QED BY <1>3, <1>4, <1>5, <1>6, Digerleri, SaticiKurmaz, MagazaSabit

\* Which part of the market place a step is of.
LEMMA MalDisi ==
  ASSUME DOMAIN req = Requests, [Next]_vars
  PROVE  \/ KatalogNext /\ kalem' = kalem
         \/ SepetNext
         \/ /\ UNCHANGED <<katalogVars, sepetVars>>
            /\ \E ops \in {KullaniciOps, SaticiOps, KadroOps, OnayOps} : Surer(ops)
<1>1. CASE (KullaniciNext \/ SaticiNext \/ KadroNext \/ OnayNext) /\ UNCHANGED <<katalogVars, sepetVars>>
  BY <1>1, KullaniciSurer, SaticiSurer, KadroSurer, OnaySurer
<1>2. CASE KatalogNext /\ UNCHANGED sepetVars
  BY <1>2 DEF sepetVars
<1>3. ASSUME NEW r \in Requests, Durur(r)
      PROVE  UNCHANGED <<katalogVars, sepetVars>> /\ Surer(KadroOps)
  BY <1>3, BitirSurer DEF Durur, KadroOps
<1>4. CASE UNCHANGED vars
  BY <1>4, DurursaSurer DEF vars
<1> QED BY <1>1, <1>2, <1>3, <1>4 DEF Next

LEMMA MalAdim ==
  ASSUME SaticiInv, MagazaInv, MalInv, [Next]_vars
  PROVE  MalInv'
<1>1. ASSUME UNCHANGED <<katalogVars, sepetVars>>,
             NEW ops \in {KullaniciOps, SaticiOps, KadroOps, OnayOps}, Surer(ops)
      PROVE  MalInv'
  <2>1. ops \cap MalOps = {}
    BY DEF KullaniciOps, SaticiOps, KadroOps, OnayOps, MalOps
  <2>2. urun' = urun /\ varyant' = varyant /\ kalem' = kalem /\ satis' = satis /\ secenek' = secenek
    BY <1>1 DEF katalogVars, stokVars, secenekVars, sepetVars
  <2> QED
    BY <1>1, <2>1, <2>2, MalKurulur, MagazaMal, UrunSabit, VaryantSabit, KalemSabit, SatisSabit,
       SecenekSabit, SurerMal
<1>2. DOMAIN req = Requests
  BY DEF MalInv
<1> QED BY <1>1, <1>2, MalDisi, KatalogMal, SepetMal

LEMMA MalBaslar ==
  ASSUME Init
  PROVE  MalInv
<1>1. PICK x \in Sahneler :
        /\ req = [r \in Requests |-> Bos] /\ magaza = x.magaza
        /\ urun = x.urun /\ varyant = x.varyant /\ secenek = x.secenek /\ satis = <<>> /\ kalem = x.kalem
  BY DEF Init
<1>2. DOMAIN req = Requests /\ \A r \in Requests : req[r].op = "bos"
  BY <1>1 DEF Bos
<1>3. \A r \in Requests : MalBilir(req[r], Urunler, CarsiUrunler, Varyantlar, CarsiVaryantlar)
  BY <1>2 DEF MalBilir
<1>4. Sahipli
  BY <1>1, MagazaSahneleri DEF Sahipli
<1>5. /\ NoRow \notin DOMAIN urun
      /\ \A p \in DOMAIN urun : UrunSatiri(urun[p], Dukkanlar, CarsiDukkanlar)
      /\ \A v \in DOMAIN varyant : VaryantSatiri(varyant[v], Urunler, CarsiUrunler)
      /\ \A k \in DOMAIN kalem : KalemYeri(kalem[k], Urunler, CarsiUrunler)
      /\ Secenekler
  BY <1>1, RafSahneleri DEF Dukkanlar, CarsiDukkanlar, Urunler, CarsiUrunler, Secenekler
<1>6. satis \in Seq(SatisRow(Urunler, DOMAIN varyant))
  BY <1>1
<1> QED BY <1>2, <1>3, <1>4, <1>5, <1>6 DEF MalInv

\* Whatever line may stand in a cart of BaniCarsi, the price of a piece and the surcharges kept
\* with the line are the sums of the parts that checkout will distribute, however product,
\* variant and option are changed meanwhile (urunFiyatAlanlari, varyantFiyatAlanlari, etkinFiyat,
\* ekUcretHesapla, addItem).
THEOREM PartsPayThePrice == Spec => []DagitimTutar
<1>1. Spec => [](SaticiInv /\ MagazaInv /\ MalInv)
  BY SaticiBaslar, SaticiAdim, MagazaBaslar, MagazaAdim, MalBaslar, MalAdim, PTL DEF Spec
<1>2. MalInv => DagitimTutar
  <2> SUFFICES ASSUME MalInv PROVE DagitimTutar
    OBVIOUS
  <2>1. ASSUME NEW p \in DOMAIN urun, urun[p] # YokUrun, Carsi(urun[p].s), NEW vs \in VaryantTek(p)
        PROVE  EtkinFiyat(p, vs) = FiyatKaynagi(p, vs).net + Toplam(EtkinDagitim(p, vs))
    <3>1. p \in Urunler /\ p \in CarsiUrunler
      BY <2>1, UrunDukkanda, CarsiDukkan
    <3> QED BY <3>1, EtkinDagitilir
  <2>2. ASSUME NEW k \in DOMAIN kalem, kalem[k] # YokKalem, Carsi(urun[kalem[k].p].s)
        PROVE  SatirBirimFiyat(k) - kalem[k].birim
                 = MapThenSumSet(LAMBDA x : x.net + Toplam(x.dagitim), kalem[k].secimler)
    <3> DEFINE z == kalem[k]
               T == z.secimler
               A == MapThenSumSet(LAMBDA x : x.ekUcret, T)
               B == MapThenSumSet(LAMBDA x : x.net + Toplam(x.dagitim), T)
    <3>1. KalemSatiri(z, Urunler, CarsiUrunler)
      BY <2>2 DEF MalInv, KalemYeri
    <3>2. z.p \in CarsiUrunler
      <4>1. z.p \in DOMAIN urun /\ urun[z.p].s \in Dukkanlar
        BY <3>1 DEF KalemSatiri, Urunler, Mallar
      <4>2. urun[z.p].s \in CarsiDukkanlar
        BY <2>2, <4>1, CarsiDukkan
      <4> QED BY <4>1, <4>2 DEF CarsiUrunler, Mallar
    <3>3. /\ z.birim \in Nat /\ IsFiniteSet(T)
          /\ \A x \in T : x.ekUcret \in Nat /\ x.ekUcret = x.net + Toplam(x.dagitim)
      BY <3>1, <3>2 DEF KalemSatiri
    <3>4. SatirBirimFiyat(k) = z.birim + A
      BY DEF SatirBirimFiyat
    <3> HIDE DEF z, T
    <3>5. A = B /\ A \in Int
      BY <3>3, ToplamEsit
    <3>6. (z.birim + A) - z.birim = B
      <4> HIDE DEF A, B
      <4> QED BY <3>3, <3>5
    <3> QED BY <3>4, <3>6 DEF z, T
  <2> QED BY <2>1, <2>2 DEF DagitimTutar
<1> QED BY <1>1, <1>2, PTL

-----------------------------------------------------------------------------
(* Accounts *)

HesapInv == kul \in [Users -> UserStatus \cup {"YOK"}]

LEMMA HesapInvAdim ==
  ASSUME HesapInv, [Next]_vars
  PROVE  HesapInv'
<1>1. "ACTIVE" \in UserStatus /\ Yaptirimlar \subseteq UserStatus
  BY KullaniciAssumption DEF UserStatus
<1> QED BY <1>1, HesapAdimi DEF HesapInv, HesapYazilir, SetStatus

-----------------------------------------------------------------------------
(* Roles *)

RolBilir(q) == q.op = "rolVer" => q.u \in Users /\ q.p \in ATANABILIR_MAGAZA_ROLLERI /\ q.s \in Stores

\* A role is held on the platform or in a store, and a request that is about to give one in
\* a store has it from those a store gives.
RolInv ==
  /\ rol \subseteq UserRole
  /\ DOMAIN req = Requests
  /\ \A r \in Requests : RolBilir(req[r])

LEMMA RollerYazilir ==
  ASSUME RolInv, NEW u \in Users, NEW roller \in SUBSET Role, RolleriYaz(u, roller)
  PROVE  rol' \subseteq UserRole
BY DEF RolInv, RolleriYaz, UserRole

LEMMA MagazaRolu ==
  ASSUME NEW u \in Users, NEW s \in Stores, NEW p \in MAGAZA_ROLLERI
  PROVE  <<u, p, s>> \in UserRole
BY DEF UserRole

LEMMA KullaniciRol ==
  ASSUME DevirInv, RolInv, KullaniciNext
  PROVE  rol' \subseteq UserRole
<1>1. rol' = rol => rol' \subseteq UserRole
  BY DEF RolInv
<1>2. {"CUSTOMER"} \subseteq Role /\ {"LOAD_CUSTOMER", "CARRIER"} \subseteq Role
  BY DEF Role
<1>3. ASSUME NEW r \in Requests, MisafirRol(r) \/ \E secilen \in SecilenRoller : GirisRolYaz(r, secilen)
      PROVE  rol' \subseteq UserRole
  <2>1. req[r].u \in Users
    BY <1>3 DEF MisafirRol, GirisRolYaz, Sira, DevirInv, DevirBilir, KullaniciOps
  <2>2. PICK roller \in SUBSET Role : RolleriYaz(req[r].u, roller)
    BY <1>2, <1>3 DEF MisafirRol, GirisRolYaz
  <2> QED BY <2>1, <2>2, RollerYazilir
<1>4. ASSUME NEW a, NEW u \in Users, NEW roller \in RolAtamalari, AssignRoles(a, u, roller)
      PROVE  rol' \subseteq UserRole
  BY <1>4, RollerYazilir, KullaniciAssumption DEF AssignRoles
<1>5. ASSUME OtpNext PROVE rol' = rol
  BY <1>5
  DEF OtpNext, OtpIste, GuestSession, OtpDogrula, OtpYaz, OtpYanlis, OtpTuket, OtpYaslan, kullaniciVars
<1>6. ASSUME GirisNext PROVE rol' \subseteq UserRole
  BY <1>1, <1>3, <1>6
  DEF GirisNext, GirisUpsert, GirisAktif, GirisYeniden, GirisRol, GirisJeton, kullaniciVars
<1>7. ASSUME OturumNext PROVE rol' = rol
  BY <1>7
  DEF OturumNext, RefreshOku, TransferKoduOku, RefreshIptal, DevirTuket, DevirSepet, Logout, DevirBiter,
      TransferKoduUret, kullaniciVars
<1> QED BY <1>1, <1>4, <1>5, <1>6, <1>7 DEF KullaniciNext, YonetimNext, SetStatus

LEMMA SaticiRol ==
  ASSUME SaticiInv, RolInv, SaticiNext
  PROVE  rol' \subseteq UserRole
<1>1. rol' = rol => rol' \subseteq UserRole
  BY DEF RolInv
<1>2. ASSUME BasvuruNext PROVE rol' = rol
  BY <1>2
  DEF BasvuruNext, SaticiOlustur, SaticiSozlesmeOnayla, SaticiGuncelleOku, OnayaGonderOku, MagazaKur,
      BelgeEkle, kullaniciVars
<1>3. ASSUME IncelemeNext PROVE rol' = rol
  BY <1>3
  DEF IncelemeNext, SaticiDogrulama, SaticiKarar, DurumDegistirOku, SaticiOnaylaOku, BelgeKarar,
      kullaniciVars
<1>4. ASSUME NEW r \in Requests, SaticiOnayla(r) PROVE rol' \subseteq UserRole
  <2>1. req[r].u \in Users
    BY <1>4 DEF SaticiInv, SaticiBilir, SaticiOps, SaticiOnayla, Sira
  <2>2. <<req[r].u, "MERCHANT", NoStore>> \in UserRole
    BY <2>1 DEF UserRole, Role
  <2> QED BY <1>4, <2>2 DEF RolInv, SaticiOnayla
<1>5. ASSUME SaticiYazNext PROVE rol' \subseteq UserRole
  BY <1>1, <1>4, <1>5
  DEF SaticiYazNext, SaticiGuncelle, OnayaGonder, TazeleOku, Tazele, DurumDegistir, MagazaYaz,
      kullaniciVars
<1> QED BY <1>1, <1>2, <1>3, <1>5 DEF SaticiNext

LEMMA KadroRol ==
  ASSUME Sahipli, RolInv, KadroNext
  PROVE  rol' \subseteq UserRole
<1>1. rol' \subseteq rol => rol' \subseteq UserRole
  BY DEF RolInv
<1>2. "STORE_STAFF" \in MAGAZA_ROLLERI /\ ATANABILIR_MAGAZA_ROLLERI \subseteq MAGAZA_ROLLERI
  BY DEF MAGAZA_ROLLERI
<1>3. DOMAIN magaza \subseteq Stores
  BY DEF Sahipli
<1>4. ASSUME NEW k \in Users, NEW s \in DOMAIN magaza, PersonelAc(s, k) PROVE rol' \subseteq UserRole
  <2>1. <<k, "STORE_STAFF", s>> \in UserRole
    BY <1>2, <1>3, MagazaRolu
  <2> QED BY <1>4, <2>1 DEF PersonelAc, RolInv
<1>5. ASSUME PersonelNext PROVE rol' \subseteq UserRole
  <2>1. ASSUME NEW u, NEW k \in Users, NEW s \in DOMAIN magaza, PersonelEkle(u, s, k)
        PROVE  rol' \subseteq UserRole
    BY <1>4, <2>1 DEF PersonelEkle
  <2>2. ASSUME NEW u, NEW k \in Users, NEW s \in DOMAIN magaza, NEW aktif \in BOOLEAN,
               PersonelDurum(u, s, k, aktif)
        PROVE  rol' \subseteq UserRole
    BY <1>1, <1>4, <2>2 DEF PersonelDurum
  <2>3. ASSUME NEW u, NEW k, NEW s, NEW p, RolAl(u, s, k, p) \/ \E r \in Requests : RolVerOku(r, u, s, k, p)
        PROVE  rol' \subseteq UserRole
    BY <1>1, <2>3 DEF RolAl, RolVerOku, kadroVars, kullaniciVars
  <2> QED BY <1>5, <2>1, <2>2, <2>3 DEF PersonelNext
<1>6. ASSUME NEW r \in Requests, RolVer(r) PROVE rol' \subseteq UserRole
  <2>1. req[r].u \in Users /\ req[r].p \in ATANABILIR_MAGAZA_ROLLERI /\ req[r].s \in Stores
    BY <1>6 DEF RolVer, Sira, RolInv, RolBilir
  <2>2. <<req[r].u, req[r].p, req[r].s>> \in UserRole
    BY <1>2, <2>1, MagazaRolu
  <2> QED BY <1>6, <2>2 DEF RolVer, RolInv
<1>7. ASSUME NEW u, NEW s, NEW aktif, MagazaGuncelle(u, s, aktif) PROVE rol' = rol
  BY <1>7 DEF MagazaGuncelle, kullaniciVars
<1> QED BY <1>1, <1>5, <1>6, <1>7 DEF KadroNext

\* What the next statement of a request may be, and who gets to rolVer.
LEMMA RolOgrenir ==
  ASSUME Sahipli, RolInv, [Next]_vars
  PROVE  DOMAIN req' = Requests /\ \A r \in Requests : RolBilir(req'[r])
<1> DEFINE Sonuc == DOMAIN req' = Requests /\ \A r \in Requests : RolBilir(req'[r])
<1>1. DOMAIN req = Requests /\ \A r \in Requests : RolBilir(req[r])
  BY DEF RolInv
<1>2. ASSUME NEW ops, Surer(ops), "rolVer" \notin ops PROVE Sonuc
  BY <1>1, <1>2 DEF Surer, RolBilir
<1>3. ASSUME NEW r, NEW q, RolBilir(q), Gec(r, q) \/ Basla(r, q) PROVE Sonuc
  BY <1>1, <1>3 DEF Gec, Basla
<1>4. RolBilir(Bos)
  BY DEF RolBilir, Bos
<1>5. ASSUME KadroNext PROVE Sonuc
  <2>1. ASSUME NEW u, NEW k \in Users, NEW s \in DOMAIN magaza, NEW p \in ATANABILIR_MAGAZA_ROLLERI,
               NEW r \in Requests, RolVerOku(r, u, s, k, p)
        PROVE  Sonuc
    <3> DEFINE q == [op |-> "rolVer", u |-> k, s |-> s, p |-> p]
    <3>1. RolBilir(q)
      BY DEF RolBilir, Sahipli
    <3>2. Basla(r, q)
      BY <2>1 DEF RolVerOku
    <3> HIDE DEF Sonuc, q
    <3> QED BY <1>3, <3>1, <3>2
  <2>2. ASSUME NEW r, RolVer(r) PROVE Sonuc
    <3> HIDE DEF Sonuc
    <3> QED BY <1>3, <1>4, <2>2 DEF RolVer, Bitir
  <2>3. req' = req => Sonuc
    BY <1>1
  <2> HIDE DEF Sonuc
  <2>4. ASSUME NEW u, NEW s, NEW k, PersonelEkle(u, s, k) PROVE Sonuc
    BY <2>3, <2>4 DEF PersonelEkle
  <2>5. ASSUME NEW u, NEW s, NEW k, NEW aktif, PersonelDurum(u, s, k, aktif) PROVE Sonuc
    BY <2>3, <2>5 DEF PersonelDurum
  <2> QED BY <1>5, <2>1, <2>2, <2>3, <2>4, <2>5 DEF KadroNext, PersonelNext, RolAl, MagazaGuncelle
<1>6. \A ops \in {KullaniciOps, SaticiOps, OnayOps, KatalogOps, SepetOps} : "rolVer" \notin ops
  BY DEF KullaniciOps, SaticiOps, OnayOps, KatalogOps, SepetOps
<1>7. ASSUME NEW r, Durur(r) PROVE Sonuc
  <2> HIDE DEF Sonuc
  <2> QED BY <1>3, <1>4, <1>7 DEF Durur, Bitir
<1>8. UNCHANGED vars => Sonuc
  BY <1>1 DEF vars
<1> HIDE DEF Sonuc
<1>9. KullaniciNext \/ SaticiNext \/ OnayNext \/ KatalogNext \/ SepetNext => Sonuc
  BY <1>1, <1>2, <1>6, KullaniciSurer, SaticiSurer, OnaySurer, KatalogSurer, SepetSurer
<1>10. Sonuc
  BY <1>5, <1>7, <1>8, <1>9 DEF Next
<1> QED BY <1>10 DEF Sonuc

LEMMA RolAdim ==
  ASSUME DevirInv, SaticiInv, Sahipli, RolInv, [Next]_vars
  PROVE  RolInv'
<1>1. rol' = rol => rol' \subseteq UserRole
  BY DEF RolInv
<1>2. ASSUME OnayNext \/ KatalogNext \/ SepetNext PROVE rol' = rol
  BY <1>2, OnayKorur, KatalogKorur, SepetKorur DEF kadroVars, kullaniciVars
<1>3. ASSUME UNCHANGED vars \/ \E r \in Requests : Durur(r) PROVE rol' = rol
  BY <1>3 DEF vars, Durur, kadroVars, kullaniciVars
<1>4. rol' \subseteq UserRole
  BY <1>1, <1>2, <1>3, KullaniciRol, SaticiRol, KadroRol DEF Next
<1>5. DOMAIN req' = Requests /\ \A r \in Requests : RolBilir(req'[r])
  BY RolOgrenir
<1> QED BY <1>4, <1>5 DEF RolInv, RolBilir

-----------------------------------------------------------------------------
(* One-time codes *)

\* The requests that have found a wrong code and not counted it yet.
Yanlislar(k) == {r \in Requests : req[r].op = "otpYanlis" /\ req[r].satir = k}

OtpBilir(q) == q.op \in {"otpYanlis", "otpTuket"} => q.satir \in DOMAIN otp

\* The wrong tries of a code that are counted, and those found wrong and not counted yet.  A
\* request compares only while fewer than MAX_ATTEMPTS are counted, and holds one of those not
\* counted yet: there are never more of them than requests.
OtpInv ==
  /\ otp \in Seq(OtpRow)
  /\ DOMAIN req = Requests
  /\ \A r \in Requests : OtpBilir(req[r])
  /\ \A k \in DOMAIN otp :
       otp[k].deneme + Cardinality(Yanlislar(k)) <= MAX_ATTEMPTS + Cardinality(Requests) - 1

LEMMA YanlislarSonlu ==
  ASSUME NEW S, S \subseteq Requests
  PROVE  /\ IsFiniteSet(S) /\ Cardinality(S) \in Nat
         /\ Cardinality(S) <= Cardinality(Requests)
         /\ Cardinality(Requests) \in Nat \ {0}
<1>1. IsFiniteSet(Requests) /\ Requests # {}
  BY KullaniciAssumption
<1>2. IsFiniteSet(S) /\ Cardinality(S) <= Cardinality(Requests)
  BY <1>1, FS_Subset
<1>3. Cardinality(S) \in Nat /\ Cardinality(Requests) \in Nat
  BY <1>1, <1>2, FS_CardinalityType
<1>4. Cardinality(Requests) # 0
  BY <1>1, FS_EmptySet
<1> QED BY <1>2, <1>3, <1>4

\* What a step does to the count of a row: nothing; or a wrong code is counted; or there was
\* still one to be tried.
Sayar(k) ==
  \/ otp'[k].deneme = otp[k].deneme /\ Yanlislar(k)' \subseteq Yanlislar(k)
  \/ /\ otp'[k].deneme = otp[k].deneme + 1
     /\ \E r \in Yanlislar(k) : Yanlislar(k)' = Yanlislar(k) \ {r}
  \/ otp'[k].deneme = otp[k].deneme /\ otp[k].deneme < MAX_ATTEMPTS

LEMMA SayincaSayilir ==
  ASSUME OtpInv, NEW k \in DOMAIN otp, Sayar(k)
  PROVE  otp'[k].deneme + Cardinality(Yanlislar(k)') <= MAX_ATTEMPTS + Cardinality(Requests) - 1
<1> DEFINE W == Yanlislar(k)
           W2 == Yanlislar(k)'
           N == Cardinality(Requests)
<1>1. W \subseteq Requests /\ W2 \subseteq Requests
  BY DEF Yanlislar
<1>2. /\ IsFiniteSet(W) /\ Cardinality(W) \in Nat /\ Cardinality(W2) \in Nat /\ Cardinality(W2) <= N
      /\ N \in Nat \ {0}
  BY <1>1, YanlislarSonlu
<1>3. otp[k] \in OtpRow
  BY DEF OtpInv
<1>4. otp[k].deneme \in Nat /\ MAX_ATTEMPTS \in Nat
  BY <1>3, KullaniciAssumption DEF OtpRow
<1>5. otp[k].deneme + Cardinality(W) <= MAX_ATTEMPTS + N - 1
  BY DEF OtpInv
<1>6. CASE otp'[k].deneme = otp[k].deneme /\ W2 \subseteq W
  <2>1. Cardinality(W2) <= Cardinality(W)
    BY <1>2, <1>6, FS_Subset
  <2> QED BY <1>2, <1>4, <1>5, <1>6, <2>1
<1>7. CASE /\ otp'[k].deneme = otp[k].deneme + 1
           /\ \E r \in W : W2 = W \ {r}
  <2>1. Cardinality(W2) = Cardinality(W) - 1
    BY <1>2, <1>7, FS_RemoveElement
  <2> QED BY <1>2, <1>4, <1>5, <1>7, <2>1
<1>8. CASE otp'[k].deneme = otp[k].deneme /\ otp[k].deneme < MAX_ATTEMPTS
  BY <1>2, <1>4, <1>8
<1> QED BY <1>6, <1>7, <1>8 DEF Sayar

\* Rows stay, and each is counted; a new one has not been tried.
OtpAdimi ==
  /\ otp' \in Seq(OtpRow)
  /\ \A k \in DOMAIN otp : k \in DOMAIN otp' /\ Sayar(k)
  /\ \A k \in DOMAIN otp' : k \in DOMAIN otp \/ otp'[k].deneme = 0

OtpOgrenir ==
  /\ DOMAIN req' = Requests
  /\ \A r \in Requests : req'[r] = req[r] \/ OtpBilir(req'[r])

LEMMA OtpKurulur ==
  ASSUME OtpInv, OtpAdimi, OtpOgrenir
  PROVE  OtpInv'
<1>1. \A r \in Requests : OtpBilir(req'[r])
  BY DEF OtpInv, OtpOgrenir
<1>2. \A r \in Requests : OtpBilir(req[r])'
  BY <1>1 DEF OtpBilir, OtpAdimi
<1>3. ASSUME NEW k \in DOMAIN otp'
      PROVE  otp'[k].deneme + Cardinality(Yanlislar(k)') <= MAX_ATTEMPTS + Cardinality(Requests) - 1
  <2>1. CASE k \in DOMAIN otp
    BY <2>1, SayincaSayilir DEF OtpAdimi
  <2>2. CASE k \notin DOMAIN otp /\ otp'[k].deneme = 0
    <3>1. Yanlislar(k)' \subseteq Requests
      BY DEF Yanlislar
    <3>2. /\ Cardinality(Yanlislar(k)') \in Nat
          /\ Cardinality(Yanlislar(k)') <= Cardinality(Requests)
          /\ Cardinality(Requests) \in Nat \ {0}
      BY <3>1, YanlislarSonlu
    <3> QED BY <2>2, <3>2, KullaniciAssumption
  <2> QED BY <2>1, <2>2 DEF OtpAdimi
<1> QED BY <1>2, <1>3 DEF OtpInv, OtpAdimi, OtpOgrenir

\* Nothing is written, and nobody finds a wrong code.
LEMMA OtpSabit ==
  ASSUME OtpInv, otp' = otp, NEW ops, Surer(ops), ops \cap {"otpYanlis", "otpTuket"} = {}
  PROVE  OtpInv'
<1>1. OtpOgrenir
  BY DEF Surer, OtpOgrenir, OtpBilir
<1>2. \A k \in DOMAIN otp : Yanlislar(k)' \subseteq Yanlislar(k)
  BY DEF Surer, Yanlislar
<1>3. OtpAdimi
  BY <1>2 DEF OtpAdimi, Sayar, OtpInv
<1> QED BY <1>1, <1>3, OtpKurulur

\* One row is written over, with as many wrong codes.
LEMMA OtpYazinca ==
  ASSUME OtpInv, NEW k \in DOMAIN otp, NEW satir \in OtpRow, otp' = [otp EXCEPT ![k] = satir]
  PROVE  /\ otp' \in Seq(OtpRow) /\ DOMAIN otp' = DOMAIN otp
         /\ \A j \in DOMAIN otp : otp'[j] = IF j = k THEN satir ELSE otp[j]
BY DEF OtpInv

LEMMA OtpIsaretlenir ==
  ASSUME OtpInv, NEW k \in DOMAIN otp, NEW satir \in OtpRow, satir.deneme = otp[k].deneme,
         otp' = [otp EXCEPT ![k] = satir], \A j \in DOMAIN otp : Yanlislar(j)' \subseteq Yanlislar(j)
  PROVE  OtpAdimi
<1>1. /\ otp' \in Seq(OtpRow) /\ DOMAIN otp' = DOMAIN otp
      /\ \A j \in DOMAIN otp : otp'[j] = IF j = k THEN satir ELSE otp[j]
  BY OtpYazinca
<1> QED BY <1>1 DEF OtpAdimi, Sayar

LEMMA GecYanlislar ==
  ASSUME OtpInv, NEW r, NEW q, q.op # "otpYanlis", Gec(r, q) \/ Basla(r, q)
  PROVE  \A k : Yanlislar(k)' \subseteq Yanlislar(k)
BY DEF OtpInv, Gec, Basla, Yanlislar

LEMMA GecOtpOgrenir ==
  ASSUME OtpInv, NEW r, NEW q, OtpBilir(q), Gec(r, q) \/ Basla(r, q)
  PROVE  OtpOgrenir
BY DEF OtpInv, Gec, Basla, OtpOgrenir

LEMMA OtpYanlisAdim ==
  ASSUME OtpInv, NEW r \in Requests, OtpYanlis(r)
  PROVE  OtpInv'
<1> DEFINE n == req[r].satir
           satir == [otp[n] EXCEPT !.deneme = @ + 1]
<1>1. req[r].op = "otpYanlis" /\ n \in DOMAIN otp
  BY DEF OtpYanlis, Sira, OtpInv, OtpBilir
<1>2. otp[n] \in OtpRow
  BY <1>1 DEF OtpInv
<1>3. satir \in OtpRow /\ satir.deneme = otp[n].deneme + 1
  BY <1>2 DEF OtpRow
<1>4. otp' = [otp EXCEPT ![n] = satir]
  BY DEF OtpYanlis
<1>5. Bos.op = "bos"
  BY DEF Bos
<1>6. Gec(r, Bos)
  BY DEF OtpYanlis, Bitir
<1>7. OtpOgrenir
  BY <1>5, <1>6, GecOtpOgrenir DEF OtpBilir
<1>8. /\ r \in Yanlislar(n)
      /\ \A k : Yanlislar(k)' = IF k = n THEN Yanlislar(k) \ {r} ELSE Yanlislar(k)
  BY <1>1, <1>5, <1>6 DEF Gec, Yanlislar, OtpInv
<1> HIDE DEF n, satir
<1>9. /\ otp' \in Seq(OtpRow) /\ DOMAIN otp' = DOMAIN otp
      /\ \A j \in DOMAIN otp : otp'[j] = IF j = n THEN satir ELSE otp[j]
  BY <1>1, <1>3, <1>4, OtpYazinca
<1>10. \A k \in DOMAIN otp : Sayar(k)
  BY <1>3, <1>8, <1>9 DEF Sayar
<1>11. OtpAdimi
  BY <1>9, <1>10 DEF OtpAdimi
<1> QED BY <1>7, <1>11, OtpKurulur

LEMMA OtpTuketAdim ==
  ASSUME OtpInv, NEW r \in Requests, OtpTuket(r)
  PROVE  OtpInv'
<1> DEFINE n == req[r].satir
           satir == [otp[n] EXCEPT !.tuketildi = TRUE]
           q == [op |-> "girisUpsert", u |-> req[r].u]
<1>1. n \in DOMAIN otp
  BY DEF OtpTuket, Sira, OtpInv, OtpBilir
<1>2. otp[n] \in OtpRow
  BY <1>1 DEF OtpInv
<1>3. satir \in OtpRow /\ satir.deneme = otp[n].deneme
  BY <1>2 DEF OtpRow
<1>4. otp' = [otp EXCEPT ![n] = satir] /\ Gec(r, q)
  BY DEF OtpTuket
<1>5. q.op = "girisUpsert" /\ OtpBilir(q)
  BY DEF OtpBilir
<1> HIDE DEF n, satir, q
<1>6. OtpOgrenir /\ \A k : Yanlislar(k)' \subseteq Yanlislar(k)
  BY <1>4, <1>5, GecOtpOgrenir, GecYanlislar
<1>7. OtpAdimi
  BY <1>1, <1>3, <1>4, <1>6, OtpIsaretlenir
<1> QED BY <1>6, <1>7, OtpKurulur

LEMMA OtpYaslanAdim ==
  ASSUME OtpInv, NEW k \in DOMAIN otp, OtpYaslan(k)
  PROVE  OtpInv'
<1> DEFINE satir == [otp[k] EXCEPT !.yas = IF @ = "yeni" THEN "acik" ELSE "bitti"]
<1>1. otp[k] \in OtpRow
  BY DEF OtpInv
<1>2. satir \in OtpRow /\ satir.deneme = otp[k].deneme
  BY <1>1 DEF OtpRow
<1>3. otp' = [otp EXCEPT ![k] = satir] /\ req' = req
  BY DEF OtpYaslan
<1> HIDE DEF satir
<1>4. OtpOgrenir /\ \A j : Yanlislar(j)' \subseteq Yanlislar(j)
  BY <1>3 DEF OtpOgrenir, Yanlislar, OtpInv
<1>5. OtpAdimi
  BY <1>2, <1>3, <1>4, OtpIsaretlenir
<1> QED BY <1>4, <1>5, OtpKurulur

LEMMA OtpYazAdim ==
  ASSUME OtpInv, NEW r \in Requests, OtpYaz(r), req[r].u \in Users
  PROVE  OtpInv'
<1> DEFINE satir == [u |-> req[r].u, yas |-> "yeni", deneme |-> 0, tuketildi |-> FALSE]
<1>1. satir \in OtpRow /\ satir.deneme = 0
  BY DEF OtpRow
<1>2. otp' = Append(otp, satir) /\ Gec(r, Bos)
  BY DEF OtpYaz, Bitir
<1>3. Bos.op = "bos"
  BY DEF Bos
<1> HIDE DEF satir
<1>4. OtpOgrenir /\ \A k : Yanlislar(k)' \subseteq Yanlislar(k)
  BY <1>2, <1>3, GecOtpOgrenir, GecYanlislar DEF OtpBilir
<1>5. otp \in Seq(OtpRow)
  BY DEF OtpInv
<1>6. /\ otp' \in Seq(OtpRow)
      /\ \A k \in DOMAIN otp : k \in DOMAIN otp' /\ otp'[k] = otp[k]
      /\ \A k \in DOMAIN otp' : k \in DOMAIN otp \/ otp'[k] = satir
  BY <1>1, <1>2, <1>5
<1>7. OtpAdimi
  BY <1>1, <1>4, <1>6 DEF OtpAdimi, Sayar
<1> QED BY <1>4, <1>7, OtpKurulur

\* A finite set of numbers that is not empty has a greatest member.
LEMMA EnBuyuk ==
  ASSUME NEW S \in SUBSET Nat, IsFiniteSet(S), S # {}
  PROVE  Max(S) \in S
<1> DEFINE sira == [x \in S |-> x]
<1>1. \A x \in S : sira[x] = x /\ sira[x] \in Nat
  OBVIOUS
<1> HIDE DEF sira
<1>2. PICK x \in S : \A y \in S : sira[y] <= sira[x]
  BY <1>1, GreatestRank
<1>3. \A y \in S : x >= y
  BY <1>1, <1>2
<1> QED BY <1>3 DEF Max

LEMMA OtpDogrulaAdim ==
  ASSUME OtpInv, NEW r \in Requests, NEW u, NEW kod, OtpDogrula(r, u, kod)
  PROVE  OtpInv'
<1> DEFINE acik == {k \in OtpSatirlari(u) : otp[k].yas # "bitti" /\ ~ otp[k].tuketildi}
           n == Max(acik)
<1>1. acik # {} /\ acik \subseteq DOMAIN otp /\ otp' = otp /\ otp[n].deneme < MAX_ATTEMPTS
  BY DEF OtpDogrula, OtpSatirlari, kullaniciVars, girisVars
<1>2. DOMAIN otp \subseteq Nat /\ IsFiniteSet(DOMAIN otp)
  <2>1. DOMAIN otp = 1..Len(otp) /\ Len(otp) \in Nat
    BY DEF OtpInv
  <2> QED BY <2>1, FS_Interval
<1>3. n \in DOMAIN otp
  <2>1. IsFiniteSet(acik)
    BY <1>1, <1>2, FS_Subset
  <2> HIDE DEF acik
  <2>2. n \in acik
    BY <1>1, <1>2, <2>1, EnBuyuk
  <2> QED BY <1>1, <2>2
<1>4. PICK op \in {"otpTuket", "otpYanlis"} : Basla(r, [op |-> op, u |-> u, satir |-> n])
  BY DEF OtpDogrula
<1> DEFINE q == [op |-> op, u |-> u, satir |-> n]
<1>5. OtpBilir(q) /\ q.op = op /\ q.satir = n /\ Basla(r, q)
  BY <1>3, <1>4 DEF OtpBilir
<1> HIDE DEF acik, n, q
<1>6. OtpOgrenir
  BY <1>5, GecOtpOgrenir
<1>7. \A k \in DOMAIN otp : k # n => Yanlislar(k)' \subseteq Yanlislar(k)
  BY <1>5 DEF Basla, Yanlislar, OtpInv
<1>8. OtpAdimi
  BY <1>1, <1>7 DEF OtpAdimi, Sayar, OtpInv
<1> QED BY <1>6, <1>8, OtpKurulur

LEMMA OtpAdim ==
  ASSUME DevirInv, OtpInv, [Next]_vars
  PROVE  OtpInv'
<1>1. DOMAIN req = Requests
  BY DEF OtpInv
<1>2. ASSUME otp' = otp, NEW ops \in {GirisOps, SaticiOps, KadroOps, OnayOps, KatalogOps, SepetOps},
             Surer(ops)
      PROVE  OtpInv'
  <2>1. ops \cap {"otpYanlis", "otpTuket"} = {}
    BY DEF GirisOps, SaticiOps, KadroOps, OnayOps, KatalogOps, SepetOps
  <2> QED BY <1>2, <2>1, OtpSabit
<1>3. ASSUME OtpNext PROVE OtpInv'
  <2>1. ASSUME NEW r \in Requests, NEW u, OtpIste(r, u) \/ GuestSession(r, u) PROVE OtpInv'
    <3> DEFINE ops == {"otpYaz", "misafirRol"}
    <3>1. Surer(ops) /\ otp' = otp
      BY <1>1, <2>1, BaslaSurer, GirisAdimiOp DEF OtpIste, GuestSession, kullaniciVars, girisVars
    <3>2. ops \cap {"otpYanlis", "otpTuket"} = {}
      OBVIOUS
    <3> HIDE DEF ops
    <3> QED BY <3>1, <3>2, OtpSabit
  <2>2. ASSUME NEW r \in Requests, OtpYaz(r) PROVE OtpInv'
    <3>1. req[r].u \in Users
      BY <2>2 DEF OtpYaz, Sira, DevirInv, DevirBilir, KullaniciOps
    <3> QED BY <2>2, <3>1, OtpYazAdim
  <2> QED BY <1>3, <2>1, <2>2, OtpDogrulaAdim, OtpYanlisAdim, OtpTuketAdim, OtpYaslanAdim DEF OtpNext
<1>4. ASSUME GirisNext \/ OturumNext \/ YonetimNext PROVE OtpInv'
  <2>1. GirisNext => otp' = otp
    BY DEF GirisNext, GirisUpsert, GirisAktif, GirisYeniden, GirisRol, GirisJeton, MisafirRol, GirisRolYaz,
           kullaniciVars, girisVars
  <2>2. OturumNext => otp' = otp
    BY DEF OturumNext, RefreshOku, TransferKoduOku, RefreshIptal, DevirTuket, DevirSepet, Logout,
           DevirBiter, TransferKoduUret, kullaniciVars, girisVars
  <2>3. YonetimNext => otp' = otp
    BY DEF YonetimNext, SetStatus, AssignRoles, girisVars
  <2> QED BY <1>1, <1>2, <1>4, <2>1, <2>2, <2>3, GirisSurer
<1>5. ASSUME SaticiNext \/ KadroNext PROVE OtpInv'
  BY <1>1, <1>2, <1>5, SaticiSurer, KadroSurer, SaticiKorur, KadroKorur DEF girisVars
<1>6. ASSUME OnayNext \/ KatalogNext \/ SepetNext PROVE OtpInv'
  <2>1. otp' = otp
    BY <1>6, OnayKorur, KatalogKorur, SepetKorur DEF kadroVars, kullaniciVars, girisVars
  <2> QED BY <1>1, <1>2, <1>6, <2>1, OnaySurer, KatalogSurer, SepetSurer
<1>7. ASSUME UNCHANGED vars \/ \E r \in Requests : Durur(r) PROVE OtpInv'
  <2>1. otp' = otp /\ Surer(KadroOps)
    BY <1>1, <1>7, BitirSurer, DurursaSurer
    DEF vars, Durur, KadroOps, kadroVars, kullaniciVars, girisVars
  <2> QED BY <1>2, <2>1
<1> QED BY <1>3, <1>4, <1>5, <1>6, <1>7 DEF Next, KullaniciNext

-----------------------------------------------------------------------------
(* Staff *)

\* What each user is to the staff of each store.
UyelikInv == uyelik \in [(DOMAIN magaza) \X Users -> {"YOK", "AKTIF", "PASIF"}]

LEMMA UyelikYazilir ==
  ASSUME [Next]_vars
  PROVE  \/ uyelik' = uyelik
         \/ \E y \in (DOMAIN magaza) \X Users, durum \in {"AKTIF", "PASIF"} :
              uyelik' = [uyelik EXCEPT ![y] = durum]
<1> DEFINE Sonuc == \/ uyelik' = uyelik
                    \/ \E y \in (DOMAIN magaza) \X Users, durum \in {"AKTIF", "PASIF"} :
                         uyelik' = [uyelik EXCEPT ![y] = durum]
<1>1. ASSUME NEW s \in DOMAIN magaza, NEW k \in Users, PersonelAc(s, k) PROVE Sonuc
  BY <1>1 DEF PersonelAc
<1>2. ASSUME NEW u, NEW s \in DOMAIN magaza, NEW k \in Users, NEW aktif,
             PersonelDurum(u, s, k, aktif)
      PROVE  Sonuc
  <2>1. CASE uyelik' = [uyelik EXCEPT ![<<s, k>>] = "PASIF"]
    BY <2>1
  <2> HIDE DEF Sonuc
  <2> QED BY <1>1, <1>2, <2>1 DEF PersonelDurum
<1>3. uyelik' = uyelik => Sonuc
  OBVIOUS
<1> HIDE DEF Sonuc
<1>4. ASSUME KadroNext PROVE Sonuc
  <2>1. ASSUME NEW u, NEW s \in DOMAIN magaza, NEW k \in Users, PersonelEkle(u, s, k) PROVE Sonuc
    BY <1>1, <2>1 DEF PersonelEkle
  <2>2. ASSUME NEW u, NEW s, NEW k, NEW p, RolAl(u, s, k, p) PROVE Sonuc
    BY <1>3, <2>2 DEF RolAl
  <2> QED
    BY <1>2, <1>3, <1>4, <2>1, <2>2 DEF KadroNext, PersonelNext, RolVerOku, RolVer, MagazaGuncelle, kadroVars
<1>5. ASSUME OnayNext \/ KatalogNext \/ SepetNext PROVE Sonuc
  BY <1>3, <1>5, OnayKorur, KatalogKorur, SepetKorur DEF kadroVars
<1>6. ASSUME UNCHANGED vars \/ \E r \in Requests : Durur(r) PROVE Sonuc
  BY <1>3, <1>6 DEF vars, Durur, kadroVars
<1>7. Sonuc
  BY <1>3, <1>4, <1>5, <1>6 DEF Next
<1> QED BY <1>7 DEF Sonuc

LEMMA UyelikAdim ==
  ASSUME UyelikInv, DOMAIN magaza' = DOMAIN magaza, [Next]_vars
  PROVE  UyelikInv'
<1>1. ASSUME NEW y, NEW durum \in {"AKTIF", "PASIF"}, uyelik' = [uyelik EXCEPT ![y] = durum]
      PROVE  UyelikInv'
  BY <1>1 DEF UyelikInv
<1> QED BY <1>1, UyelikYazilir DEF UyelikInv

-----------------------------------------------------------------------------
(* Categories *)

LEMMA KategoriYazilir ==
  ASSUME [Next]_vars
  PROVE  \/ kategori' = kategori
         \/ \E u \in Users, s \in DOMAIN magaza, c \in DOMAIN kategori,
              ust \in DOMAIN kategori \cup {NoRow} : KategoriEkle(u, s, c, ust)
<1> DEFINE Sonuc ==
      \/ kategori' = kategori
      \/ \E u \in Users, s \in DOMAIN magaza, c \in DOMAIN kategori,
           ust \in DOMAIN kategori \cup {NoRow} : KategoriEkle(u, s, c, ust)
<1>1. kategori' = kategori => Sonuc
  OBVIOUS
<1>2. ASSUME KategoriNext PROVE Sonuc
  BY <1>2 DEF KategoriNext
<1> HIDE DEF Sonuc
<1>3. ASSUME UrunNext PROVE kategori' = kategori
  BY <1>3
  DEF UrunNext, UrunEkle, UrunOnaylaOku, UrunReddetOku, UrunKaldirOku, UrunGuncelleOku, UrunYaz,
      StokYaz, Satis, Iade, katalogVars, vitrinVars
<1>4. ASSUME VaryantNext PROVE kategori' = kategori
  BY <1>4
  DEF VaryantNext, VaryantOlustur, VaryantSil, VaryantGuncelleOku, VaryantYaz, katalogVars, vitrinVars
<1>5. ASSUME SecenekNext PROVE kategori' = kategori
  BY <1>5
  DEF SecenekNext, SecenekGrubuOlustur, SecenekGrubuGuncelleOku, GrupYaz, SecenekGrubuSil, SecenekEkle,
      SecenekGuncelle, SecenekSil, UrunSecenekGruplari, katalogVars, vitrinVars
<1>6. ASSUME MedyaNext PROVE kategori' = kategori
  BY <1>6
  DEF MedyaNext, MedyaEkle, MedyaGuncelle, BirincilDigerleri, BirincilResim, MedyaSil, katalogVars,
      vitrinVars
<1>7. ASSUME SepetNext PROVE kategori' = kategori
  BY <1>7, SepetKorur DEF katalogVars, vitrinVars
<1>8. ASSUME \/ UNCHANGED vars \/ \E r \in Requests : Durur(r)
             \/ (KullaniciNext \/ SaticiNext \/ KadroNext \/ OnayNext) /\ UNCHANGED katalogVars
      PROVE  kategori' = kategori
  BY <1>8 DEF vars, Durur, katalogVars, vitrinVars
<1>9. Sonuc
  BY <1>1, <1>2, <1>3, <1>4, <1>5, <1>6, <1>7, <1>8 DEF Next, KatalogNext
<1> QED BY <1>9 DEF Sonuc

\* The category tree is one level deep, within each store.
KategoriInv == KategoriAgaci(kategori)

LEMMA KategoriAdim ==
  ASSUME Sahipli, KategoriInv, [Next]_vars
  PROVE  KategoriInv'
<1>1. ASSUME NEW u, NEW s \in DOMAIN magaza, NEW c \in DOMAIN kategori,
             NEW ust \in DOMAIN kategori \cup {NoRow}, KategoriEkle(u, s, c, ust)
      PROVE  KategoriInv'
  <2> DEFINE satir == [s |-> s, ust |-> ust]
  <2>1. /\ NoRow \notin DOMAIN kategori
        /\ kategori \in [DOMAIN kategori ->
                          [s : Stores \cup {NoStore}, ust : DOMAIN kategori \cup {NoRow}]]
    BY DEF KategoriInv, KategoriAgaci
  <2>2. s \in Stores /\ s # NoStore
    BY KullaniciAssumption DEF Sahipli
  <2>3. /\ kategori[c].s = NoStore
        /\ ust # NoRow => kategori[ust].s = s /\ kategori[ust].ust = NoRow
        /\ kategori' = [kategori EXCEPT ![c] = satir]
    BY <1>1 DEF KategoriEkle, YokKategori
  <2>4. DOMAIN kategori' = DOMAIN kategori /\ \A d \in DOMAIN kategori : kategori'[d] = IF d = c THEN satir ELSE kategori[d]
    BY <2>1, <2>3
  <2>5. satir \in [s : Stores \cup {NoStore}, ust : DOMAIN kategori \cup {NoRow}]
    BY <2>2
  <2>6. kategori' \in [DOMAIN kategori ->
                        [s : Stores \cup {NoStore}, ust : DOMAIN kategori \cup {NoRow}]]
    BY <2>1, <2>3, <2>5
  <2>7. ASSUME NEW d \in DOMAIN kategori, kategori'[d].ust # NoRow
        PROVE  kategori'[d].s # NoStore /\ kategori'[kategori'[d].ust] = [s |-> kategori'[d].s, ust |-> NoRow]
    <3>1. CASE d = c
      <4>1. kategori'[d].s = s /\ kategori'[d].ust = ust /\ ust \in DOMAIN kategori
        BY <2>4, <2>7, <3>1
      <4>2. kategori[ust] = [s |-> s, ust |-> NoRow]
        <5>1. kategori[ust] \in [s : Stores \cup {NoStore}, ust : DOMAIN kategori \cup {NoRow}]
          BY <2>1, <4>1
        <5> QED BY <2>3, <2>7, <4>1, <5>1
      <4>3. ust # c
        BY <2>2, <2>3, <4>2
      <4> QED BY <2>2, <2>4, <4>1, <4>2, <4>3
    <3>2. CASE d # c
      <4> DEFINE e == kategori[d].ust
      <4>1. kategori'[d] = kategori[d] /\ e # NoRow
        BY <2>4, <2>7, <3>2
      <4>2. kategori[d].s # NoStore /\ kategori[e] = [s |-> kategori[d].s, ust |-> NoRow]
        BY <4>1 DEF KategoriInv, KategoriAgaci
      <4>3. kategori[d] \in [s : Stores \cup {NoStore}, ust : DOMAIN kategori \cup {NoRow}]
        BY <2>1
      <4>4. e \in DOMAIN kategori /\ e # c
        BY <2>3, <4>1, <4>2, <4>3
      <4> QED BY <2>4, <4>1, <4>2, <4>4
    <3> QED BY <3>1, <3>2
  <2> HIDE DEF satir
  <2> QED BY <2>1, <2>4, <2>6, <2>7 DEF KategoriInv, KategoriAgaci
<1> QED BY <1>1, KategoriYazilir DEF KategoriInv

-----------------------------------------------------------------------------
(* Waiting requests *)

LEMMA DurumBekler ==
  ASSUME TekBekleyen(talep), NEW t, NEW n, NEW durum, durum # "PENDING", DurumYazildi(t, n, durum)
  PROVE  TekBekleyen(t)
<1>1. \A k \in DOMAIN t : t[k].durum = "PENDING" => k \in DOMAIN talep /\ talep[k].durum = "PENDING"
                                                  /\ t[k].s = talep[k].s
  BY DEF DurumYazildi
<1> QED BY <1>1 DEF TekBekleyen

LEMMA SubmitBekler ==
  ASSUME TalepInv, TekBekleyen(talep), NEW r \in Requests, SubmitYaz(r)
  PROVE  TekBekleyen(talep')
<1> DEFINE q == req[r]
           yeni == [s |-> q.s, by |-> q.by, durum |-> "PENDING", liste |-> q.liste,
                    beklenen |-> q.beklenen, taban |-> bolge[q.s]]
           eskisi == IF q.onceki = 0 THEN talep ELSE [talep EXCEPT ![q.onceki].durum = "SUPERSEDED"]
<1>1. Talepler /\ talep \in Seq(TalepRow(DOMAIN bolge))
  BY DEF TalepInv, Talepler
<1>2. CASE talep' = talep
  BY <1>2
<1>3. CASE Bekleyenler(q.s) \subseteq {q.onceki} /\ talep' = Append(eskisi, yeni)
  <2>1. /\ DOMAIN eskisi = DOMAIN talep /\ eskisi \in Seq(TalepRow(DOMAIN bolge))
        /\ TekBekleyen(eskisi)
        /\ \A k \in DOMAIN talep : eskisi[k].durum = "PENDING" => eskisi[k].s # q.s
    <3>1. CASE q.onceki = 0
      <4>1. eskisi = talep /\ 0 \notin DOMAIN talep
        BY <1>1, <3>1
      <4> QED BY <1>1, <1>3, <3>1, <4>1 DEF Bekleyenler
    <3>2. CASE q.onceki # 0
      <4>1. eskisi = [talep EXCEPT ![q.onceki].durum = "SUPERSEDED"] /\ "SUPERSEDED" \in ChangeRequestStatus
        BY <3>2 DEF ChangeRequestStatus
      <4>2. \A k \in DOMAIN talep : talep[k].durum = "PENDING" /\ talep[k].s = q.s => k = q.onceki
        BY <1>3 DEF Bekleyenler
      <4> HIDE DEF eskisi
      <4>3. DurumYazildi(eskisi, q.onceki, "SUPERSEDED")
        BY <1>1, <4>1, DurumYazinca
      <4>4. TekBekleyen(eskisi)
        BY <4>3, DurumBekler
      <4>5. DOMAIN eskisi = DOMAIN talep /\ eskisi \in Seq(TalepRow(DOMAIN bolge))
        BY <4>3, <1>1 DEF DurumYazildi
      <4>6. ASSUME NEW k \in DOMAIN talep, eskisi[k].durum = "PENDING", eskisi[k].s = q.s
            PROVE  FALSE
        <5> DEFINE o == q.onceki
        <5>0. \A j \in DOMAIN talep : talep[j].durum = "PENDING" /\ talep[j].s = q.s => j = o
          BY <4>2
        <5>1. DurumYazildi(eskisi, o, "SUPERSEDED")
          BY <4>3
        <5> HIDE DEF o, q
        <5> QED BY <5>0, <5>1, <4>6 DEF DurumYazildi
      <4> QED BY <4>4, <4>5, <4>6
    <3> QED BY <3>1, <3>2
  <2>2. yeni.s = q.s
    OBVIOUS
  <2> HIDE DEF yeni, eskisi
  <2>3. /\ \A k \in DOMAIN talep : k \in DOMAIN talep' /\ talep'[k] = eskisi[k]
        /\ \A k \in DOMAIN talep' : k \in DOMAIN talep \/ (k = Len(eskisi) + 1 /\ talep'[k] = yeni)
    <3>1. /\ \A k \in DOMAIN eskisi : k \in DOMAIN talep' /\ talep'[k] = eskisi[k]
          /\ \A k \in DOMAIN talep' : k \in DOMAIN eskisi \/ (k = Len(eskisi) + 1 /\ talep'[k] = yeni)
      BY <1>3, <2>1
    <3> QED BY <2>1, <3>1
  <2> QED BY <2>1, <2>2, <2>3 DEF TekBekleyen
<1> QED BY <1>2, <1>3 DEF SubmitYaz

LEMMA BekleyenAdim ==
  ASSUME TalepInv, TekBekleyen(talep), [Next]_vars
  PROVE  TekBekleyen(talep')
<1>1. Talepler /\ DOMAIN req = Requests
  BY DEF TalepInv
<1>2. ASSUME NEW k, NEW durum \in {"APPROVED", "REJECTED"}, talep' = [talep EXCEPT ![k].durum = durum]
      PROVE  TekBekleyen(talep')
  <2>1. durum \in ChangeRequestStatus /\ durum # "PENDING"
    BY DEF ChangeRequestStatus
  <2>2. DurumYazildi(talep', k, durum)
    BY <1>1, <1>2, <2>1, DurumYazinca
  <2> QED BY <2>1, <2>2, DurumBekler
<1>3. ASSUME NEW r \in Requests, Approve(r) \/ Reject(r)
      PROVE  \/ talep' = talep
             \/ \E durum \in {"APPROVED", "REJECTED"} : talep' = [talep EXCEPT ![req[r].k].durum = durum]
  BY <1>3 DEF Approve, Reject
<1>4. ASSUME OnayNext PROVE TekBekleyen(talep')
  <2>1. ASSUME NEW r, BolgeGuncelle(r) \/ SubmitBul(r) PROVE talep' = talep
    BY <2>1 DEF BolgeGuncelle, SubmitBul, onayVars
  <2>2. \/ talep' = talep \/ \E r \in Requests : SubmitYaz(r) \/ Approve(r) \/ Reject(r)
    BY <1>4, <2>1
    DEF OnayNext, BolgeGuncelleOku, SubmitDogrula, ApproveOku, RejectOku, KapsamDegisir, onayVars
  <2> QED BY <1>2, <1>3, <2>2, SubmitBekler
<1>5. KullaniciNext /\ UNCHANGED onayVars => talep' = talep
  BY DEF onayVars
<1> QED BY <1>1, <1>4, <1>5, AyniIstekler DEF onayVars

-----------------------------------------------------------------------------
(* The rows together *)

\* The parts hold together: what a request writes in one table is right by what it knows of
\* the others.
RowInv ==
  /\ HesapInv /\ RolInv /\ OtpInv /\ DevirInv
  /\ SaticiInv /\ MagazaInv /\ UyelikInv
  /\ TalepInv /\ TekBekleyen(talep) /\ DOMAIN bolge = DOMAIN magaza
  /\ MalInv /\ KategoriInv

LEMMA RowAdim ==
  ASSUME RowInv, [Next]_vars
  PROVE  RowInv'
<1>1. Sahipli /\ DOMAIN magaza' = DOMAIN magaza
  BY MagazaMal DEF RowInv, MalInv, MagazaAdimi
<1>2. DOMAIN bolge' = DOMAIN bolge
  BY TalepAdim DEF RowInv, TalepAdimi, Buyur
<1>3. TekBekleyen(talep)'
  BY BekleyenAdim DEF RowInv
<1>4. HesapInv' /\ RolInv' /\ OtpInv' /\ DevirInv'
  BY <1>1, HesapInvAdim, RolAdim, OtpAdim, DevirAdim DEF RowInv
<1>5. SaticiInv' /\ MagazaInv' /\ MalInv' /\ TalepInv'
  BY SaticiAdim, MagazaAdim, MalAdim, TalepAdim DEF RowInv
<1>6. UyelikInv' /\ KategoriInv'
  BY <1>1, UyelikAdim, KategoriAdim DEF RowInv
<1> QED BY <1>1, <1>2, <1>3, <1>4, <1>5, <1>6 DEF RowInv

LEMMA RowBaslar ==
  ASSUME Init
  PROVE  RowInv
<1>1. PICK x \in Sahneler :
        /\ req = [r \in Requests |-> Bos]
        /\ kul = x.kul /\ rol = x.rol /\ otp = x.otp /\ magaza = x.magaza
        /\ uyelik = [y \in (DOMAIN x.magaza) \X Users |-> IF y \in x.kadro THEN "AKTIF" ELSE "YOK"]
        /\ talep = x.talep /\ kategori = x.kategori
        /\ bolge = [s \in DOMAIN x.magaza |-> [rev |-> 0, liste |-> {}]]
  BY DEF Init
<1>2. DOMAIN req = Requests /\ \A r \in Requests : req[r].op = "bos"
  BY <1>1 DEF Bos
<1>3. HesapInv /\ RolInv
  BY <1>1, <1>2, SaticiSahneleri, OturumSahneleri DEF HesapInv, RolInv, RolBilir
<1>4. OtpInv
  <2>1. otp \in Seq(OtpRow) /\ \A k \in DOMAIN otp : otp[k].deneme <= MAX_ATTEMPTS
    BY <1>1, OturumSahneleri
  <2>2. ASSUME NEW k \in DOMAIN otp
        PROVE  otp[k].deneme + Cardinality(Yanlislar(k)) <= MAX_ATTEMPTS + Cardinality(Requests) - 1
    <3>1. otp[k] \in OtpRow
      BY <2>1
    <3>2. otp[k].deneme \in Nat /\ otp[k].deneme <= MAX_ATTEMPTS /\ MAX_ATTEMPTS \in Nat
      BY <2>1, <3>1, KullaniciAssumption DEF OtpRow
    <3>3. Yanlislar(k) = {}
      BY <1>2 DEF Yanlislar
    <3>4. Cardinality(Yanlislar(k)) = 0 /\ Cardinality(Requests) \in Nat \ {0}
      BY <3>3, FS_EmptySet, YanlislarSonlu
    <3> QED BY <3>2, <3>4
  <2>3. \A r \in Requests : OtpBilir(req[r])
    BY <1>2 DEF OtpBilir
  <2> QED BY <1>2, <2>1, <2>2, <2>3 DEF OtpInv
<1>5. UyelikInv /\ DOMAIN bolge = DOMAIN magaza
  BY <1>1 DEF UyelikInv
<1>6. TekBekleyen(talep)
  BY <1>1, TalepSahneleri
<1>7. KategoriInv
  BY <1>1, RafSahneleri DEF KategoriInv
<1> QED
  BY <1>3, <1>4, <1>5, <1>6, <1>7, DevirBaslar, SaticiBaslar, MagazaBaslar, TalepBaslar, MalBaslar
  DEF RowInv

\* Whatever requests interleave, the rows of every table stay what their columns allow: an
\* account has one of the statuses and a role its scope, a code is tried at most once more
\* for each request beside the last one allowed (verify compares before it counts the try),
\* a session names the transfer code that opened it, one change request waits in a store,
\* no stock is negative, and a category is at most one level deep.
THEOREM RowsStayRight == Spec => []TypeOK
<1>1. Spec => []RowInv
  BY RowBaslar, RowAdim, PTL DEF Spec
<1>2. RowInv => TypeOK
  <2> SUFFICES ASSUME RowInv PROVE TypeOK
    OBVIOUS
  <2>1. kul \in [Users -> UserStatus \cup {"YOK"}] /\ rol \subseteq UserRole
    BY DEF RowInv, HesapInv, RolInv
  <2>2. ASSUME NEW k \in DOMAIN otp
        PROVE  otp[k].u \in Users /\ otp[k].deneme \in 0..(MAX_ATTEMPTS + Cardinality(Requests) - 1)
    <3>1. otp[k] \in OtpRow
      BY DEF RowInv, OtpInv
    <3>2. otp[k].deneme + Cardinality(Yanlislar(k)) <= MAX_ATTEMPTS + Cardinality(Requests) - 1
      BY DEF RowInv, OtpInv
    <3>3. Yanlislar(k) \subseteq Requests
      BY DEF Yanlislar
    <3>4. Cardinality(Yanlislar(k)) \in Nat /\ Cardinality(Requests) \in Nat
      BY <3>3, YanlislarSonlu
    <3>5. otp[k].u \in Users /\ otp[k].deneme \in Nat /\ MAX_ATTEMPTS \in Nat
      BY <3>1, KullaniciAssumption DEF OtpRow
    <3> QED BY <3>2, <3>4, <3>5
  <2>3. ASSUME NEW j \in DOMAIN jeton
        PROVE  jeton[j].u \in Users /\ jeton[j].kod \in 0..Len(devir)
    <3>1. jeton[j] \in JetonRow /\ devir \in Seq(DevirRow)
      BY DEF RowInv, DevirInv
    <3>2. jeton[j].u \in Users /\ jeton[j].kod \in Nat
      BY <3>1 DEF JetonRow
    <3>3. jeton[j].kod # 0 => jeton[j].kod \in DOMAIN devir
      BY <3>2 DEF RowInv, DevirInv, TekTasiyan, Kullanilmis
    <3> QED BY <3>1, <3>2, <3>3
  <2>4. \A u \in Users : /\ satici[u].durum \in SellerStatus \cup {"YOK"}
                         /\ satici[u].dogrulama \in SellerVerification
    BY DEF RowInv, SaticiInv, SaticiRow
  <2>5. \A s \in DOMAIN magaza : magaza[s].sahip \in Users \cup {NoUser}
    BY DEF RowInv, MagazaInv, MagazaRow
  <2>6. uyelik \in [(DOMAIN magaza) \X Users -> {"YOK", "AKTIF", "PASIF"}]
    BY DEF RowInv, UyelikInv
  <2>7. \A k \in DOMAIN talep : talep[k].durum \in ChangeRequestStatus
    <3>1. talep \in Seq(TalepRow(DOMAIN bolge))
      BY DEF RowInv, TalepInv, Talepler
    <3>2. \A k \in DOMAIN talep : talep[k] \in TalepRow(DOMAIN bolge)
      BY <3>1
    <3> QED BY <3>2 DEF TalepRow
  <2>8. ASSUME NEW s \in DOMAIN magaza
        PROVE  Cardinality(Bekleyenler(s)) <= 1 /\ bolge[s].liste \subseteq UNION Listeler
    <3>1. bolge[s].liste \subseteq UNION Listeler
      BY DEF RowInv, TalepInv, Talepler, BolgeRow
    <3>2. \A i, j \in Bekleyenler(s) : i = j
      BY DEF RowInv, TekBekleyen, Bekleyenler
    <3>3. CASE Bekleyenler(s) = {}
      BY <3>1, <3>3, FS_EmptySet
    <3>4. CASE Bekleyenler(s) # {}
      <4>1. PICK k \in Bekleyenler(s) : TRUE
        BY <3>4
      <4>2. Bekleyenler(s) = {k}
        BY <3>2, <4>1
      <4>3. Cardinality({k}) = 1
        BY FS_Singleton
      <4> QED BY <3>1, <4>2, <4>3
    <3> QED BY <3>3, <3>4
  <2>9. \A p \in DOMAIN urun : urun[p].stok \in Nat /\ urun[p].price \in Nat
    BY DEF RowInv, MalInv, UrunSatiri, Sayilar, SayiAlanlari
  <2>10. \A v \in DOMAIN varyant : varyant[v].stok = <<>> \/ varyant[v].stok[1] \in Nat
    BY DEF RowInv, MalInv, VaryantSatiri
  <2>11. \A c \in DOMAIN kategori :
           kategori[c].ust # NoRow => kategori[kategori[c].ust] = [s |-> kategori[c].s, ust |-> NoRow]
    BY DEF RowInv, KategoriInv, KategoriAgaci
  <2>12. \A k \in DOMAIN kalem : kalem[k] = YokKalem \/ kalem[k].adet \in 1..(ADET_SINIRI + 1)
    BY DEF RowInv, MalInv, KalemYeri
  <2> QED
    BY <2>1, <2>2, <2>3, <2>4, <2>5, <2>6, <2>7, <2>8, <2>9, <2>10, <2>11, <2>12 DEF TypeOK
<1> QED BY <1>1, <1>2, PTL
=============================================================================
