-------------------------------- MODULE Fiyat --------------------------------
(***************************************************************************)
(* The price of a product of BaniCarsi (delivery/pricing.ts): the price the *)
(* customer sees contains the seller's net price, the platform's            *)
(* commission, the freight and both parties' VAT; each part is stored with  *)
(* the product and paid out by it.  Amounts are kurus, whole numbers, and   *)
(* every division rounds down.                                              *)
(*                                                                         *)
(* A text (a product's and its category's name) is the set of the rules of  *)
(* the VAT table one of whose keywords occurs in it.                        *)
(***************************************************************************)
EXTENDS Naturals, Sequences, FiniteSetsExt

CONSTANTS
  DESI_TARIFE_KURUS,      \* freight, by whole desi from 0
  DESI_USTU_BIRIM_KURUS,  \* each desi beyond the table
  commissionRate          \* stores.commissionRate, in ten thousandths; no code changes it

ASSUME FiyatAssumption ==
  /\ Max(DOMAIN DESI_TARIFE_KURUS) \in Nat
  /\ DOMAIN DESI_TARIFE_KURUS = 0..Max(DOMAIN DESI_TARIFE_KURUS)
  /\ \A desi \in DOMAIN DESI_TARIFE_KURUS : DESI_TARIFE_KURUS[desi] \in Nat
  /\ DESI_USTU_BIRIM_KURUS \in Nat
  /\ commissionRate \in 0..10000

KDV_KURALLARI ==
  << [etiket |-> "Ev tekstili", oran |-> 10], [etiket |-> "Ayakkabi & canta", oran |-> 10],
     [etiket |-> "Kirtasiye", oran |-> 20], [etiket |-> "Kitap", oran |-> 0],
     [etiket |-> "Ev gerecleri", oran |-> 20], [etiket |-> "Islenmis gida", oran |-> 10],
     [etiket |-> "Taze gida", oran |-> 1], [etiket |-> "Elektronik", oran |-> 20],
     [etiket |-> "Oto, bahce & yapi", oran |-> 20], [etiket |-> "Tekstil & moda", oran |-> 10],
     [etiket |-> "Mobilya", oran |-> 10], [etiket |-> "Kozmetik", oran |-> 20],
     [etiket |-> "Anne & bebek", oran |-> 20], [etiket |-> "Oyuncak", oran |-> 20],
     [etiket |-> "Spor", oran |-> 20], [etiket |-> "Yoresel", oran |-> 20] >>

VARSAYILAN_KDV == 20

\* The first rule of the table that the text meets decides.
KdvOraniBul(metin) ==
  LET uyan == {k \in DOMAIN KDV_KURALLARI : KDV_KURALLARI[k].etiket \in metin}
  IN IF uyan = {} THEN VARSAYILAN_KDV ELSE KDV_KURALLARI[Min(uyan)].oran

\* desi: the larger of volume and weight, rounded up to a whole number.
KargoKurusHesapla(desi) ==
  LET son == Max(DOMAIN DESI_TARIFE_KURUS)
  IN IF desi <= son
       THEN DESI_TARIFE_KURUS[desi]
       ELSE DESI_TARIFE_KURUS[son] + DESI_USTU_BIRIM_KURUS * (desi - son)

\* commissionRate / 100 in whole numbers: a rate of 8.5 per cent counts as 8.
KomisyonOran == commissionRate \div 100

Yuzde(tutar, oran) == (tutar * oran) \div 100

HIZMET_KDV_ORAN == 20

\* Rounding up to whole liras is stored as part of the freight.
YuvarlamaPayi(vitrin, ham) == vitrin - ham

\* The price, and its parts as they are stored.
VitrinFiyatHesapla(net, desi, model, kdv) ==
  LET komisyon == Yuzde(net, KomisyonOran)
      kargo == KargoKurusHesapla(desi)
      malKdv == Yuzde(net, kdv)
      hizmetKdv == Yuzde(IF model = "B" THEN komisyon ELSE komisyon + kargo, HIZMET_KDV_ORAN)
      ham == net + komisyon + kargo + malKdv + hizmetKdv
      vitrin == ((ham + 99) \div 100) * 100
  IN [price |-> vitrin, net |-> net,
      dagitim |-> [komisyon |-> komisyon, kargo |-> kargo + YuvarlamaPayi(vitrin, ham),
                   malKdv |-> malKdv, hizmetKdv |-> hizmetKdv]]

\* The surcharge of an option: no freight, no rounding.
EkUcretHesapla(net, kdv) ==
  LET komisyon == Yuzde(net, KomisyonOran)
      malKdv == Yuzde(net, kdv)
      hizmetKdv == Yuzde(komisyon, HIZMET_KDV_ORAN)
  IN [ekUcret |-> net + komisyon + malKdv + hizmetKdv, net |-> net,
      dagitim |-> [komisyon |-> komisyon, malKdv |-> malKdv, hizmetKdv |-> hizmetKdv]]
=============================================================================
