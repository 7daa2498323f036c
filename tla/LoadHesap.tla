------------------------------ MODULE LoadHesap ------------------------------
(***************************************************************************)
(* The tables of the freight market (load/) and what all its handlers      *)
(* share: the listings and offers of the three boards (loads, vehicles,    *)
(* house moves), the gates a user must pass before he may list or bid      *)
(* (commission debt, contract, documents), commission payments and         *)
(* ratings.  YukPazari, AracPazari and EvdenEve add the boards' handlers,  *)
(* LoadMarket composes them.                                               *)
(*                                                                         *)
(* The three boards have tables of their own in the code; here a row says  *)
(* in .tur to which board it belongs.                                      *)
(***************************************************************************)
EXTENDS Integers, FiniteSets, FiniteSetsExt

CONSTANTS
  Users, Firmalar, Tasiyicilar, Adminler,   \* LOAD_CUSTOMER, CARRIER, platform managers
  Ilanlar, Teklifler,          \* rows there are: the bounds on listings and offers
  Requests,                    \* handlers between their read and their write
  Boards,                      \* the boards in use, of "yuk", "arac", "ev"
  Fiyatlar, Puanlar,           \* prices and ratings users may enter
  Bildirimler,                 \* payments <<user, amount>> carriers may report
  PAZARLIK_ELI,                \* counter-offers allowed per offer (3 in the code)
  KYC_KILIT_AKTIF, KOMISYON_KILIT_AKTIF,    \* switches in the environment
  Sozlesmeler, Yuklenenler,    \* contracts <<user, type>> to accept and documents to upload
  NoUser, NoIlan, NoTeklif

ASSUME LoadAssumption ==
  /\ IsFiniteSet(Requests) /\ Requests # {}
  /\ Firmalar \subseteq Users /\ Tasiyicilar \subseteq Users
  /\ NoUser \notin Users /\ NoIlan \notin Ilanlar /\ NoTeklif \notin Teklifler
  /\ Fiyatlar \subseteq Nat /\ Puanlar \subseteq 1..5
  /\ PAZARLIK_ELI \in Nat
  /\ KYC_KILIT_AKTIF \in BOOLEAN /\ KOMISYON_KILIT_AKTIF \in BOOLEAN

VARIABLES
  ilan,      \* yuk_ilanlari, arac_ilanlari and ev_ilanlari
  teklif,    \* yuk_teklifleri, arac_teklifleri and ev_teklifleri
  odeme,     \* komisyon_odemeleri; its domain bounds the rows there may be
  belge,     \* load_belgeler, likewise
  onay,      \* sozlesme_onaylari of the versions in force: pairs <<user, type>>
  degerler,  \* load_degerlendirmeler
  puan,      \* load_puanlar: average in hundredths and count, house moves apart
  isler,     \* jobs put into the queue
  req        \* what each handler remembers between its read and its write

hesapVars == <<odeme, belge, onay, degerler, puan, isler>>
vars == <<ilan, teklif, hesapVars, req>>

\* beyan, onay: a vehicle's owner has declared, his customer confirmed the delivery;
\* gecmis: the date of the job is more than a day ago.
YokIlan == [tur |-> "yok", sahip |-> NoUser, durum |-> "YOK", secili |-> NoTeklif,
            beyan |-> FALSE, onay |-> FALSE, gecmis |-> FALSE]

\* taraf: whose answer is awaited; el: counter-offers made; kesin: the price agreed on
\* (gerceklesenKurus), on the house-move board the price after the survey.
YokTeklif == [ilan |-> NoIlan, veren |-> NoUser, durum |-> "YOK", taraf |-> "YOK",
              el |-> 0, fiyat |-> 0, kesin |-> 0]

YukIlaniDurum == {"ACIK", "TEKLIF_ALINDI", "ESLESTI", "TASINIYOR", "TAMAMLANDI", "IPTAL"}
AracIlaniDurum == {"MUSAIT", "DOLU", "PASIF", "TAMAMLANDI"}
EvIlaniDurum == {"ODEME_BEKLIYOR", "ACIK", "KESIF_SURECINDE", "KILITLENDI", "TAMAMLANDI"}
TeklifDurum == {"BEKLIYOR", "KABUL", "RED", "GERI_CEKILDI"}
EvTeklifDurum == {"ON_TEKLIF", "KESFE_DAVET", "KESIF_UYGUN", "KESIF_REVIZE", "KABUL", "RED"}

\* A listing still open for offers, on the two boards where offers are binding.
EslesmeyeAcik(i) == ilan[i].durum \in {"ACIK", "TEKLIF_ALINDI", "MUSAIT"}

TekliflerOf(i) == {t \in Teklifler : teklif[t].ilan = i}

-----------------------------------------------------------------------------
(* Requests *)

Bos == [op |-> "bos", ilan |-> NoIlan, hedef |-> NoTeklif, by |-> NoUser,
        durum |-> "YOK", sayi |-> 0, ort |-> 0, alan |-> NoUser]

\* Handler r has made its checks for user u and goes on to its write.  q holds what of
\* the rows it has read it will use again.
Oku(r, q) ==
  /\ req[r] = Bos
  /\ req' = [req EXCEPT ![r] = q]
  /\ UNCHANGED <<ilan, teklif, hesapVars>>

IlanOku(r, op, i) == Oku(r, [Bos EXCEPT !.op = op, !.ilan = i])

TeklifOku(r, op, t) == Oku(r, [Bos EXCEPT !.op = op, !.ilan = teklif[t].ilan, !.hedef = t])

\* A bidder's request: he and the listing's status are needed for the insert.
BidOku(r, op, i, u) ==
  Oku(r, [Bos EXCEPT !.op = op, !.ilan = i, !.by = u, !.durum = ilan[i].durum])

Bitir(r) == req' = [req EXCEPT ![r] = Bos]

\* The conditional write finds its row changed: the caller gets an error.
Cakisma(r) == Bitir(r) /\ UNCHANGED <<ilan, teklif, hesapVars>>

YeniIlan(i, tur, u, durum) ==
  /\ tur \in Boards
  /\ ilan[i] = YokIlan
  /\ ilan' = [ilan EXCEPT ![i] = [YokIlan EXCEPT !.tur = tur, !.sahip = u, !.durum = durum]]
  /\ UNCHANGED <<teklif, hesapVars, req>>

\* A new offer takes any free row: they are all alike.
YeniTeklif(i, u, durum, taraf, fiyat) ==
  LET bos == {t \in Teklifler : teklif[t] = YokTeklif}
  IN /\ bos # {}
     /\ teklif' = [teklif EXCEPT ![CHOOSE t \in bos : TRUE] = [YokTeklif EXCEPT
          !.ilan = i, !.veren = u, !.durum = durum, !.taraf = taraf, !.fiyat = fiyat]]

\* The one waiting offer a user may have on a listing.
BekleyeniVar(i, u, durumlar) ==
  \E t \in TekliflerOf(i) : teklif[t].veren = u /\ teklif[t].durum \in durumlar

\* Write an offer's status by id alone, whatever it is by now.
DurumYaz(r, durum) ==
  /\ teklif' = [teklif EXCEPT ![req[r].hedef].durum = durum]
  /\ Bitir(r)
  /\ UNCHANGED <<ilan, hesapVars>>

IlanDurumYaz(r, durum) ==
  /\ ilan' = [ilan EXCEPT ![req[r].ilan].durum = durum]
  /\ Bitir(r)
  /\ UNCHANGED <<teklif, hesapVars>>

-----------------------------------------------------------------------------
(* Commission: 5 % of what a finished job cost, owed by its carrier *)

LOAD_KOMISYON_BINDE == 500

Komisyon(fiyat) == (fiyat * LOAD_KOMISYON_BINDE) \div 10000

\* The jobs the debt counts.  A vehicle's job is found by its status and its
\* confirmation, a house move by its accepted offer's final price.
BiliniyorTamam(i) ==
  \/ ilan[i].tur \in {"yuk", "ev"} /\ ilan[i].durum = "TAMAMLANDI"
  \/ ilan[i].tur = "arac" /\ ilan[i].durum \in {"DOLU", "TAMAMLANDI"} /\ ilan[i].onay

Tasiyan(i) == IF ilan[i].tur = "arac" THEN ilan[i].sahip ELSE teklif[ilan[i].secili].veren

IsBedeli(i) ==
  LET t == ilan[i].secili
  IN IF ilan[i].tur = "ev" THEN teklif[t].kesin ELSE teklif[t].fiyat

Tahakkuk(u) ==
  LET isleri == {i \in Ilanlar : /\ BiliniyorTamam(i)
                                 /\ ilan[i].secili # NoTeklif
                                 /\ Tasiyan(i) = u}
  IN MapThenSumSet(LAMBDA i : Komisyon(IsBedeli(i)), isleri)

Odenen(u) ==
  MapThenSumSet(LAMBDA o : odeme[o].tutar,
                {o \in DOMAIN odeme : odeme[o].kim = u /\ odeme[o].durum = "ONAYLANDI"})

KomisyonBorcu(u) == IF Tahakkuk(u) > Odenen(u) THEN Tahakkuk(u) - Odenen(u) ELSE 0

ErisimKontrolu(u) == KOMISYON_KILIT_AKTIF => KomisyonBorcu(u) < 1

YokOdeme == [durum |-> "YOK", kim |-> NoUser, tutar |-> 0]

KomisyonBildir(o, u, tutar) ==
  /\ odeme[o] = YokOdeme
  /\ tutar > 0
  /\ odeme' = [odeme EXCEPT ![o] = [durum |-> "BEKLIYOR", kim |-> u, tutar |-> tutar]]
  /\ UNCHANGED <<ilan, teklif, belge, onay, degerler, puan, isler, req>>

\* komisyonOnayla and komisyonReddet check the status on a row read earlier and then
\* write by id.
OdemeKararOku(r, op, o, u) ==
  /\ u \in Adminler
  /\ odeme[o].durum = "BEKLIYOR"
  /\ Oku(r, [Bos EXCEPT !.op = op, !.hedef = o])

OdemeKararYaz(r, durum) ==
  /\ odeme' = [odeme EXCEPT ![req[r].hedef].durum = durum]
  /\ Bitir(r)
  /\ UNCHANGED <<ilan, teklif, belge, onay, degerler, puan, isler>>

KomisyonOnayla(r) == req[r].op = "komisyonOnayla" /\ OdemeKararYaz(r, "ONAYLANDI")

KomisyonReddet(r) == req[r].op = "komisyonReddet" /\ OdemeKararYaz(r, "RED")

-----------------------------------------------------------------------------
(* Contracts and documents *)

SozlesmeKontrolu(u, tip) == <<u, tip>> \in onay

\* sozlesme.service onayla: accepting twice is accepting once.
SozlesmeOnayla(u, tip) ==
  /\ onay' = onay \cup {<<u, tip>>}
  /\ UNCHANGED <<ilan, teklif, odeme, belge, degerler, puan, isler, req>>

YokBelge == [durum |-> "YOK", kim |-> NoUser, tip |-> "YOK"]

ZorunluBelge(u, islemRol) ==
  IF islemRol = "FIRMA" \/ (u \in Firmalar /\ u \in Tasiyicilar)
    THEN {"VERGI_LEVHASI"}
    ELSE {"EHLIYET", "ARAC_RUHSAT"}

BelgeKontrolu(u, islemRol) ==
  KYC_KILIT_AKTIF =>
    \A tip \in ZorunluBelge(u, islemRol) :
      \E b \in DOMAIN belge : belge[b] = [durum |-> "ONAYLANDI", kim |-> u, tip |-> tip]

BelgeKaydet(b, u, tip) ==
  /\ belge[b] = YokBelge
  /\ belge' = [belge EXCEPT ![b] = [durum |-> "BEKLIYOR", kim |-> u, tip |-> tip]]
  /\ UNCHANGED <<ilan, teklif, odeme, onay, degerler, puan, isler, req>>

\* A document may be decided again and again: nothing asks for its status.
BelgeKarar(b, durum) ==
  /\ belge[b] # YokBelge
  /\ belge' = [belge EXCEPT ![b].durum = durum]
  /\ UNCHANGED <<ilan, teklif, odeme, onay, degerler, puan, isler, req>>

BelgeOnayla(b) == BelgeKarar(b, "ONAYLANDI")
BelgeReddet(b) == BelgeKarar(b, "REDDEDILDI")
=============================================================================
