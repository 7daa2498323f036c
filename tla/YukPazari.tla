------------------------------ MODULE YukPazari ------------------------------
(***************************************************************************)
(* The board of loads (load.service, sections 1, 5 and 6): a company lists *)
(* a load, carriers bid, the two bargain, the company accepts one offer,   *)
(* the carrier declares and the company confirms the delivery.             *)
(*                                                                         *)
(* Only the acceptance writes conditionally; every other write goes by id  *)
(* alone after a check on a row read earlier.                              *)
(***************************************************************************)
EXTENDS LoadHesap

YukMu(t) == teklif[t].ilan # NoIlan /\ ilan[teklif[t].ilan].tur = "yuk"

IlanOlustur(i, u) ==
  /\ SozlesmeKontrolu(u, "YUK_VEREN")
  /\ BelgeKontrolu(u, "FIRMA")
  /\ YeniIlan(i, "yuk", u, "ACIK")

IlanIptalOku(r, i, u) ==
  /\ ilan[i].tur = "yuk"
  /\ ilan[i].sahip = u
  /\ ilan[i].durum \notin {"TASINIYOR", "TAMAMLANDI"}
  /\ IlanOku(r, "ilanIptal", i)

IlanIptalYaz(r) == req[r].op = "ilanIptal" /\ IlanDurumYaz(r, "IPTAL")

TeklifVerOku(r, i, u) ==
  /\ ErisimKontrolu(u)
  /\ SozlesmeKontrolu(u, "TASIYICI")
  /\ BelgeKontrolu(u, "TASIYICI")
  /\ ilan[i].tur = "yuk"
  /\ ilan[i].sahip # u
  /\ EslesmeyeAcik(i)
  /\ ~BekleyeniVar(i, u, {"BEKLIYOR"})
  /\ BidOku(r, "teklifVer", i, u)

\* The listing's status is written if it was ACIK when it was read, whatever it is now.
TeklifVerYaz(r) ==
  LET i == req[r].ilan
  IN /\ req[r].op = "teklifVer"
     /\ \E fiyat \in Fiyatlar : YeniTeklif(i, req[r].by, "BEKLIYOR", "FIRMA", fiyat)
     /\ ilan' = IF req[r].durum = "ACIK" THEN [ilan EXCEPT ![i].durum = "TEKLIF_ALINDI"]
                                         ELSE ilan
     /\ Bitir(r)
     /\ UNCHANGED hesapVars

TeklifGeriCekOku(r, t, u) ==
  /\ YukMu(t)
  /\ teklif[t].veren = u
  /\ teklif[t].durum = "BEKLIYOR"
  /\ TeklifOku(r, "geriCek", t)

TeklifGeriCekYaz(r) == req[r].op = "geriCek" /\ DurumYaz(r, "GERI_CEKILDI")

\* An acceptance remembers the price it read.
KabulOku(r, t) ==
  Oku(r, [Bos EXCEPT !.op = "kabul", !.ilan = teklif[t].ilan, !.hedef = t,
                     !.sayi = teklif[t].fiyat])

TeklifKabulOku(r, t, u) ==
  /\ YukMu(t)
  /\ ilan[teklif[t].ilan].sahip = u
  /\ teklif[t].durum = "BEKLIYOR"
  /\ EslesmeyeAcik(teklif[t].ilan)
  /\ KabulOku(r, t)

\* Mistake: the acceptance goes by id alone, as the other handlers do.
KabulOlur_AsRead(i, t) == TRUE

\* What the acceptance asks of the two rows when it writes them.
KabulOlur(i, t) == EslesmeyeAcik(i) /\ teklif[t].durum = "BEKLIYOR"

\* The transaction of an acceptance: the listing is matched, the offer accepted at the
\* price that was read, and the others that still wait are refused.
Eslestir(r, durum) ==
  LET i == req[r].ilan
      t == req[r].hedef
  IN /\ KabulOlur(i, t)
     /\ ilan' = [ilan EXCEPT ![i].durum = durum, ![i].secili = t]
     /\ teklif' = [x \in Teklifler |->
          IF x = t THEN [teklif[t] EXCEPT !.durum = "KABUL", !.kesin = req[r].sayi]
          ELSE IF teklif[x].ilan = i /\ teklif[x].durum = "BEKLIYOR"
            THEN [teklif[x] EXCEPT !.durum = "RED"] ELSE teklif[x]]
     /\ Bitir(r)
     /\ UNCHANGED hesapVars

TeklifKabulYaz(r) ==
  /\ req[r].op = "kabul"
  /\ ilan[req[r].ilan].tur = "yuk"
  /\ Eslestir(r, "ESLESTI")

KabulCakisma(r) ==
  /\ req[r].op = "kabul"
  /\ ~KabulOlur(req[r].ilan, req[r].hedef)
  /\ Cakisma(r)

\* The two sides of an offer on the boards of loads and of vehicles.
Taraf(t, u) ==
  IF ilan[teklif[t].ilan].tur = "yuk"
    THEN IF ilan[teklif[t].ilan].sahip = u THEN "FIRMA" ELSE "TASIYICI"
    ELSE IF ilan[teklif[t].ilan].sahip = u THEN "TASIYICI" ELSE "FIRMA"

TarafiMi(t, u) == u \in {ilan[teklif[t].ilan].sahip, teklif[t].veren}

TeklifReddetOku(r, t, u) ==
  /\ YukMu(t)
  /\ TarafiMi(t, u)
  /\ teklif[t].durum = "BEKLIYOR"
  /\ TeklifOku(r, "reddet", t)

TeklifReddetYaz(r) == req[r].op = "reddet" /\ DurumYaz(r, "RED")

\* Mistake: one counter-offer too many.
ElKaldi_OneMore(t) == teklif[t].el <= PAZARLIK_ELI

ElKaldi(t) == teklif[t].el < PAZARLIK_ELI

KarsiTeklifOlur(t, u) ==
  /\ TarafiMi(t, u)
  /\ teklif[t].taraf = Taraf(t, u)
  /\ teklif[t].durum = "BEKLIYOR"
  /\ ElKaldi(t)

KarsiOku(r, t, u) ==
  Oku(r, [Bos EXCEPT !.op = "karsi", !.ilan = teklif[t].ilan, !.hedef = t, !.by = u])

YukKarsiTeklifOku(r, t, u) == YukMu(t) /\ KarsiTeklifOlur(t, u) /\ KarsiOku(r, t, u)

\* The price of an offer is written by id: the offer may be decided by now.
KarsiTeklifYaz(r) ==
  LET t == req[r].hedef
      karsi == IF Taraf(t, req[r].by) = "FIRMA" THEN "TASIYICI" ELSE "FIRMA"
  IN /\ req[r].op = "karsi"
     /\ \E fiyat \in Fiyatlar :
          teklif' = [teklif EXCEPT ![t].fiyat = fiyat, ![t].taraf = karsi, ![t].el = @ + 1]
     /\ Bitir(r)
     /\ UNCHANGED <<ilan, hesapVars>>

TasimaBaslaOku(r, i, u) ==
  /\ ilan[i].tur = "yuk"
  /\ ilan[i].secili # NoTeklif
  /\ teklif[ilan[i].secili].veren = u
  /\ ilan[i].durum = "ESLESTI"
  /\ IlanOku(r, "basla", i)

TasimaBaslaYaz(r) == req[r].op = "basla" /\ IlanDurumYaz(r, "TASINIYOR")

TasimaTamamlaOku(r, i, u) ==
  /\ ilan[i].tur = "yuk"
  /\ ilan[i].secili # NoTeklif
  /\ ilan[i].sahip = u
  /\ ilan[i].durum = "TASINIYOR"
  /\ IlanOku(r, "tamamla", i)

TasimaTamamlaYaz(r) == req[r].op = "tamamla" /\ IlanDurumYaz(r, "TAMAMLANDI")

YukNext ==
  \/ \E i \in Ilanlar, u \in Users : IlanOlustur(i, u)
  \/ \E r \in Requests, i \in Ilanlar, u \in Users :
       \/ IlanIptalOku(r, i, u)
       \/ TeklifVerOku(r, i, u)
       \/ TasimaBaslaOku(r, i, u)
       \/ TasimaTamamlaOku(r, i, u)
  \/ \E r \in Requests, t \in Teklifler, u \in Users :
       \/ TeklifGeriCekOku(r, t, u)
       \/ TeklifKabulOku(r, t, u)
       \/ TeklifReddetOku(r, t, u)
       \/ YukKarsiTeklifOku(r, t, u)

YukYaz(r) ==
  \/ IlanIptalYaz(r)
  \/ TeklifVerYaz(r)
  \/ TeklifGeriCekYaz(r)
  \/ TeklifKabulYaz(r)
  \/ KabulCakisma(r)
  \/ TeklifReddetYaz(r)
  \/ KarsiTeklifYaz(r)
  \/ TasimaBaslaYaz(r)
  \/ TasimaTamamlaYaz(r)
=============================================================================
