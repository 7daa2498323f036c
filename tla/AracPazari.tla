------------------------------ MODULE AracPazari ------------------------------
(***************************************************************************)
(* The board of vehicles (load.service, sections 3 and 4): a carrier lists *)
(* his vehicle and companies bid.  Withdrawing, refusing and bargaining    *)
(* over an offer write the same way as on the board of loads and share its *)
(* write steps.                                                            *)
(***************************************************************************)
EXTENDS YukPazari

AracMi(t) == teklif[t].ilan # NoIlan /\ ilan[teklif[t].ilan].tur = "arac"

AracIlaniOlustur(i, u) ==
  /\ ErisimKontrolu(u)
  /\ SozlesmeKontrolu(u, "TASIYICI")
  /\ BelgeKontrolu(u, "TASIYICI")
  /\ YeniIlan(i, "arac", u, "MUSAIT")

\* The owner may close his listing in any status.
AracIlaniKapat(i, u) ==
  /\ ilan[i].tur = "arac"
  /\ ilan[i].sahip = u
  /\ ilan' = [ilan EXCEPT ![i].durum = "PASIF"]
  /\ UNCHANGED <<teklif, hesapVars, req>>

AracTeklifVerOku(r, i, u) ==
  /\ SozlesmeKontrolu(u, "YUK_VEREN")
  /\ BelgeKontrolu(u, "FIRMA")
  /\ ilan[i].tur = "arac"
  /\ ilan[i].sahip # u
  /\ ilan[i].durum = "MUSAIT"
  /\ ~BekleyeniVar(i, u, {"BEKLIYOR"})
  /\ BidOku(r, "aracTeklifVer", i, u)

AracTeklifVerYaz(r) ==
  /\ req[r].op = "aracTeklifVer"
  /\ \E fiyat \in Fiyatlar : YeniTeklif(req[r].ilan, req[r].by, "BEKLIYOR", "TASIYICI", fiyat)
  /\ Bitir(r)
  /\ UNCHANGED <<ilan, hesapVars>>

AracTeklifGeriCekOku(r, t, u) ==
  /\ AracMi(t)
  /\ teklif[t].veren = u
  /\ teklif[t].durum = "BEKLIYOR"
  /\ TeklifOku(r, "geriCek", t)

\* Unlike on the board of loads, only the side whose answer is awaited may accept.
AracTeklifKabulOku(r, t, u) ==
  /\ AracMi(t)
  /\ TarafiMi(t, u)
  /\ teklif[t].taraf = Taraf(t, u)
  /\ teklif[t].durum = "BEKLIYOR"
  /\ ilan[teklif[t].ilan].durum = "MUSAIT"
  /\ KabulOku(r, t)

AracTeklifKabulYaz(r) ==
  /\ req[r].op = "kabul"
  /\ ilan[req[r].ilan].tur = "arac"
  /\ Eslestir(r, "DOLU")

AracTeklifReddetOku(r, t, u) ==
  /\ AracMi(t)
  /\ TarafiMi(t, u)
  /\ teklif[t].durum = "BEKLIYOR"
  /\ TeklifOku(r, "reddet", t)

AracKarsiTeklifOku(r, t, u) == AracMi(t) /\ KarsiTeklifOlur(t, u) /\ KarsiOku(r, t, u)

AracTeslimBeyanOku(r, i, u) ==
  /\ ilan[i].tur = "arac"
  /\ ilan[i].secili # NoTeklif
  /\ ilan[i].sahip = u
  /\ ilan[i].durum = "DOLU"
  /\ ~ilan[i].onay
  /\ IlanOku(r, "beyan", i)

AracTeslimBeyanYaz(r) ==
  /\ req[r].op = "beyan"
  /\ ilan' = [ilan EXCEPT ![req[r].ilan].beyan = TRUE]
  /\ Bitir(r)
  /\ UNCHANGED <<teklif, hesapVars>>

\* What the confirmation's conditional write asks of the vehicle.
TeslimOnayOlur(i) == ilan[i].durum = "DOLU" /\ ~ilan[i].onay

\* One step: a declaration is never taken back, the rest is in the write's condition.
AracTeslimOnay(i, u) ==
  /\ ilan[i].tur = "arac"
  /\ ilan[i].secili # NoTeklif
  /\ teklif[ilan[i].secili].veren = u
  /\ ilan[i].beyan
  /\ TeslimOnayOlur(i)
  /\ ilan' = [ilan EXCEPT ![i].durum = "TAMAMLANDI", ![i].onay = TRUE]
  /\ UNCHANGED <<teklif, hesapVars, req>>

AracNext ==
  \/ \E i \in Ilanlar, u \in Users :
       \/ AracIlaniOlustur(i, u)
       \/ AracIlaniKapat(i, u)
       \/ AracTeslimOnay(i, u)
  \/ \E r \in Requests, i \in Ilanlar, u \in Users :
       \/ AracTeklifVerOku(r, i, u)
       \/ AracTeslimBeyanOku(r, i, u)
  \/ \E r \in Requests, t \in Teklifler, u \in Users :
       \/ AracTeklifGeriCekOku(r, t, u)
       \/ AracTeklifKabulOku(r, t, u)
       \/ AracTeklifReddetOku(r, t, u)
       \/ AracKarsiTeklifOku(r, t, u)

AracYaz(r) ==
  \/ AracTeklifVerYaz(r)
  \/ AracTeklifKabulYaz(r)
  \/ AracTeslimBeyanYaz(r)
=============================================================================
