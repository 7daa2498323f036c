------------------------------- MODULE EvdenEve -------------------------------
(***************************************************************************)
(* The board of house moves (evdeneve.service): the customer pays to list, *)
(* a manager opens the listing, carriers make offers that do not bind, the *)
(* customer invites one of them to a survey, and accepting the price found *)
(* there locks the job and leaves two contracts behind.                    *)
(*                                                                         *)
(* Here every change of status is a conditional write, so a handler's      *)
(* check and its write are one step; onTeklifVer alone inserts after a     *)
(* check that may be stale.  What a handler still does after its           *)
(* transaction is committed is a step of its own, for a stop of the        *)
(* process in between loses it.                                            *)
(***************************************************************************)
EXTENDS AracPazari

EvMi(t) == teklif[t].ilan # NoIlan /\ ilan[teklif[t].ilan].tur = "ev"

Kesifli == {"KESIF_UYGUN", "KESIF_REVIZE"}
AktifOnTeklif == {"ON_TEKLIF", "KESFE_DAVET"} \cup Kesifli

EvIlanOlustur(i, u) == YeniIlan(i, "ev", u, "ODEME_BEKLIYOR")

\* Telling of the payment writes only what the manager looks at (beyan here); opening
\* the listing asks for the status alone.
UcretBildir(i, u) ==
  /\ ilan[i].tur = "ev"
  /\ ilan[i].sahip = u
  /\ ilan[i].durum = "ODEME_BEKLIYOR"
  /\ ilan' = [ilan EXCEPT ![i].beyan = TRUE]
  /\ UNCHANGED <<teklif, hesapVars, req>>

\* What r still has to do after its commit: the queue, the contracts.
Sonra(r, op, i) ==
  /\ req[r] = Bos
  /\ req' = [req EXCEPT ![r] = [Bos EXCEPT !.op = op, !.ilan = i, !.hedef = ilan[i].secili]]

UcretOnayla(r, i) ==
  /\ ilan[i].tur = "ev"
  /\ ilan[i].durum = "ODEME_BEKLIYOR"
  /\ ilan' = [ilan EXCEPT ![i].durum = "ACIK"]
  /\ Sonra(r, "lead", i)
  /\ UNCHANGED <<teklif, hesapVars>>

KuyrugaEkle(r, is) ==
  /\ isler' = isler \cup {is}
  /\ Bitir(r)
  /\ UNCHANGED <<ilan, teklif, odeme, belge, onay, degerler, puan>>

LeadEkle(r) ==
  /\ req[r].op = "lead"
  /\ KuyrugaEkle(r, <<"SIGORTA_LEAD_OLUSTUR", req[r].ilan>>)

OnTeklifVerOku(r, i, u) ==
  /\ ilan[i].tur = "ev"
  /\ ilan[i].sahip # u
  /\ ilan[i].durum = "ACIK"
  /\ ~BekleyeniVar(i, u, AktifOnTeklif)
  /\ BidOku(r, "onTeklif", i, u)

OnTeklifVerYaz(r) ==
  /\ req[r].op = "onTeklif"
  /\ \E fiyat \in Fiyatlar : YeniTeklif(req[r].ilan, req[r].by, "ON_TEKLIF", "YOK", fiyat)
  /\ Bitir(r)
  /\ UNCHANGED <<ilan, hesapVars>>

\* The invitation locks the listing to one offer: only from ACIK.
KesfeDavet(t, u) ==
  LET i == teklif[t].ilan
  IN /\ EvMi(t)
     /\ ilan[i].sahip = u
     /\ ilan[i].durum = "ACIK"
     /\ teklif[t].durum = "ON_TEKLIF"
     /\ ilan' = [ilan EXCEPT ![i].durum = "KESIF_SURECINDE", ![i].secili = t]
     /\ teklif' = [teklif EXCEPT ![t].durum = "KESFE_DAVET"]
     /\ UNCHANGED <<hesapVars, req>>

\* Mistake: a survey may be entered again, whatever became of the offer.
KesifBekler_Again(t) == teklif[t].durum \notin {"ON_TEKLIF", "RED"}

KesifBekler(t) == teklif[t].durum = "KESFE_DAVET"

KesifSonuc(t, u) ==
  /\ EvMi(t)
  /\ teklif[t].veren = u
  /\ KesifBekler(t)
  /\ \/ teklif' = [teklif EXCEPT ![t].durum = "KESIF_UYGUN", ![t].kesin = teklif[t].fiyat]
     \/ \E fiyat \in Fiyatlar :
          teklif' = [teklif EXCEPT ![t].durum = "KESIF_REVIZE", ![t].kesin = fiyat]
  /\ UNCHANGED <<ilan, hesapVars, req>>

\* What the locking transaction asks of the listing.
KilitOlur(i, t) == ilan[i].durum = "KESIF_SURECINDE" /\ ilan[i].secili = t

KesinFiyatKabul(r, t, u) ==
  LET i == teklif[t].ilan
  IN /\ EvMi(t)
     /\ ilan[i].sahip = u
     /\ teklif[t].durum \in Kesifli
     /\ teklif[t].kesin # 0
     /\ KilitOlur(i, t)
     /\ ilan' = [ilan EXCEPT ![i].durum = "KILITLENDI"]
     /\ teklif' = [x \in Teklifler |->
          IF x = t THEN [teklif[t] EXCEPT !.durum = "KABUL"]
          ELSE IF teklif[x].ilan = i /\ teklif[x].durum \in {"ON_TEKLIF", "KESFE_DAVET"}
            THEN [teklif[x] EXCEPT !.durum = "RED"] ELSE teklif[x]]
     /\ Sonra(r, "sozlesmeTasitan", i)
     /\ UNCHANGED hesapVars

\* Two contracts, one after the other, then the carrier's SMS job.
EvSozlesmeTasitan(r) ==
  LET i == req[r].ilan
  IN /\ req[r].op = "sozlesmeTasitan"
     /\ onay' = onay \cup {<<ilan[i].sahip, "EVDEN_EVE_TASITAN">>}
     /\ req' = [req EXCEPT ![r].op = "sozlesmeTasiyan"]
     /\ UNCHANGED <<ilan, teklif, odeme, belge, degerler, puan, isler>>

EvSozlesmeTasiyan(r) ==
  /\ req[r].op = "sozlesmeTasiyan"
  /\ onay' = onay \cup {<<teklif[ilan[req[r].ilan].secili].veren, "EVDEN_EVE_TASIYAN">>}
  /\ req' = [req EXCEPT ![r].op = "sms"]
  /\ UNCHANGED <<ilan, teklif, odeme, belge, degerler, puan, isler>>

\* teslimBeyan checks its caller and writes nothing, so the confirmation does not
\* ask for it.
EvTeslimOnay(r, i, u) ==
  /\ ilan[i].tur = "ev"
  /\ ilan[i].sahip = u
  /\ ilan[i].secili # NoTeklif
  /\ teklif[ilan[i].secili].durum = "KABUL"
  /\ ilan[i].durum = "KILITLENDI"
  /\ ilan' = [ilan EXCEPT ![i].durum = "TAMAMLANDI"]
  /\ Sonra(r, "sms", i)
  /\ UNCHANGED <<teklif, hesapVars>>

SmsEkle(r) == req[r].op = "sms" /\ KuyrugaEkle(r, <<"BILDIRIM_SMS", req[r].ilan>>)

\* The process stops: whatever r had still to do is lost.
Durur(r) == req[r] # Bos /\ Cakisma(r)

\* Customers list, carriers bid.
EvNext ==
  \/ \E i \in Ilanlar, u \in Firmalar :
       \/ EvIlanOlustur(i, u)
       \/ UcretBildir(i, u)
  \/ \E t \in Teklifler, u \in Firmalar : KesfeDavet(t, u)
  \/ \E t \in Teklifler, u \in Tasiyicilar : KesifSonuc(t, u)
  \/ \E r \in Requests, i \in Ilanlar :
       \/ UcretOnayla(r, i)
       \/ \E u \in Tasiyicilar : OnTeklifVerOku(r, i, u)
       \/ \E u \in Firmalar : EvTeslimOnay(r, i, u)
  \/ \E r \in Requests, t \in Teklifler, u \in Firmalar : KesinFiyatKabul(r, t, u)

EvYaz(r) ==
  \/ LeadEkle(r)
  \/ OnTeklifVerYaz(r)
  \/ EvSozlesmeTasitan(r)
  \/ EvSozlesmeTasiyan(r)
  \/ SmsEkle(r)
=============================================================================
