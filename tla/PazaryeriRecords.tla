--------------------------- MODULE PazaryeriRecords ---------------------------
(***************************************************************************)
(* Proofs about the records of the market place that handlers read in one  *)
(* statement and write in another: change requests over the delivery       *)
(* zones, transfer codes over the sessions, and the stock of products.     *)
(*                                                                         *)
(* Each part has an invariant of its own: what its rows are, and what a    *)
(* request between two of its statements knows.                            *)
(***************************************************************************)
EXTENDS PazaryeriProofs

LEMMA AyniIstekler ==
  ASSUME DOMAIN req = Requests, [Next]_vars
  PROVE  \/ KullaniciNext /\ UNCHANGED <<saticilik, onayVars, katalogVars>>
         \/ OnayNext /\ UNCHANGED <<girisVars, katalogVars>>
         \/ KatalogNext /\ UNCHANGED <<girisVars, onayVars>>
         \/ /\ UNCHANGED <<girisVars, onayVars, katalogVars>>
            /\ \E ops \in {SaticiOps, KadroOps, SepetOps} : Surer(ops)
<1>1. CASE SaticiNext /\ UNCHANGED <<onayVars, katalogVars>>
  BY <1>1, SaticiSurer, SaticiKorur
<1>2. CASE KadroNext /\ UNCHANGED <<onayVars, katalogVars>>
  BY <1>2, KadroSurer, KadroKorur
<1>3. CASE OnayNext /\ UNCHANGED katalogVars
  BY <1>3, OnayKorur DEF kadroVars, kullaniciVars
<1>4. CASE KatalogNext /\ UNCHANGED onayVars
  BY <1>4, KatalogKorur DEF kadroVars, kullaniciVars
<1>5. CASE SepetNext /\ UNCHANGED onayVars
  BY <1>5, SepetSurer, SepetKorur DEF kadroVars, kullaniciVars
<1>6. ASSUME NEW r \in Requests, Durur(r)
      PROVE  UNCHANGED <<girisVars, onayVars, katalogVars>> /\ Surer(KadroOps)
  BY <1>6, BitirSurer DEF Durur, KadroOps, kadroVars, kullaniciVars
<1>7. CASE UNCHANGED vars
  BY <1>7, DurursaSurer DEF vars, kadroVars, kullaniciVars
<1> QED BY <1>1, <1>2, <1>3, <1>4, <1>5, <1>6, <1>7 DEF Next

-----------------------------------------------------------------------------
(* Change requests *)

Listesi == SUBSET UNION Listeler

\* A request's base b0 is a state the zones b of the store have been in, not before the
\* revision the submitter expected; and no two states have the same revision.
TabanDogru(t, b) ==
  /\ t.beklenen <= t.taban.rev /\ t.taban.rev <= b.rev
  /\ t.taban.rev = b.rev => t.taban = b

OnayBilir(q) ==
  /\ q.op \in {"submitBul", "submitYaz", "bolgeGuncelle"} =>
       q.s \in DOMAIN bolge /\ q.liste \in Listesi
  /\ q.op \in {"submitBul", "submitYaz"} =>
       q.by \in Users /\ q.beklenen \in Nat /\ q.beklenen <= bolge[q.s].rev
  /\ q.op \in {"approve", "reject"} => q.k \in DOMAIN talep

Talepler ==
  /\ bolge \in [DOMAIN bolge -> BolgeRow]
  /\ talep \in Seq(TalepRow(DOMAIN bolge))
  /\ \A k \in DOMAIN talep : TabanDogru(talep[k], bolge[talep[k].s])

TalepInv ==
  /\ Talepler
  /\ DOMAIN req = Requests
  /\ \A r \in Requests : OnayBilir(req[r])

LEMMA TalepSatiri ==
  ASSUME Talepler, NEW k \in DOMAIN talep
  PROVE  /\ talep[k] \in TalepRow(DOMAIN bolge)
         /\ talep[k].s \in DOMAIN bolge /\ talep[k].liste \in Listesi
         /\ talep[k].beklenen \in Nat /\ talep[k].taban \in BolgeRow /\ talep[k].taban.rev \in Nat
         /\ bolge[talep[k].s] \in BolgeRow /\ bolge[talep[k].s].rev \in Nat
<1>1. talep[k] \in TalepRow(DOMAIN bolge)
  BY DEF Talepler
<1>2. /\ talep[k].s \in DOMAIN bolge /\ talep[k].liste \in Listesi
      /\ talep[k].beklenen \in Nat /\ talep[k].taban \in BolgeRow
  BY <1>1 DEF TalepRow, Listesi
<1>3. bolge[talep[k].s] \in BolgeRow
  BY <1>2 DEF Talepler
<1> QED BY <1>1, <1>2, <1>3 DEF BolgeRow

\* Revisions only grow, and no request goes away.
Buyur ==
  /\ DOMAIN bolge' = DOMAIN bolge
  /\ \A s \in DOMAIN bolge : bolge'[s].rev \in Nat /\ bolge[s].rev <= bolge'[s].rev
  /\ DOMAIN talep \subseteq DOMAIN talep'

LEMMA BilirKalir ==
  ASSUME TalepInv, Buyur, NEW q, OnayBilir(q)
  PROVE  /\ q.op \in {"submitBul", "submitYaz", "bolgeGuncelle"} =>
              q.s \in DOMAIN bolge' /\ q.liste \in Listesi
         /\ q.op \in {"submitBul", "submitYaz"} =>
              q.by \in Users /\ q.beklenen \in Nat /\ q.beklenen <= bolge'[q.s].rev
         /\ q.op \in {"approve", "reject"} => q.k \in DOMAIN talep'
<1>1. \A s \in DOMAIN bolge : bolge[s].rev \in Nat
  <2>1. \A s \in DOMAIN bolge : bolge[s] \in BolgeRow
    BY DEF TalepInv, Talepler
  <2> QED BY <2>1 DEF BolgeRow
<1>2. ASSUME q.op \in {"submitBul", "submitYaz"}
      PROVE  q.by \in Users /\ q.beklenen \in Nat /\ q.beklenen <= bolge'[q.s].rev
  <2>1. q.s \in DOMAIN bolge /\ q.by \in Users /\ q.beklenen \in Nat /\ q.beklenen <= bolge[q.s].rev
    BY <1>2 DEF OnayBilir
  <2>2. bolge[q.s].rev \in Nat /\ bolge'[q.s].rev \in Nat /\ bolge[q.s].rev <= bolge'[q.s].rev
    BY <1>1, <2>1 DEF Buyur
  <2> QED BY <2>1, <2>2
<1> QED BY <1>2 DEF OnayBilir, Buyur

Ogrenmis == DOMAIN req' = Requests /\ \A r \in Requests : req'[r] = req[r] \/ OnayBilir(req'[r])

LEMMA OgrenmisBilir ==
  ASSUME TalepInv, Buyur, Ogrenmis
  PROVE  \A r \in Requests : OnayBilir(req[r])'
<1>1. \A r \in Requests : OnayBilir(req'[r])
  BY DEF TalepInv, Ogrenmis
<1> SUFFICES ASSUME NEW r \in Requests PROVE OnayBilir(req[r])'
  OBVIOUS
<1> DEFINE q == req'[r]
<1>2. OnayBilir(q)
  BY <1>1
<1> HIDE DEF q
<1>3. /\ q.op \in {"submitBul", "submitYaz", "bolgeGuncelle"} =>
           q.s \in DOMAIN bolge' /\ q.liste \in Listesi
      /\ q.op \in {"submitBul", "submitYaz"} =>
           q.by \in Users /\ q.beklenen \in Nat /\ q.beklenen <= bolge'[q.s].rev
      /\ q.op \in {"approve", "reject"} => q.k \in DOMAIN talep'
  BY <1>2, BilirKalir
<1> QED BY <1>3 DEF OnayBilir, q, Listesi

LEMMA GecOgrenmis ==
  ASSUME TalepInv, NEW r, NEW q, OnayBilir(q), Gec(r, q) \/ Basla(r, q)
  PROVE  Ogrenmis
BY DEF Gec, Basla, Ogrenmis, TalepInv

LEMMA BitirOgrenmis ==
  ASSUME TalepInv, NEW r, Bitir(r)
  PROVE  Ogrenmis
<1>1. OnayBilir(Bos)
  BY DEF Bos, OnayBilir
<1> QED BY <1>1, GecOgrenmis DEF Bitir

LEMMA OnayOgrenir ==
  ASSUME TalepInv, OnayNext
  PROVE  Ogrenmis
<1>1. \A s \in DOMAIN bolge : bolge[s] \in BolgeRow /\ bolge[s].rev \in Nat
  <2>1. \A s \in DOMAIN bolge : bolge[s] \in BolgeRow
    BY DEF TalepInv, Talepler
  <2> QED BY <2>1 DEF BolgeRow
<1>2. \A liste \in Listeler : liste \in Listesi
  BY DEF Listesi
<1>3. ASSUME NEW r, NEW u \in Users, NEW s \in DOMAIN bolge, NEW liste \in Listeler,
             BolgeGuncelleOku(r, u, s, liste)
      PROVE  Ogrenmis
  <2> DEFINE q == [op |-> "bolgeGuncelle", s |-> s, liste |-> liste, rev |-> bolge[s].rev]
  <2>1. OnayBilir(q)
    BY <1>2 DEF OnayBilir
  <2>2. Basla(r, q)
    BY <1>3 DEF BolgeGuncelleOku
  <2> QED BY <2>1, <2>2, GecOgrenmis
<1>4. ASSUME NEW r, NEW u \in Users, NEW s \in DOMAIN bolge, NEW liste \in Listeler,
             SubmitDogrula(r, u, s, liste)
      PROVE  Ogrenmis
  <2> DEFINE q == [op |-> "submitBul", by |-> u, s |-> s, liste |-> liste, beklenen |-> bolge[s].rev]
  <2>1. OnayBilir(q)
    BY <1>1, <1>2 DEF OnayBilir
  <2>2. Basla(r, q)
    BY <1>4 DEF SubmitDogrula
  <2> QED BY <2>1, <2>2, GecOgrenmis
<1>5. ASSUME NEW r \in Requests, SubmitBul(r) PROVE Ogrenmis
  <2>1. PICK onceki :
          Gec(r, [op |-> "submitYaz", by |-> req[r].by, s |-> req[r].s, liste |-> req[r].liste,
                  beklenen |-> req[r].beklenen, onceki |-> onceki])
    BY <1>5 DEF SubmitBul
  <2> DEFINE q == [op |-> "submitYaz", by |-> req[r].by, s |-> req[r].s, liste |-> req[r].liste,
                   beklenen |-> req[r].beklenen, onceki |-> onceki]
  <2>2. OnayBilir(req[r]) /\ req[r].op = "submitBul"
    BY <1>5 DEF TalepInv, SubmitBul, Sira
  <2>3. OnayBilir(q)
    BY <2>2 DEF OnayBilir
  <2> QED BY <2>1, <2>3, GecOgrenmis
<1>6. ASSUME NEW r, NEW u, NEW k \in DOMAIN talep, ApproveOku(r, u, k) \/ RejectOku(r, u, k)
      PROVE  Ogrenmis
  <2>1. OnayBilir([op |-> "approve", k |-> k]) /\ OnayBilir([op |-> "reject", k |-> k])
    BY DEF OnayBilir
  <2> QED BY <1>6, <2>1, GecOgrenmis DEF ApproveOku, RejectOku
<1>7. ASSUME NEW r, BolgeGuncelle(r) \/ SubmitYaz(r) \/ Approve(r) \/ Reject(r) PROVE Ogrenmis
  BY <1>7, BitirOgrenmis DEF BolgeGuncelle, SubmitYaz, Approve, Reject
<1>8. ASSUME NEW b, KapsamDegisir(b) PROVE Ogrenmis
  BY <1>8 DEF KapsamDegisir, Ogrenmis, TalepInv
<1> QED BY <1>3, <1>4, <1>5, <1>6, <1>7, <1>8 DEF OnayNext

\* The zones of one store are replaced, and no request is touched.
LEMMA BolgeYazinca ==
  ASSUME Talepler, NEW s \in DOMAIN bolge, NEW liste \in Listesi, BolgeYaz(s, liste)
  PROVE  /\ bolge' \in [DOMAIN bolge -> BolgeRow] /\ DOMAIN bolge' = DOMAIN bolge
         /\ bolge'[s] = [rev |-> bolge[s].rev + 1, liste |-> liste]
         /\ \A c \in DOMAIN bolge : bolge'[c].rev \in Nat /\ bolge[c].rev <= bolge'[c].rev
         /\ \A k \in DOMAIN talep : TabanDogru(talep[k], bolge'[talep[k].s])
<1> DEFINE yeni == [rev |-> bolge[s].rev + 1, liste |-> liste]
<1>1. \A c \in DOMAIN bolge : bolge[c] \in BolgeRow /\ bolge[c].rev \in Nat
  <2>1. \A c \in DOMAIN bolge : bolge[c] \in BolgeRow
    BY DEF Talepler
  <2> QED BY <2>1 DEF BolgeRow
<1>2. yeni \in BolgeRow /\ yeni.rev = bolge[s].rev + 1
  BY <1>1 DEF BolgeRow, Listesi
<1>3. bolge' = [bolge EXCEPT ![s] = yeni]
  BY DEF BolgeYaz
<1> HIDE DEF yeni
<1>4. /\ bolge' \in [DOMAIN bolge -> BolgeRow]
      /\ \A c \in DOMAIN bolge : bolge'[c] = IF c = s THEN yeni ELSE bolge[c]
  BY <1>2, <1>3 DEF Talepler
<1>5. \A c \in DOMAIN bolge : bolge'[c].rev \in Nat /\ bolge[c].rev <= bolge'[c].rev
  <2> SUFFICES ASSUME NEW c \in DOMAIN bolge PROVE bolge'[c].rev \in Nat /\ bolge[c].rev <= bolge'[c].rev
    OBVIOUS
  <2>1. CASE c = s
    BY <1>1, <1>2, <1>4, <2>1
  <2>2. CASE c # s
    BY <1>1, <1>4, <2>2
  <2> QED BY <2>1, <2>2
<1>6. ASSUME NEW k \in DOMAIN talep PROVE TabanDogru(talep[k], bolge'[talep[k].s])
  <2>1. TabanDogru(talep[k], bolge[talep[k].s])
    BY DEF Talepler
  <2>2. CASE talep[k].s # s
    BY <1>4, <2>1, <2>2, TalepSatiri
  <2>3. CASE talep[k].s = s
    <3>1. /\ talep[k].beklenen \in Nat /\ talep[k].taban.rev \in Nat /\ bolge[s].rev \in Nat
          /\ talep[k].beklenen <= talep[k].taban.rev /\ talep[k].taban.rev <= bolge[s].rev
      BY <2>1, <2>3, TalepSatiri DEF TabanDogru
    <3>2. bolge'[talep[k].s].rev = bolge[s].rev + 1
      BY <1>2, <1>4, <2>3
    <3> QED BY <3>1, <3>2 DEF TabanDogru
  <2> QED BY <2>2, <2>3
<1> QED BY <1>3, <1>4, <1>5, <1>6 DEF Talepler, yeni

\* A request changes its status.
DurumYazildi(t, n, durum) ==
  /\ t \in Seq(TalepRow(DOMAIN bolge)) /\ DOMAIN t = DOMAIN talep /\ Len(t) = Len(talep)
  /\ \A k \in DOMAIN talep :
       /\ t[k].s = talep[k].s /\ t[k].beklenen = talep[k].beklenen /\ t[k].taban = talep[k].taban
       /\ t[k].durum = IF k = n THEN durum ELSE talep[k].durum

LEMMA DurumYazinca ==
  ASSUME Talepler, NEW n, NEW durum \in ChangeRequestStatus, NEW t, t = [talep EXCEPT ![n].durum = durum]
  PROVE  DurumYazildi(t, n, durum)
<1>1. talep \in Seq(TalepRow(DOMAIN bolge)) /\ \A k \in DOMAIN talep : talep[k] \in TalepRow(DOMAIN bolge)
  BY DEF Talepler
<1>2. CASE n \in DOMAIN talep
  <2> DEFINE yeni == [talep[n] EXCEPT !.durum = durum]
  <2>1. /\ yeni \in TalepRow(DOMAIN bolge) /\ yeni.durum = durum
        /\ yeni.s = talep[n].s /\ yeni.beklenen = talep[n].beklenen /\ yeni.taban = talep[n].taban
    BY <1>1, <1>2 DEF TalepRow
  <2>2. t = [talep EXCEPT ![n] = yeni]
    OBVIOUS
  <2> HIDE DEF yeni
  <2>3. t \in Seq(TalepRow(DOMAIN bolge)) /\ DOMAIN t = DOMAIN talep /\ Len(t) = Len(talep)
    BY <1>1, <1>2, <2>1, <2>2
  <2>4. \A k \in DOMAIN talep : t[k] = IF k = n THEN yeni ELSE talep[k]
    BY <2>2
  <2> QED BY <2>1, <2>3, <2>4 DEF DurumYazildi
<1>3. CASE n \notin DOMAIN talep
  <2>1. t = talep
    BY <1>1, <1>3
  <2> QED BY <1>1, <1>3, <2>1 DEF DurumYazildi
<1> QED BY <1>2, <1>3

\* What a reviewer approves is what the submitter saw.
Onaylanir(k) ==
  talep'[k].durum = "APPROVED" /\ talep[k].durum # "APPROVED" =>
    /\ talep[k].durum = "PENDING"
    /\ bolge[talep[k].s] = talep[k].taban
    /\ bolge'[talep[k].s] = [rev |-> bolge[talep[k].s].rev + 1, liste |-> talep[k].liste]

TalepAdimi == Talepler' /\ Buyur /\ \A k \in DOMAIN talep : Onaylanir(k)

LEMMA RevSayi ==
  ASSUME Talepler
  PROVE  \A s \in DOMAIN bolge : bolge[s] \in BolgeRow /\ bolge[s].rev \in Nat
<1>1. \A s \in DOMAIN bolge : bolge[s] \in BolgeRow
  BY DEF Talepler
<1> QED BY <1>1 DEF BolgeRow

LEMMA TaleplerKalir ==
  ASSUME Talepler, talep' = talep, bolge' = bolge
  PROVE  TalepAdimi
<1>1. \A s \in DOMAIN bolge : bolge'[s].rev \in Nat /\ bolge[s].rev <= bolge'[s].rev
  BY RevSayi
<1> QED BY <1>1 DEF Talepler, TalepAdimi, Buyur, Onaylanir

LEMMA BolgeGuncelleAdim ==
  ASSUME TalepInv, NEW r \in Requests, BolgeGuncelle(r)
  PROVE  TalepAdimi
<1> DEFINE q == req[r]
<1>1. q.s \in DOMAIN bolge /\ q.liste \in Listesi
  BY DEF TalepInv, OnayBilir, BolgeGuncelle, Sira
<1>2. talep' = talep
  BY DEF BolgeGuncelle
<1>3. CASE bolge' = bolge
  BY <1>2, <1>3, TaleplerKalir DEF TalepInv
<1>4. CASE BolgeYaz(q.s, q.liste)
  <2>1. Talepler
    BY DEF TalepInv
  <2>2. /\ bolge' \in [DOMAIN bolge -> BolgeRow] /\ DOMAIN bolge' = DOMAIN bolge
        /\ \A c \in DOMAIN bolge : bolge'[c].rev \in Nat /\ bolge[c].rev <= bolge'[c].rev
        /\ \A k \in DOMAIN talep : TabanDogru(talep[k], bolge'[talep[k].s])
    BY <1>1, <1>4, <2>1, BolgeYazinca
  <2>3. Talepler'
    BY <1>2, <2>1, <2>2 DEF Talepler
  <2> QED BY <1>2, <2>2, <2>3 DEF TalepAdimi, Buyur, Onaylanir
<1> QED BY <1>3, <1>4 DEF BolgeGuncelle

LEMMA SubmitYazAdim ==
  ASSUME TalepInv, NEW r \in Requests, SubmitYaz(r)
  PROVE  TalepAdimi
<1> DEFINE q == req[r]
           yeni == [s |-> q.s, by |-> q.by, durum |-> "PENDING", liste |-> q.liste,
                    beklenen |-> q.beklenen, taban |-> bolge[q.s]]
           eskisi == IF q.onceki = 0 THEN talep ELSE [talep EXCEPT ![q.onceki].durum = "SUPERSEDED"]
<1>1. /\ q.s \in DOMAIN bolge /\ q.liste \in Listesi /\ q.by \in Users
      /\ q.beklenen \in Nat /\ q.beklenen <= bolge[q.s].rev
  BY DEF TalepInv, OnayBilir, SubmitYaz, Sira
<1>2. bolge' = bolge /\ Talepler
  BY DEF SubmitYaz, TalepInv
<1>3. talep' = talep \/ talep' = Append(eskisi, yeni)
  BY DEF SubmitYaz
<1>4. bolge[q.s] \in BolgeRow /\ bolge[q.s].rev \in Nat
  BY <1>1, <1>2, RevSayi
<1>5. yeni \in TalepRow(DOMAIN bolge) /\ yeni.s = q.s /\ TabanDogru(yeni, bolge[q.s])
  BY <1>1, <1>4 DEF TalepRow, Listesi, ChangeRequestStatus, TabanDogru
<1>6. /\ eskisi \in Seq(TalepRow(DOMAIN bolge)) /\ DOMAIN eskisi = DOMAIN talep
      /\ \A k \in DOMAIN talep :
           /\ eskisi[k].s = talep[k].s /\ eskisi[k].beklenen = talep[k].beklenen
           /\ eskisi[k].taban = talep[k].taban
           /\ eskisi[k].durum \in {talep[k].durum, "SUPERSEDED"}
  <2>1. CASE q.onceki = 0
    BY <1>2, <2>1 DEF Talepler
  <2>2. CASE q.onceki # 0
    <3>1. eskisi = [talep EXCEPT ![q.onceki].durum = "SUPERSEDED"]
      BY <2>2
    <3>2. "SUPERSEDED" \in ChangeRequestStatus
      BY DEF ChangeRequestStatus
    <3> HIDE DEF eskisi
    <3>3. DurumYazildi(eskisi, q.onceki, "SUPERSEDED")
      BY <1>2, <3>1, <3>2, DurumYazinca
    <3> QED BY <3>3 DEF DurumYazildi
  <2> QED BY <2>1, <2>2
<1> HIDE DEF yeni, eskisi
<1>7. CASE talep' = talep
  BY <1>2, <1>7, TaleplerKalir
<1>8. CASE talep' = Append(eskisi, yeni)
  <2>1. talep' \in Seq(TalepRow(DOMAIN bolge))
    BY <1>5, <1>6, <1>8
  <2>2. /\ \A k \in DOMAIN talep : k \in DOMAIN talep' /\ talep'[k] = eskisi[k]
        /\ \A k \in DOMAIN talep' : k \in DOMAIN talep \/ talep'[k] = yeni
    <3>1. \A k \in DOMAIN eskisi : k \in DOMAIN talep' /\ talep'[k] = eskisi[k]
      BY <1>6, <1>8
    <3>2. \A k \in DOMAIN talep' : k \in DOMAIN eskisi \/ talep'[k] = yeni
      BY <1>6, <1>8
    <3> QED BY <1>6, <3>1, <3>2
  <2>3. ASSUME NEW k \in DOMAIN talep' PROVE TabanDogru(talep'[k], bolge[talep'[k].s])
    <3>1. CASE k \in DOMAIN talep
      <4>1. TabanDogru(talep[k], bolge[talep[k].s])
        BY <1>2, <3>1 DEF Talepler
      <4>2. /\ talep'[k].s = talep[k].s /\ talep'[k].beklenen = talep[k].beklenen
            /\ talep'[k].taban = talep[k].taban
        BY <1>6, <2>2, <3>1
      <4> QED BY <4>1, <4>2 DEF TabanDogru
    <3>2. CASE talep'[k] = yeni
      BY <1>5, <3>2
    <3> QED BY <2>2, <3>1, <3>2
  <2>4. Talepler'
    BY <1>2, <2>1, <2>3 DEF Talepler
  <2>5. Buyur
    BY <1>2, <2>2, RevSayi DEF Buyur
  <2>6. ASSUME NEW k \in DOMAIN talep PROVE Onaylanir(k)
    <3>1. talep'[k].durum \in {talep[k].durum, "SUPERSEDED"}
      BY <1>6, <2>2
    <3> QED BY <3>1 DEF Onaylanir
  <2> QED BY <2>4, <2>5, <2>6 DEF TalepAdimi
<1> QED BY <1>3, <1>7, <1>8

LEMMA ApproveAdim ==
  ASSUME TalepInv, NEW r \in Requests, Approve(r)
  PROVE  TalepAdimi
<1> DEFINE k == req[r].k
           s == talep[k].s
<1>1. k \in DOMAIN talep /\ Talepler
  BY DEF TalepInv, OnayBilir, Approve, Sira
<1>2. CASE talep' = talep /\ bolge' = bolge
  BY <1>1, <1>2, TaleplerKalir
<1>3. CASE /\ Sahiplenir(k) /\ YazilirMi(s, talep[k].liste, talep[k].beklenen)
           /\ talep' = [talep EXCEPT ![k].durum = "APPROVED"] /\ BolgeYaz(s, talep[k].liste)
  <2>1. /\ s \in DOMAIN bolge /\ talep[k].liste \in Listesi
        /\ talep[k].beklenen \in Nat /\ talep[k].taban.rev \in Nat /\ bolge[s].rev \in Nat
        /\ TabanDogru(talep[k], bolge[s])
    BY <1>1, TalepSatiri DEF Talepler
  <2>2. /\ bolge' \in [DOMAIN bolge -> BolgeRow] /\ DOMAIN bolge' = DOMAIN bolge
        /\ bolge'[s] = [rev |-> bolge[s].rev + 1, liste |-> talep[k].liste]
        /\ \A c \in DOMAIN bolge : bolge'[c].rev \in Nat /\ bolge[c].rev <= bolge'[c].rev
        /\ \A n \in DOMAIN talep : TabanDogru(talep[n], bolge'[talep[n].s])
    <3> HIDE DEF s
    <3> QED BY <1>1, <1>3, <2>1, BolgeYazinca
  <2>3. "APPROVED" \in ChangeRequestStatus
    BY DEF ChangeRequestStatus
  <2>4. /\ talep' \in Seq(TalepRow(DOMAIN bolge)) /\ DOMAIN talep' = DOMAIN talep
        /\ \A n \in DOMAIN talep :
             /\ talep'[n].s = talep[n].s /\ talep'[n].beklenen = talep[n].beklenen
             /\ talep'[n].taban = talep[n].taban
             /\ talep'[n].durum = IF n = k THEN "APPROVED" ELSE talep[n].durum
    <3> HIDE DEF k
    <3>1. DurumYazildi(talep', k, "APPROVED")
      BY <1>1, <1>3, <2>3, DurumYazinca
    <3> QED BY <3>1 DEF DurumYazildi
  <2>5. talep[k].durum = "PENDING" /\ bolge[s].rev = talep[k].beklenen
    BY <1>3 DEF Sahiplenir, YazilirMi, RevUygun
  <2>6. bolge[s] = talep[k].taban
    BY <2>1, <2>5 DEF TabanDogru
  <2>7. \A n \in DOMAIN talep' : TabanDogru(talep'[n], bolge'[talep'[n].s])
    BY <2>2, <2>4 DEF TabanDogru
  <2>8. Talepler'
    BY <2>2, <2>4, <2>7 DEF Talepler
  <2>9. ASSUME NEW n \in DOMAIN talep PROVE Onaylanir(n)
    <3>1. CASE n = k
      BY <2>2, <2>5, <2>6, <3>1 DEF Onaylanir
    <3>2. CASE n # k
      BY <2>4, <3>2 DEF Onaylanir
    <3> QED BY <3>1, <3>2
  <2> QED BY <2>2, <2>4, <2>8, <2>9 DEF TalepAdimi, Buyur
<1> QED BY <1>2, <1>3 DEF Approve

LEMMA RejectAdim ==
  ASSUME TalepInv, NEW r \in Requests, Reject(r)
  PROVE  TalepAdimi
<1> DEFINE k == req[r].k
<1>1. bolge' = bolge /\ Talepler
  BY DEF Reject, TalepInv
<1>2. CASE talep' = talep
  BY <1>1, <1>2, TaleplerKalir
<1>3. CASE talep' = [talep EXCEPT ![k].durum = "REJECTED"]
  <2>1. "REJECTED" \in ChangeRequestStatus
    BY DEF ChangeRequestStatus
  <2>2. /\ talep' \in Seq(TalepRow(DOMAIN bolge)) /\ DOMAIN talep' = DOMAIN talep
        /\ \A n \in DOMAIN talep :
             /\ talep'[n].s = talep[n].s /\ talep'[n].beklenen = talep[n].beklenen
             /\ talep'[n].taban = talep[n].taban
             /\ talep'[n].durum = IF n = k THEN "REJECTED" ELSE talep[n].durum
    <3> HIDE DEF k
    <3>1. DurumYazildi(talep', k, "REJECTED")
      BY <1>1, <1>3, <2>1, DurumYazinca
    <3> QED BY <3>1 DEF DurumYazildi
  <2>3. \A n \in DOMAIN talep' : TabanDogru(talep'[n], bolge'[talep'[n].s])
    BY <1>1, <2>2 DEF TabanDogru, Talepler
  <2>4. Talepler'
    BY <1>1, <2>2, <2>3 DEF Talepler
  <2>5. Buyur
    BY <1>1, <2>2, RevSayi DEF Buyur
  <2>6. \A n \in DOMAIN talep : Onaylanir(n)
    BY <2>2 DEF Onaylanir
  <2> QED BY <2>4, <2>5, <2>6 DEF TalepAdimi
<1> QED BY <1>2, <1>3 DEF Reject

LEMMA OnayAdimi ==
  ASSUME TalepInv, OnayNext
  PROVE  TalepAdimi
<1>1. \/ talep' = talep /\ bolge' = bolge
      \/ \E r \in Requests : BolgeGuncelle(r) \/ SubmitYaz(r) \/ Approve(r) \/ Reject(r)
  BY DEF OnayNext, BolgeGuncelleOku, SubmitDogrula, SubmitBul, ApproveOku, RejectOku, KapsamDegisir,
         onayVars
<1> QED
  BY <1>1, TaleplerKalir, BolgeGuncelleAdim, SubmitYazAdim, ApproveAdim, RejectAdim DEF TalepInv

LEMMA TalepAdim ==
  ASSUME TalepInv, [Next]_vars
  PROVE  TalepInv' /\ TalepAdimi
<1>1. DOMAIN req = Requests /\ Talepler
  BY DEF TalepInv
<1>2. ASSUME TalepAdimi, Ogrenmis PROVE TalepInv'
  <2>1. \A r \in Requests : OnayBilir(req[r])'
    BY <1>2, OgrenmisBilir DEF TalepAdimi
  <2> QED BY <1>2, <2>1 DEF TalepInv, TalepAdimi, Ogrenmis
<1>3. CASE OnayNext
  BY <1>2, <1>3, OnayAdimi, OnayOgrenir
<1>4. ASSUME UNCHANGED onayVars,
             NEW ops \in {KullaniciOps, SaticiOps, KadroOps, KatalogOps, SepetOps}, Surer(ops)
      PROVE  TalepInv' /\ TalepAdimi
  <2>1. TalepAdimi
    BY <1>1, <1>4, TaleplerKalir DEF onayVars
  <2>2. \A o \in ops : o \notin {"bolgeGuncelle", "submitBul", "submitYaz", "approve", "reject"}
    BY <1>4 DEF KullaniciOps, SaticiOps, KadroOps, KatalogOps, SepetOps
  <2>3. Ogrenmis
    BY <1>4, <2>2 DEF Surer, Ogrenmis, OnayBilir
  <2> QED BY <1>2, <2>1, <2>3
<1>5. CASE KullaniciNext /\ UNCHANGED onayVars
  BY <1>1, <1>4, <1>5, KullaniciSurer
<1>6. CASE KatalogNext /\ UNCHANGED onayVars
  BY <1>1, <1>4, <1>6, KatalogSurer
<1> QED BY <1>1, <1>3, <1>4, <1>5, <1>6, AyniIstekler

LEMMA TalepBaslar ==
  ASSUME Init
  PROVE  TalepInv
<1>1. PICK x \in Sahneler :
        /\ req = [r \in Requests |-> Bos] /\ talep = x.talep
        /\ bolge = [s \in DOMAIN x.magaza |-> [rev |-> 0, liste |-> {}]]
  BY DEF Init
<1>2. [rev |-> 0, liste |-> {}] \in BolgeRow
  BY DEF BolgeRow
<1>3. bolge \in [DOMAIN bolge -> BolgeRow] /\ DOMAIN bolge = DOMAIN x.magaza
  BY <1>1, <1>2
<1>4. talep \in Seq(TalepRow(DOMAIN bolge))
  BY <1>1, <1>3, TalepSahneleri
<1>5. ASSUME NEW k \in DOMAIN talep PROVE TabanDogru(talep[k], bolge[talep[k].s])
  <2>1. talep[k] \in TalepRow(DOMAIN bolge)
    BY <1>4
  <2>2. talep[k].s \in DOMAIN bolge
    BY <2>1 DEF TalepRow
  <2>3. talep[k].beklenen = 0 /\ talep[k].taban = [rev |-> 0, liste |-> {}]
    BY <1>1, TalepSahneleri
  <2>4. bolge[talep[k].s] = [rev |-> 0, liste |-> {}]
    BY <1>1, <1>3, <2>2
  <2> QED BY <2>3, <2>4 DEF TabanDogru
<1>6. \A r \in Requests : OnayBilir(req[r])
  BY <1>1 DEF Bos, OnayBilir
<1> QED BY <1>1, <1>3, <1>4, <1>5, <1>6 DEF TalepInv, Talepler

\* What a reviewer approves is what the submitter saw: a change request is approved only
\* while it waits and the zones are those it was based on, and then they become the list
\* asked for (approve, revalidate and teslimatBolgeleriYazTx, which compares revisions only).
THEOREM ApprovedAsSeen == Spec => OnayTaban
<1>1. Spec => []TalepInv
  BY TalepBaslar, TalepAdim, PTL DEF Spec
<1>2. TalepInv /\ [Next]_vars =>
        \A k \in DOMAIN talep :
          LET s == talep[k].s
          IN talep'[k].durum = "APPROVED" /\ talep[k].durum # "APPROVED" =>
               /\ talep[k].durum = "PENDING"
               /\ bolge[s] = talep[k].taban
               /\ bolge'[s] = [rev |-> bolge[s].rev + 1, liste |-> talep[k].liste]
  BY TalepAdim DEF TalepAdimi, Onaylanir
<1> QED BY <1>1, <1>2, PTL DEF Spec, OnayTaban

-----------------------------------------------------------------------------
(* Transfer codes *)

\* A request holds the used-up code k, on its way to a session.
Tasir(q, k) ==
  \/ q.op = "devirSepet" /\ q.satir = k
  \/ q.op = "girisJeton" /\ q.kod = k

DevirBilir(q) ==
  /\ q.op \in {"devirTuket", "devirSepet"} => q.satir \in DOMAIN devir
  /\ q.op \in KullaniciOps \ {"bos", "devirTuket", "devirSepet"} => q.u \in Users
  /\ q.op = "girisJeton" => q.kod \in Nat

Kullanilmis(k) == k \in DOMAIN devir /\ devir[k].tuketildi

\* A code that is not used up is held by nobody and has opened no session; a used one is
\* held by one request, or has opened one session, or neither.
TekTasiyan(k) ==
  /\ \A r \in Requests : Tasir(req[r], k) =>
       /\ Kullanilmis(k)
       /\ \A p \in Requests : Tasir(req[p], k) => p = r
       /\ \A j \in DOMAIN jeton : jeton[j].kod # k
  /\ \A j \in DOMAIN jeton : jeton[j].kod = k =>
       /\ Kullanilmis(k)
       /\ \A i \in DOMAIN jeton : jeton[i].kod = k => i = j

DevirInv ==
  /\ jeton \in Seq(JetonRow)
  /\ devir \in Seq(DevirRow)
  /\ DOMAIN req = Requests
  /\ \A r \in Requests : DevirBilir(req[r])
  /\ \A k \in Nat \ {0} : TekTasiyan(k)

\* Rows of devir stay, used-up ones as such.
Devirler ==
  /\ devir' \in Seq(DevirRow)
  /\ \A k \in DOMAIN devir : k \in DOMAIN devir' /\ (devir[k].tuketildi => devir'[k].tuketildi)

\* A statement that gives no code to its request.
Bosta(q) == DevirBilir(q) /\ \A k \in Nat \ {0} : ~ Tasir(q, k)

DevirOgrenmis == DOMAIN req' = Requests /\ \A r \in Requests : req'[r] = req[r] \/ Bosta(req'[r])

LEMMA DevirBilirKalir ==
  ASSUME Devirler, DOMAIN req' = Requests, \A r \in Requests : DevirBilir(req'[r])
  PROVE  \A r \in Requests : DevirBilir(req[r])'
<1> SUFFICES ASSUME NEW r \in Requests PROVE DevirBilir(req[r])'
  OBVIOUS
<1> QED BY DEF DevirBilir, Devirler, KullaniciOps

\* A step after which nobody new holds the code k or has a session from it.
LEMMA TekKalir ==
  ASSUME NEW k, TekTasiyan(k), Kullanilmis(k) => Kullanilmis(k)',
         \A r \in Requests : Tasir(req'[r], k) => Tasir(req[r], k),
         \A j \in DOMAIN jeton' : jeton'[j].kod = k => j \in DOMAIN jeton /\ jeton[j].kod = k
  PROVE  TekTasiyan(k)'
<1>1. ASSUME NEW r \in Requests, Tasir(req'[r], k)
      PROVE  /\ Kullanilmis(k)'
             /\ \A p \in Requests : Tasir(req'[p], k) => p = r
             /\ \A j \in DOMAIN jeton' : jeton'[j].kod # k
  BY <1>1 DEF TekTasiyan
<1>2. ASSUME NEW j \in DOMAIN jeton', jeton'[j].kod = k
      PROVE  Kullanilmis(k)' /\ \A i \in DOMAIN jeton' : jeton'[i].kod = k => i = j
  BY <1>2 DEF TekTasiyan
<1>3. \A r \in Requests : Tasir(req[r], k)' => Tasir(req'[r], k)
  BY DEF Tasir
<1> QED BY <1>1, <1>2, <1>3 DEF TekTasiyan

\* A step that gives nobody a code and opens no session with one.
LEMMA SakinAdim ==
  ASSUME DevirInv, DevirOgrenmis, Devirler, jeton' \in Seq(JetonRow),
         \A j \in DOMAIN jeton' :
           \/ j \in DOMAIN jeton /\ jeton'[j].kod = jeton[j].kod
           \/ jeton'[j].kod = 0
  PROVE  DevirInv'
<1>1. \A r \in Requests : DevirBilir(req[r])'
  BY DevirBilirKalir DEF DevirInv, DevirOgrenmis, Bosta
<1>2. ASSUME NEW k \in Nat \ {0} PROVE TekTasiyan(k)'
  <2>1. TekTasiyan(k)
    BY DEF DevirInv
  <2>2. Kullanilmis(k) => Kullanilmis(k)'
    BY DEF Kullanilmis, Devirler
  <2>3. \A r \in Requests : Tasir(req'[r], k) => Tasir(req[r], k)
    BY DEF DevirOgrenmis, Bosta
  <2>4. \A j \in DOMAIN jeton' : jeton'[j].kod = k => j \in DOMAIN jeton /\ jeton[j].kod = k
    OBVIOUS
  <2> QED BY <2>1, <2>2, <2>3, <2>4, TekKalir
<1> QED BY <1>1, <1>2 DEF DevirInv, Devirler, DevirOgrenmis

LEMMA DevirlerKalir ==
  ASSUME DevirInv, devir' = devir
  PROVE  Devirler
BY DEF DevirInv, Devirler

LEMMA GecBosta ==
  ASSUME DevirInv, NEW r, NEW q, Bosta(q), Gec(r, q) \/ Basla(r, q)
  PROVE  DevirOgrenmis
BY DEF Gec, Basla, DevirOgrenmis, DevirInv

LEMMA BitirBosta ==
  ASSUME DevirInv, NEW r, Bitir(r)
  PROVE  DevirOgrenmis
<1>1. Bosta(Bos)
  BY DEF Bos, Bosta, DevirBilir, Tasir
<1> QED BY <1>1, GecBosta DEF Bitir

LEMMA GirisBosta ==
  ASSUME NEW op \in {"girisAktif", "girisRol", "girisYeniden", "girisRolYaz", "girisJeton", "misafirRol"},
         NEW u \in Users
  PROVE  Bosta(GirisAdimi(op, u, 0))
BY DEF Bosta, DevirBilir, Tasir, GirisAdimi

LEMMA KapiBosta ==
  ASSUME DevirInv, NEW r, NEW u \in Users, NEW sonra \in {"girisAktif", "girisRol"}, GirisKapisi(r, u, sonra)
  PROVE  DevirOgrenmis
<1>1. CASE kul'[u] \in GIRIS_KAPALI
  BY <1>1, BitirBosta DEF GirisKapisi
<1>2. CASE kul'[u] \notin GIRIS_KAPALI
  <2>1. Bosta(GirisAdimi(sonra, u, 0))
    BY GirisBosta
  <2> QED BY <1>2, <2>1, GecBosta DEF GirisKapisi
<1> QED BY <1>1, <1>2

LEMMA OtpSakin ==
  ASSUME DevirInv, OtpNext
  PROVE  DevirInv'
<1>1. jeton' = jeton /\ devir' = devir
  BY DEF OtpNext, OtpIste, GuestSession, OtpDogrula, OtpYaz, OtpYanlis, OtpTuket, OtpYaslan,
         kullaniciVars, girisVars
<1>2. ASSUME NEW r, NEW u \in Users, OtpIste(r, u) \/ GuestSession(r, u) PROVE DevirOgrenmis
  <2>1. Bosta([op |-> "otpYaz", u |-> u]) /\ Bosta(GirisAdimi("misafirRol", u, 0))
    BY GirisBosta DEF Bosta, DevirBilir, Tasir
  <2> QED BY <1>2, <2>1, GecBosta DEF OtpIste, GuestSession
<1>3. ASSUME NEW r, NEW u \in Users, NEW kod, OtpDogrula(r, u, kod) PROVE DevirOgrenmis
  <2>1. PICK op \in {"otpTuket", "otpYanlis"} : \E satir : Basla(r, [op |-> op, u |-> u, satir |-> satir])
    BY <1>3 DEF OtpDogrula
  <2>2. PICK satir : Basla(r, [op |-> op, u |-> u, satir |-> satir])
    BY <2>1
  <2>3. Bosta([op |-> op, u |-> u, satir |-> satir])
    BY DEF Bosta, DevirBilir, Tasir
  <2> QED BY <2>2, <2>3, GecBosta
<1>4. ASSUME NEW r, OtpYaz(r) \/ OtpYanlis(r) PROVE DevirOgrenmis
  BY <1>4, BitirBosta DEF OtpYaz, OtpYanlis
<1>5. ASSUME NEW r \in Requests, OtpTuket(r) PROVE DevirOgrenmis
  <2>1. req[r].u \in Users
    BY <1>5 DEF OtpTuket, Sira, DevirInv, DevirBilir, KullaniciOps
  <2>2. Bosta([op |-> "girisUpsert", u |-> req[r].u])
    BY <2>1 DEF Bosta, DevirBilir, Tasir
  <2> QED BY <1>5, <2>2, GecBosta DEF OtpTuket
<1>6. ASSUME NEW k, OtpYaslan(k) PROVE DevirOgrenmis
  BY <1>6 DEF OtpYaslan, DevirOgrenmis, DevirInv
<1>7. DevirOgrenmis
  BY <1>2, <1>3, <1>4, <1>5, <1>6 DEF OtpNext
<1>8. jeton' \in Seq(JetonRow) /\ \A j \in DOMAIN jeton' : j \in DOMAIN jeton /\ jeton'[j].kod = jeton[j].kod
  BY <1>1 DEF DevirInv
<1> QED BY <1>1, <1>7, <1>8, SakinAdim, DevirlerKalir

LEMMA GirisSakin ==
  ASSUME DevirInv, NEW r \in Requests,
         \/ GirisUpsert(r) \/ GirisAktif(r) \/ GirisYeniden(r) \/ GirisRol(r) \/ MisafirRol(r)
         \/ \E secilen \in SecilenRoller : GirisRolYaz(r, secilen)
  PROVE  DevirInv'
<1>1. jeton' = jeton /\ devir' = devir
  BY DEF GirisUpsert, GirisAktif, GirisYeniden, GirisRol, MisafirRol, GirisRolYaz, kullaniciVars, girisVars
<1>2. req[r].u \in Users
  BY DEF GirisUpsert, GirisAktif, GirisYeniden, GirisRol, MisafirRol, GirisRolYaz, Sira, DevirInv,
         DevirBilir, KullaniciOps
<1>3. ASSUME GirisUpsert(r) \/ GirisYeniden(r) PROVE DevirOgrenmis
  <2>1. \E sonra \in {"girisAktif", "girisRol"} : GirisKapisi(r, req[r].u, sonra)
    BY <1>3 DEF GirisUpsert, GirisYeniden
  <2> QED BY <1>2, <2>1, KapiBosta
<1> DEFINE Gecti ==
      \E op \in {"girisAktif", "girisRol", "girisYeniden", "girisRolYaz", "girisJeton", "misafirRol"} :
        Gec(r, GirisAdimi(op, req[r].u, 0))
<1>4. ASSUME \/ GirisAktif(r) \/ GirisRol(r) \/ MisafirRol(r)
             \/ \E secilen \in SecilenRoller : GirisRolYaz(r, secilen)
      PROVE  DevirOgrenmis
  <2>1. Gecti
    BY <1>4 DEF GirisAktif, GirisRol, MisafirRol, GirisRolYaz
  <2> QED BY <1>2, <2>1, GirisBosta, GecBosta
<1>5. DevirOgrenmis
  BY <1>3, <1>4
<1>8. jeton' \in Seq(JetonRow) /\ \A j \in DOMAIN jeton' : j \in DOMAIN jeton /\ jeton'[j].kod = jeton[j].kod
  BY <1>1 DEF DevirInv
<1> QED BY <1>1, <1>5, <1>8, SakinAdim, DevirlerKalir

LEMMA JetonIptal ==
  ASSUME jeton \in Seq(JetonRow), NEW j, jeton' = [jeton EXCEPT ![j].durum = "iptal"]
  PROVE  jeton' \in Seq(JetonRow) /\ \A i \in DOMAIN jeton' : i \in DOMAIN jeton /\ jeton'[i].kod = jeton[i].kod
<1>1. CASE j \in DOMAIN jeton
  <2> DEFINE yeni == [jeton[j] EXCEPT !.durum = "iptal"]
  <2>1. jeton[j] \in JetonRow
    BY <1>1
  <2>2. yeni \in JetonRow /\ yeni.kod = jeton[j].kod
    BY <2>1 DEF JetonRow
  <2>3. jeton' = [jeton EXCEPT ![j] = yeni]
    OBVIOUS
  <2> HIDE DEF yeni
  <2> QED BY <1>1, <2>2, <2>3
<1>2. CASE j \notin DOMAIN jeton
  <2>1. jeton' = jeton
    BY <1>2
  <2> QED BY <2>1
<1> QED BY <1>1, <1>2

\* What becomes of one row of devir.
LEMMA DevirYazinca ==
  ASSUME devir \in Seq(DevirRow), NEW k \in DOMAIN devir, NEW yeni \in DevirRow,
         devir[k].tuketildi => yeni.tuketildi, devir' = [devir EXCEPT ![k] = yeni]
  PROVE  Devirler /\ devir'[k] = yeni
BY DEF Devirler

LEMMA DevirTuketAdim ==
  ASSUME DevirInv, NEW r \in Requests, DevirTuket(r)
  PROVE  DevirInv'
<1> DEFINE n == req[r].satir
           q == [op |-> "devirSepet", satir |-> n]
           yeni == [devir[n] EXCEPT !.tuketildi = TRUE]
<1>1. n \in DOMAIN devir /\ devir[n] \in DevirRow /\ jeton' = jeton
  BY DEF DevirInv, DevirBilir, DevirTuket, Sira
<1>2. CASE Bitir(r) /\ devir' = devir
  BY <1>1, <1>2, SakinAdim, DevirlerKalir, BitirBosta DEF DevirInv
<1>3. CASE DevirKilidi(n) /\ Gec(r, q) /\ devir' = [devir EXCEPT ![n] = yeni]
  <2>1. yeni \in DevirRow /\ yeni.tuketildi
    BY <1>1 DEF DevirRow
  <2>2. q.op = "devirSepet" /\ q.satir = n
    OBVIOUS
  <2>3. ~ devir[n].tuketildi
    BY <1>3 DEF DevirKilidi
  <2> HIDE DEF n, q, yeni
  <2>4. Devirler /\ devir'[n] = yeni
    BY <1>1, <1>3, <2>1, DevirYazinca DEF DevirInv
  <2>5. DOMAIN req' = Requests /\ \A p \in Requests : req'[p] = IF p = r THEN q ELSE req[p]
    BY <1>3 DEF Gec, DevirInv
  <2>6. DevirBilir(q)
    BY <1>1, <2>2 DEF DevirBilir, KullaniciOps
  <2>7. \A p \in Requests : DevirBilir(req[p])'
    BY <2>4, <2>5, <2>6, DevirBilirKalir DEF DevirInv
  <2>8. ASSUME NEW k \in Nat \ {0} PROVE TekTasiyan(k)'
    <3>1. TekTasiyan(k)
      BY DEF DevirInv
    <3>2. CASE k # n
      <4>1. \A p \in Requests : Tasir(req'[p], k) => Tasir(req[p], k)
        BY <2>2, <2>5, <3>2 DEF Tasir
      <4>2. Kullanilmis(k) => Kullanilmis(k)'
        BY <2>4 DEF Kullanilmis, Devirler
      <4> QED BY <1>1, <3>1, <4>1, <4>2, TekKalir
    <3>3. CASE k = n
      <4>1. ~ Kullanilmis(k)
        BY <2>3, <3>3 DEF Kullanilmis
      <4>2. /\ \A p \in Requests : ~ Tasir(req[p], k)
            /\ \A j \in DOMAIN jeton : jeton[j].kod # k
        BY <3>1, <4>1 DEF TekTasiyan
      <4>3. \A p \in Requests : Tasir(req'[p], k) => p = r
        BY <2>5, <4>2
      <4>4. Kullanilmis(k)'
        BY <1>1, <2>1, <2>4, <3>3 DEF Kullanilmis, Devirler
      <4>5. \A p \in Requests : Tasir(req[p], k)' => Tasir(req'[p], k)
        BY DEF Tasir
      <4> QED BY <1>1, <4>2, <4>3, <4>4, <4>5 DEF TekTasiyan
    <3> QED BY <3>2, <3>3
  <2> QED BY <1>1, <2>4, <2>5, <2>7, <2>8 DEF DevirInv, Devirler
<1> QED BY <1>2, <1>3 DEF DevirTuket

LEMMA DevirSepetAdim ==
  ASSUME DevirInv, NEW r \in Requests, NEW cakisma, DevirSepet(r, cakisma)
  PROVE  DevirInv'
<1> DEFINE n == req[r].satir
           q == GirisAdimi("girisJeton", devir[n].u, n)
<1>1. n \in DOMAIN devir /\ devir[n] \in DevirRow /\ req[r].op = "devirSepet"
  BY DEF DevirInv, DevirBilir, DevirSepet, Sira
<1>2. jeton' = jeton /\ devir' = devir
  BY DEF DevirSepet, kullaniciVars, girisVars
<1>3. CASE Bitir(r)
  BY <1>2, <1>3, SakinAdim, DevirlerKalir, BitirBosta DEF DevirInv
<1>4. CASE Gec(r, q)
  <2>1. q.op = "girisJeton" /\ q.u \in Users /\ q.kod = n /\ n \in Nat
    BY <1>1 DEF GirisAdimi, DevirRow, DevirInv
  <2> HIDE DEF n, q
  <2>2. DOMAIN req' = Requests /\ \A p \in Requests : req'[p] = IF p = r THEN q ELSE req[p]
    BY <1>4 DEF Gec, DevirInv
  <2>3. DevirBilir(q)
    BY <2>1 DEF DevirBilir
  <2>4. \A p \in Requests : DevirBilir(req[p])'
    BY <1>2, <2>2, <2>3, DevirBilirKalir, DevirlerKalir DEF DevirInv
  <2>5. ASSUME NEW k \in Nat \ {0} PROVE TekTasiyan(k)'
    <3>1. TekTasiyan(k)
      BY DEF DevirInv
    <3>2. \A p \in Requests : Tasir(req'[p], k) => Tasir(req[p], k)
      BY <1>1, <2>1, <2>2 DEF Tasir, n
    <3>3. Kullanilmis(k) => Kullanilmis(k)'
      BY <1>2 DEF Kullanilmis
    <3> QED BY <1>2, <3>1, <3>2, <3>3, TekKalir
  <2> QED BY <1>2, <2>2, <2>4, <2>5 DEF DevirInv
<1> QED BY <1>3, <1>4 DEF DevirSepet

LEMMA GirisJetonAdim ==
  ASSUME DevirInv, NEW r \in Requests, GirisJeton(r)
  PROVE  DevirInv'
<1> DEFINE n == req[r].kod
           yeni == [u |-> req[r].u, durum |-> "gecerli", kod |-> n]
<1>1. req[r].op = "girisJeton" /\ req[r].u \in Users /\ n \in Nat
  BY DEF DevirInv, DevirBilir, GirisJeton, Sira, KullaniciOps
<1>2. jeton' = Append(jeton, yeni) /\ devir' = devir /\ Bitir(r) /\ jeton \in Seq(JetonRow)
  BY DEF GirisJeton, DevirInv
<1>3. yeni \in JetonRow /\ yeni.kod = n
  BY <1>1 DEF JetonRow
<1> HIDE DEF n, yeni
<1>4. /\ jeton' \in Seq(JetonRow) /\ Len(jeton') = Len(jeton) + 1
      /\ \A j \in DOMAIN jeton' :
           \/ j \in DOMAIN jeton /\ jeton'[j] = jeton[j]
           \/ j = Len(jeton') /\ jeton'[j] = yeni
  BY <1>2, <1>3
<1>5. DevirOgrenmis
  BY <1>2, BitirBosta
<1>6. \A p \in Requests : DevirBilir(req[p])'
  BY <1>2, <1>5, DevirBilirKalir, DevirlerKalir DEF DevirInv, DevirOgrenmis, Bosta
<1>7. ASSUME NEW k \in Nat \ {0} PROVE TekTasiyan(k)'
  <2>1. TekTasiyan(k)
    BY DEF DevirInv
  <2>2. \A p \in Requests : Tasir(req'[p], k) => Tasir(req[p], k) /\ p # r
    <3>1. \A p \in Requests : req'[p] = IF p = r THEN Bos ELSE req[p]
      BY <1>2 DEF Bitir, Gec, DevirInv
    <3> QED BY <3>1 DEF Tasir, Bos
  <2>3. Kullanilmis(k) => Kullanilmis(k)'
    BY <1>2 DEF Kullanilmis
  <2>4. CASE k # n
    BY <1>3, <1>4, <2>1, <2>2, <2>3, <2>4, TekKalir
  <2>5. CASE k = n
    <3>1. Tasir(req[r], k)
      BY <1>1, <2>5 DEF Tasir, n
    <3>2. /\ Kullanilmis(k) /\ \A p \in Requests : Tasir(req[p], k) => p = r
          /\ \A j \in DOMAIN jeton : jeton[j].kod # k
      BY <2>1, <3>1 DEF TekTasiyan
    <3>3. \A p \in Requests : ~ Tasir(req[p], k)'
      <4>1. \A p \in Requests : ~ Tasir(req'[p], k)
        BY <2>2, <3>2
      <4> QED BY <4>1 DEF Tasir
    <3>4. \A j \in DOMAIN jeton' : jeton'[j].kod = k => j = Len(jeton')
      BY <1>4, <3>2
    <3> QED BY <2>3, <3>2, <3>3, <3>4 DEF TekTasiyan
  <2> QED BY <2>4, <2>5
<1> QED BY <1>2, <1>4, <1>5, <1>6, <1>7 DEF DevirInv, DevirOgrenmis

LEMMA OturumSakin ==
  ASSUME DevirInv, OturumNext
  PROVE  DevirInv'
<1>1. ASSUME NEW r, NEW j \in DOMAIN jeton, RefreshOku(r, j) PROVE DevirInv'
  <2> DEFINE q == [op |-> "refreshIptal", u |-> jeton[j].u, satir |-> j]
  <2>1. jeton[j] \in JetonRow
    BY DEF DevirInv
  <2>2. Bosta(q)
    BY <2>1 DEF Bosta, DevirBilir, Tasir, JetonRow
  <2>3. Basla(r, q) /\ jeton' = jeton /\ devir' = devir
    BY <1>1 DEF RefreshOku, kullaniciVars, girisVars
  <2> HIDE DEF q
  <2> QED BY <2>2, <2>3, GecBosta, SakinAdim, DevirlerKalir DEF DevirInv
<1>2. ASSUME NEW r \in Requests, RefreshIptal(r) PROVE DevirInv'
  <2>1. req[r].u \in Users
    BY <1>2 DEF RefreshIptal, Sira, DevirInv, DevirBilir, KullaniciOps
  <2>2. DevirOgrenmis
    BY <1>2, <2>1, GirisBosta, GecBosta DEF RefreshIptal
  <2> DEFINE n == req[r].satir
  <2>3. jeton' = [jeton EXCEPT ![n].durum = "iptal"] /\ jeton \in Seq(JetonRow)
    BY <1>2 DEF RefreshIptal, DevirInv
  <2> HIDE DEF n
  <2>4. jeton' \in Seq(JetonRow) /\ \A i \in DOMAIN jeton' : i \in DOMAIN jeton /\ jeton'[i].kod = jeton[i].kod
    BY <2>3, JetonIptal
  <2> QED BY <1>2, <2>2, <2>4, SakinAdim, DevirlerKalir DEF RefreshIptal
<1>3. ASSUME NEW j, Logout(j) PROVE DevirInv'
  <2>0. jeton' = [jeton EXCEPT ![j].durum = "iptal"] /\ jeton \in Seq(JetonRow)
    BY <1>3 DEF Logout, DevirInv
  <2>1. jeton' \in Seq(JetonRow) /\ \A i \in DOMAIN jeton' : i \in DOMAIN jeton /\ jeton'[i].kod = jeton[i].kod
    BY <2>0, JetonIptal
  <2>2. DevirOgrenmis
    BY <1>3 DEF Logout, DevirOgrenmis, DevirInv
  <2> QED BY <1>3, <2>1, <2>2, SakinAdim, DevirlerKalir DEF Logout
<1>4. ASSUME NEW r, NEW k \in DOMAIN devir, TransferKoduOku(r, k) PROVE DevirInv'
  <2>1. Bosta([op |-> "devirTuket", satir |-> k])
    BY DEF Bosta, DevirBilir, Tasir, KullaniciOps
  <2>2. DevirOgrenmis /\ jeton' = jeton /\ devir' = devir
    BY <1>4, <2>1, GecBosta DEF TransferKoduOku, kullaniciVars, girisVars
  <2> QED BY <2>2, SakinAdim, DevirlerKalir DEF DevirInv
<1>5. ASSUME NEW k \in DOMAIN devir, DevirBiter(k) PROVE DevirInv'
  <2> DEFINE yeni == [devir[k] EXCEPT !.bitti = TRUE]
  <2>1. devir[k] \in DevirRow
    BY DEF DevirInv
  <2>2. yeni \in DevirRow /\ (devir[k].tuketildi => yeni.tuketildi)
    BY <2>1 DEF DevirRow
  <2>3. devir' = [devir EXCEPT ![k] = yeni]
    BY <1>5 DEF DevirBiter
  <2> HIDE DEF yeni
  <2>4. Devirler
    BY <2>2, <2>3, DevirYazinca DEF DevirInv
  <2>5. DevirOgrenmis /\ jeton' = jeton
    BY <1>5 DEF DevirBiter, DevirOgrenmis, DevirInv
  <2> QED BY <2>4, <2>5, SakinAdim DEF DevirInv
<1>6. ASSUME NEW u \in Users, TransferKoduUret(u) PROVE DevirInv'
  <2> DEFINE yeni == [u |-> u, tuketildi |-> FALSE, bitti |-> FALSE]
  <2>1. yeni \in DevirRow
    BY DEF DevirRow
  <2>2. devir' = Append(devir, yeni) /\ devir \in Seq(DevirRow)
    BY <1>6 DEF TransferKoduUret, DevirInv
  <2> HIDE DEF yeni
  <2>3. Devirler
    BY <2>1, <2>2 DEF Devirler
  <2>4. DevirOgrenmis /\ jeton' = jeton
    BY <1>6 DEF TransferKoduUret, DevirOgrenmis, DevirInv
  <2> QED BY <2>3, <2>4, SakinAdim DEF DevirInv
<1> QED BY <1>1, <1>2, <1>3, <1>4, <1>5, <1>6, DevirTuketAdim, DevirSepetAdim DEF OturumNext

LEMMA DevirAdim ==
  ASSUME DevirInv, [Next]_vars
  PROVE  DevirInv'
<1>1. DOMAIN req = Requests
  BY DEF DevirInv
<1>2. ASSUME girisVars' = girisVars, DevirOgrenmis PROVE DevirInv'
  BY <1>2, SakinAdim, DevirlerKalir DEF DevirInv, girisVars
<1>3. ASSUME girisVars' = girisVars,
             NEW ops \in {SaticiOps, KadroOps, OnayOps, KatalogOps, SepetOps}, Surer(ops)
      PROVE  DevirInv'
  <2>1. \A o \in ops : o = "bos" \/ o \notin KullaniciOps
    BY DEF KullaniciOps, SaticiOps, KadroOps, OnayOps, KatalogOps, SepetOps
  <2>2. \A q : q.op \in ops => Bosta(q)
    BY <2>1 DEF Bosta, DevirBilir, Tasir, KullaniciOps
  <2>3. DevirOgrenmis
    BY <1>3, <2>2 DEF Surer, DevirOgrenmis
  <2> QED BY <1>2, <1>3, <2>3
<1>4. CASE KullaniciNext
  <2>1. CASE YonetimNext
    BY <1>1, <1>2, <2>1 DEF YonetimNext, SetStatus, AssignRoles, DevirOgrenmis
  <2> QED BY <1>4, <2>1, OtpSakin, GirisSakin, GirisJetonAdim, OturumSakin DEF KullaniciNext, GirisNext
<1>5. CASE girisVars' = girisVars /\ (OnayNext \/ KatalogNext)
  BY <1>1, <1>3, <1>5, OnaySurer, KatalogSurer
<1> QED BY <1>1, <1>3, <1>4, <1>5, AyniIstekler

LEMMA DevirBaslar ==
  ASSUME Init
  PROVE  DevirInv
<1>1. PICK x \in Sahneler : req = [r \in Requests |-> Bos] /\ jeton = x.jeton /\ devir = x.devir
  BY DEF Init
<1>2. jeton \in Seq(JetonRow) /\ devir \in Seq(DevirRow) /\ \A j \in DOMAIN jeton : jeton[j].kod = 0
  BY <1>1, OturumSahneleri
<1>3. \A r \in Requests : DevirBilir(req[r])
  BY <1>1 DEF Bos, DevirBilir
<1>4. \A k \in Nat \ {0} : TekTasiyan(k)
  BY <1>1, <1>2 DEF Bos, Tasir, TekTasiyan
<1> QED BY <1>1, <1>2, <1>3, <1>4 DEF DevirInv

\* A transfer code opens one session, however many requests present it at once, and wherever
\* they are stopped (consumeTransferCode's conditional update).
THEOREM OneSessionPerCode == Spec => []DevirTek
<1>1. Spec => []DevirInv
  BY DevirBaslar, DevirAdim, PTL DEF Spec
<1>2. DevirInv => DevirTek
  <2> SUFFICES ASSUME DevirInv, NEW k \in DOMAIN devir
               PROVE  Cardinality({j \in DOMAIN jeton : jeton[j].kod = k}) <= 1
    BY DEF DevirTek
  <2> DEFINE C == {j \in DOMAIN jeton : jeton[j].kod = k}
  <2>1. k \in Nat \ {0}
    BY DEF DevirInv
  <2>2. \A i, j \in C : i = j
    BY <2>1 DEF DevirInv, TekTasiyan
  <2> HIDE DEF C
  <2>3. CASE C = {}
    BY <2>3, FS_EmptySet DEF C
  <2>4. CASE C # {}
    <3>1. PICK j \in C : TRUE
      BY <2>4
    <3>2. C = {j}
      BY <2>2, <3>1
    <3>3. Cardinality({j}) = 1
      BY FS_Singleton
    <3>4. Cardinality(C) <= 1
      BY <3>2, <3>3
    <3> QED BY <3>4 DEF C
  <2> QED BY <2>3, <2>4
<1> QED BY <1>1, <1>2, PTL

-----------------------------------------------------------------------------
(* Stock *)

LEMMA StokSahneleri ==
  /\ \A x \in Sahneler : \A p \in DOMAIN x.urun : "stok" \in DOMAIN x.urun[p] /\ x.urun[p].stok \in Nat
  /\ \A dto \in YeniUrunler \cup UrunDegisiklikleri : "stok" \in DOMAIN dto => dto.stok \in Nat
BY RafSahneleri, RafGovdeleri DEF UrunSatiri, Sayilar, SayiAlanlari

\* Which writes of a product bring a stock.
StokBilir(q) ==
  /\ q.op = "urunYaz" => "stok" \notin DOMAIN q.veri
  /\ q.op = "stokYaz" => "stok" \in DOMAIN q.veri /\ q.veri.stok \in Int

\* A piece sold of one of the products M, perhaps as one of the variants V.
SatisRow(M, V) ==
  [p : M, v : {<<>>} \cup {<<v>> : v \in V}, yer : {"urun", "varyant"}, iade : {"YOK", "urun", "varyant"}]

Satislar == satis \in Seq(SatisRow(DOMAIN urun, DOMAIN varyant))

Stoklar ==
  /\ Satislar
  /\ DOMAIN defter = DOMAIN urun
  /\ \A p \in DOMAIN urun : /\ "stok" \in DOMAIN urun[p] /\ urun[p].stok \in Int
                            /\ defter[p] \in Int /\ Oynayan(p) \in Int
                            /\ urun[p].stok = defter[p] + Oynayan(p)

StokInv ==
  /\ Stoklar
  /\ DOMAIN req = Requests
  /\ \A r \in Requests : StokBilir(req[r])

StokOgrenmis == DOMAIN req' = Requests /\ \A r \in Requests : req'[r] = req[r] \/ StokBilir(req'[r])

LEMMA StokInvKurulur ==
  ASSUME StokInv, StokOgrenmis, Stoklar'
  PROVE  StokInv'
<1>1. \A r \in Requests : StokBilir(req'[r])
  BY DEF StokInv, StokOgrenmis
<1>2. \A r \in Requests : StokBilir(req[r])'
  BY <1>1 DEF StokBilir
<1> QED BY <1>2 DEF StokInv, StokOgrenmis

LEMMA StoklarKalir ==
  ASSUME StokInv, urun' = urun, defter' = defter, satis' = satis, DOMAIN varyant' = DOMAIN varyant
  PROVE  Stoklar'
<1>1. \A p : Oynayan(p)' = Oynayan(p)
  BY DEF Oynayan, Alinan, Verilen
<1>2. Satislar'
  BY DEF StokInv, Stoklar, Satislar
<1> QED BY <1>1, <1>2 DEF StokInv, Stoklar

LEMMA SurerStok ==
  ASSUME StokInv, NEW ops, Surer(ops), "urunYaz" \notin ops, "stokYaz" \notin ops
  PROVE  StokOgrenmis
BY DEF StokInv, StokOgrenmis, StokBilir, Surer

LEMMA BaslaStok ==
  ASSUME StokInv, NEW r, NEW q, StokBilir(q), Basla(r, q)
  PROVE  StokOgrenmis
BY DEF Basla, StokOgrenmis, StokInv

LEMMA BitirStok ==
  ASSUME StokInv, NEW r, Bitir(r)
  PROVE  StokOgrenmis
BY DEF Bitir, Gec, Bos, StokBilir, StokOgrenmis, StokInv

LEMMA UstuneAlan ==
  ASSUME NEW yeni, NEW eski, NEW a
  PROVE  /\ a \in DOMAIN Ustune(yeni, eski) <=> a \in DOMAIN yeni \/ a \in DOMAIN eski
         /\ a \in DOMAIN yeni => Ustune(yeni, eski)[a] = yeni[a]
         /\ a \in DOMAIN eski /\ a \notin DOMAIN yeni => Ustune(yeni, eski)[a] = eski[a]
BY DEF Ustune

\* A price is no stock.
LEMMA FiyatStoksuz ==
  ASSUME NEW s, NEW net, NEW desi, NEW model, NEW kdv, NEW dto
  PROVE  "stok" \notin DOMAIN UrunFiyatAlanlari(s, net, desi, model, kdv, dto)
<1>1. CASE Carsi(s)
  <2>1. "stok" \notin DOMAIN VitrinFiyatHesapla(net, desi, model, kdv)
    BY DEF VitrinFiyatHesapla
  <2> QED BY <1>1, <2>1 DEF UrunFiyatAlanlari
<1>2. CASE ~ Carsi(s)
  <2>1. "stok" \notin DOMAIN Sec(dto, {"price"})
    BY DEF Sec
  <2> QED BY <1>2, <2>1 DEF UrunFiyatAlanlari
<1> QED BY <1>1, <1>2

\* What updateProduct computes has a stock if the request gives one, and that one.
LEMMA VeriStogu ==
  ASSUME NEW eski, NEW dto
  PROVE  /\ "stok" \in DOMAIN UrunVerisi(eski, dto) <=> "stok" \in DOMAIN dto
         /\ "stok" \in DOMAIN dto => UrunVerisi(eski, dto).stok = dto.stok
<1> DEFINE desi == Al(dto, "desi", eski.desi)
           model == Al(dto, "model", eski.model)
           kdv == Al(dto, "kdv", eski.kdv)
           fiyat == UrunFiyatAlanlari(eski.s, Al(dto, "net", eski.net), desi, model, kdv, dto)
           kalan == [desi |-> desi, model |-> model, kdv |-> kdv]
           sec == Sec(dto, {"ad", "net", "stok"})
           veri == Ustune(fiyat, Ustune(sec, kalan))
           kapali == [aktif |-> FALSE]
<1>1. UrunVerisi(eski, dto) \in {veri, Ustune(kapali, veri)}
  BY DEF UrunVerisi
<1>2. "stok" \notin DOMAIN fiyat
  BY FiyatStoksuz
<1>3. "stok" \notin DOMAIN kalan /\ "stok" \notin DOMAIN kapali
  OBVIOUS
<1>4. ("stok" \in DOMAIN sec <=> "stok" \in DOMAIN dto) /\ ("stok" \in DOMAIN dto => sec["stok"] = dto["stok"])
  BY DEF Sec
<1> HIDE DEF fiyat, kalan, sec, kapali
<1>5. /\ "stok" \in DOMAIN veri <=> "stok" \in DOMAIN dto
      /\ "stok" \in DOMAIN dto => veri["stok"] = dto["stok"]
  BY <1>2, <1>3, <1>4, UstuneAlan
<1> HIDE DEF veri
<1>6. /\ "stok" \in DOMAIN Ustune(kapali, veri) <=> "stok" \in DOMAIN dto
      /\ "stok" \in DOMAIN dto => Ustune(kapali, veri)["stok"] = dto["stok"]
  BY <1>3, <1>5, UstuneAlan
<1> QED BY <1>1, <1>5, <1>6

\* An editor writes the row of one product, and the account by as much as its stock.
LEMMA StokYazinca ==
  ASSUME Stoklar, NEW p, NEW yeni, NEW n, NEW d,
         p \in DOMAIN urun => /\ "stok" \in DOMAIN yeni /\ yeni.stok = n /\ n \in Int
                             /\ d = defter[p] + (n - urun[p].stok),
         urun' = [urun EXCEPT ![p] = yeni], defter' = [defter EXCEPT ![p] = d],
         satis' = satis, varyant' = varyant
  PROVE  Stoklar'
<1>1. \A t : Oynayan(t)' = Oynayan(t)
  BY DEF Oynayan, Alinan, Verilen
<1>2. Satislar'
  BY DEF Stoklar, Satislar
<1>3. DOMAIN urun' = DOMAIN urun /\ DOMAIN defter' = DOMAIN urun
  BY DEF Stoklar
<1>4. ASSUME NEW t \in DOMAIN urun
      PROVE  /\ "stok" \in DOMAIN urun'[t] /\ urun'[t].stok \in Int
             /\ defter'[t] \in Int /\ Oynayan(t) \in Int
             /\ urun'[t].stok = defter'[t] + Oynayan(t)
  <2>1. CASE t # p
    BY <2>1 DEF Stoklar
  <2>2. CASE t = p
    <3>1. urun'[t] = yeni /\ defter'[t] = d
      BY <2>2 DEF Stoklar
    <3> QED BY <2>2, <3>1 DEF Stoklar
  <2> QED BY <2>1, <2>2
<1> QED BY <1>1, <1>2, <1>3, <1>4 DEF Stoklar

LEMMA UrunEkleAdim ==
  ASSUME StokInv, NEW u, NEW s, NEW p \in DOMAIN urun, NEW dto \in YeniUrunler, UrunEkle(u, s, p, dto)
  PROVE  StokInv'
<1> DEFINE n == Al(dto, "stok", 0)
           net == Al(dto, "net", dto.price)
           desi == Al(dto, "desi", 0)
           model == Al(dto, "model", "A")
           kdv == Al(dto, "kdv", KdvOraniBul(dto.ad))
           fiyat == UrunFiyatAlanlari(s, net, desi, model, kdv, dto)
           satir == [YokUrun EXCEPT !.s = s, !.ad = dto.ad, !.price = dto.price, !.kdv = kdv,
                                    !.desi = desi, !.model = model, !.stok = n]
           yeni == Ustune(fiyat, satir)
<1>1. n \in Int /\ defter[p] \in Int
  BY StokSahneleri DEF Al, StokInv, Stoklar
<1>2. /\ urun' = [urun EXCEPT ![p] = yeni] /\ defter' = [defter EXCEPT ![p] = defter[p] + n]
      /\ req' = req /\ satis' = satis /\ varyant' = varyant
  BY DEF UrunEkle, StokInv, Stoklar
<1>8. urun[p].stok = 0
  BY DEF UrunEkle, YokUrun
<1>3. "stok" \notin DOMAIN fiyat
  BY FiyatStoksuz
<1> HIDE DEF n, fiyat, kdv, desi, model
<1>4. "stok" \in DOMAIN satir /\ satir["stok"] = n
  BY DEF YokUrun
<1> HIDE DEF satir
<1>5. "stok" \in DOMAIN yeni /\ yeni["stok"] = n
  BY <1>3, <1>4, UstuneAlan
<1> HIDE DEF yeni
<1>6. Stoklar'
  <2>1. defter[p] + n = defter[p] + (n - urun[p].stok)
    BY <1>1, <1>8
  <2> QED BY <1>1, <1>2, <1>5, <2>1, StokYazinca DEF StokInv
<1>7. StokOgrenmis
  BY <1>2 DEF StokOgrenmis, StokInv
<1> QED BY <1>6, <1>7, StokInvKurulur

LEMMA UrunYazAdim ==
  ASSUME StokInv, NEW r \in Requests, UrunYaz(r)
  PROVE  StokInv'
<1> DEFINE p == req[r].p
           veri == req[r].veri
           yeni == Ustune(veri, urun[p])
<1>1. "stok" \notin DOMAIN veri
  BY DEF StokInv, StokBilir, UrunYaz, Sira
<1>2. /\ urun' = [urun EXCEPT ![p] = yeni] /\ defter' = defter /\ Bitir(r)
      /\ satis' = satis /\ varyant' = varyant
  BY DEF UrunYaz
<1> HIDE DEF p, veri
<1>3. "stok" \in DOMAIN urun[p] => "stok" \in DOMAIN yeni /\ yeni["stok"] = urun[p]["stok"]
  BY <1>1, UstuneAlan
<1> HIDE DEF yeni
<1>4. Stoklar'
  <2>1. \A t : Oynayan(t)' = Oynayan(t)
    BY <1>2 DEF Oynayan, Alinan, Verilen
  <2>2. Satislar'
    BY <1>2 DEF StokInv, Stoklar, Satislar
  <2>3. DOMAIN urun' = DOMAIN urun
    BY <1>2
  <2>4. \A t \in DOMAIN urun : "stok" \in DOMAIN urun'[t] /\ urun'[t].stok = urun[t].stok
    BY <1>2, <1>3 DEF StokInv, Stoklar
  <2> QED BY <1>2, <2>1, <2>2, <2>3, <2>4 DEF StokInv, Stoklar
<1> QED BY <1>2, <1>4, BitirStok, StokInvKurulur

LEMMA StokYazAdim ==
  ASSUME StokInv, NEW r \in Requests, StokYaz(r)
  PROVE  StokInv'
<1> DEFINE p == req[r].p
           veri == req[r].veri
           yeni == Ustune(veri, urun[p])
           beklenen == req[r].beklenen
           yeniDefter == [defter EXCEPT ![p] = (@ + veri.stok) - beklenen]
<1>1. "stok" \in DOMAIN veri /\ veri.stok \in Int
  BY DEF StokInv, StokBilir, StokYaz, Sira
<1>2. Bitir(r) /\ satis' = satis /\ varyant' = varyant
  BY DEF StokYaz
<1>3. ASSUME urun' = urun, defter' = defter PROVE StokInv'
  BY <1>2, <1>3, BitirStok, StoklarKalir, StokInvKurulur
<1>4. ASSUME StokUyar(p, beklenen), urun' = [urun EXCEPT ![p] = yeni], defter' = yeniDefter
      PROVE  StokInv'
  <2>1. beklenen = urun[p].stok
    BY <1>4 DEF StokUyar
  <2>2. "stok" \in DOMAIN yeni /\ yeni["stok"] = veri["stok"]
    <3> HIDE DEF p, veri
    <3> QED BY <1>1, UstuneAlan
  <2> DEFINE n == veri.stok
             d == (defter[p] + n) - beklenen
  <2>3. defter' = [defter EXCEPT ![p] = d]
    BY <1>4
  <2>4. p \in DOMAIN urun => /\ "stok" \in DOMAIN yeni /\ yeni.stok = n /\ n \in Int
                            /\ d = defter[p] + (n - urun[p].stok)
    <3> SUFFICES ASSUME p \in DOMAIN urun
                 PROVE  n \in Int /\ d = defter[p] + (n - urun[p].stok)
      BY <2>2
    <3>1. defter[p] \in Int /\ urun[p].stok \in Int
      BY DEF StokInv, Stoklar
    <3> HIDE DEF n, p
    <3> QED BY <1>1, <2>1, <3>1 DEF n
  <2> HIDE DEF n, d, p, veri, beklenen, yeni
  <2>5. Stoklar'
    BY <1>2, <1>4, <2>3, <2>4, StokYazinca DEF StokInv
  <2> QED BY <1>2, <2>5, BitirStok, StokInvKurulur
<1> QED BY <1>3, <1>4 DEF StokYaz

\* The pieces of a product that have moved can be counted.
LEMMA Adetler ==
  ASSUME Satislar, NEW t
  PROVE  /\ IsFiniteSet(Alinan(t)) /\ Cardinality(Alinan(t)) \in Nat
         /\ IsFiniteSet(Verilen(t)) /\ Cardinality(Verilen(t)) \in Nat
<1>1. DOMAIN satis = 1..Len(satis) /\ Len(satis) \in Nat
  BY DEF Satislar
<1>2. IsFiniteSet(DOMAIN satis)
  BY <1>1, FS_Interval
<1>3. Alinan(t) \subseteq DOMAIN satis /\ Verilen(t) \subseteq DOMAIN satis
  BY DEF Alinan, Verilen
<1>4. IsFiniteSet(Alinan(t)) /\ IsFiniteSet(Verilen(t))
  BY <1>2, <1>3, FS_Subset
<1> QED BY <1>4, FS_CardinalityType

\* By how much a sale or a return moves the stock of product t, if it moves fark pieces of p.
Pay(t, p, vs, fark) == IF t = p /\ StokYeri(vs) = "urun" THEN fark ELSE 0

LEMMA StokOynatUrun ==
  ASSUME Stoklar, NEW p, NEW vs, NEW fark \in {1, -1}, StokOynat(p, vs, fark)
  PROVE  /\ DOMAIN urun' = DOMAIN urun /\ DOMAIN varyant' = DOMAIN varyant
         /\ \A t \in DOMAIN urun : /\ "stok" \in DOMAIN urun'[t]
                                   /\ urun'[t].stok = urun[t].stok + Pay(t, p, vs, fark)
<1>1. \A t \in DOMAIN urun : "stok" \in DOMAIN urun[t] /\ urun[t].stok \in Int
  BY DEF Stoklar
<1>2. CASE VaryantStogu(vs)
  <2>1. urun' = urun /\ DOMAIN varyant' = DOMAIN varyant /\ StokYeri(vs) # "urun"
    BY <1>2 DEF StokOynat, StokYeri
  <2> QED BY <1>1, <2>1 DEF Pay
<1>3. CASE ~ VaryantStogu(vs)
  <2>1. /\ urun' = [urun EXCEPT ![p].stok = @ + fark] /\ varyant' = varyant
        /\ StokYeri(vs) = "urun"
    BY <1>3 DEF StokOynat, StokYeri
  <2>2. ASSUME NEW t \in DOMAIN urun
        PROVE  "stok" \in DOMAIN urun'[t] /\ urun'[t].stok = urun[t].stok + Pay(t, p, vs, fark)
    <3>1. CASE t = p
      BY <1>1, <2>1, <3>1 DEF Pay
    <3>2. CASE t # p
      BY <1>1, <2>1, <3>2 DEF Pay
    <3> QED BY <3>1, <3>2
  <2> QED BY <2>1, <2>2
<1> QED BY <1>2, <1>3

\* If the order items tell what the stock did, the account stays right.
LEMMA StoklarOynar ==
  ASSUME Stoklar, NEW p, NEW vs, NEW fark \in {1, -1}, StokOynat(p, vs, fark), defter' = defter,
         satis' \in Seq(SatisRow(DOMAIN urun, DOMAIN varyant)),
         \A t \in DOMAIN urun : Oynayan(t)' = Oynayan(t) + Pay(t, p, vs, fark)
  PROVE  Stoklar'
<1>1. /\ DOMAIN urun' = DOMAIN urun /\ DOMAIN varyant' = DOMAIN varyant
      /\ \A t \in DOMAIN urun : /\ "stok" \in DOMAIN urun'[t]
                                /\ urun'[t].stok = urun[t].stok + Pay(t, p, vs, fark)
  BY StokOynatUrun
<1>2. Satislar'
  BY <1>1 DEF Satislar
<1>3. ASSUME NEW t \in DOMAIN urun
      PROVE  /\ urun'[t].stok \in Int /\ defter'[t] \in Int /\ Oynayan(t)' \in Int
             /\ urun'[t].stok = defter'[t] + Oynayan(t)'
  <2>1. Pay(t, p, vs, fark) \in Int
    BY DEF Pay
  <2>2. urun[t].stok \in Int /\ defter[t] \in Int /\ Oynayan(t) \in Int
        /\ urun[t].stok = defter[t] + Oynayan(t)
    BY DEF Stoklar
  <2>3. /\ urun'[t].stok = urun[t].stok + Pay(t, p, vs, fark)
        /\ Oynayan(t)' = Oynayan(t) + Pay(t, p, vs, fark)
    BY <1>1
  <2> QED BY <2>1, <2>2, <2>3
<1> QED BY <1>1, <1>2, <1>3 DEF Stoklar

LEMMA SatisAdim ==
  ASSUME Stoklar, NEW p \in DOMAIN urun, NEW vs \in VaryantTek(p), Satis(p, vs)
  PROVE  Stoklar'
<1> DEFINE x == [p |-> p, v |-> vs, yer |-> StokYeri(vs), iade |-> "YOK"]
           n == Len(satis) + 1
           alir(t) == t = p /\ StokYeri(vs) = "urun"
<1>1. Satislar /\ satis' = Append(satis, x) /\ StokOynat(p, vs, -1) /\ defter' = defter
  BY DEF Satis, Stoklar
<1>2. x \in SatisRow(DOMAIN urun, DOMAIN varyant)
  BY DEF SatisRow, VaryantTek, StokYeri
<1>3. satis' \in Seq(SatisRow(DOMAIN urun, DOMAIN varyant))
  BY <1>1, <1>2 DEF Satislar
<1>4. x.p = p /\ x.yer = StokYeri(vs) /\ x.iade = "YOK"
  OBVIOUS
<1> HIDE DEF x
<1>5. /\ DOMAIN satis' = DOMAIN satis \cup {n} /\ n \notin DOMAIN satis
      /\ satis'[n] = x /\ \A k \in DOMAIN satis : satis'[k] = satis[k]
  BY <1>1 DEF Satislar
<1> HIDE DEF n
<1>6. ASSUME NEW t
      PROVE  Oynayan(t)' = Oynayan(t) + Pay(t, p, vs, -1)
  <2>1. Verilen(t)' = Verilen(t)
    BY <1>4, <1>5 DEF Verilen
  <2>2. IsFiniteSet(Alinan(t)) /\ Cardinality(Alinan(t)) \in Nat /\ Cardinality(Verilen(t)) \in Nat
    BY <1>1, Adetler
  <2>3. CASE alir(t)
    <3>1. Alinan(t)' = Alinan(t) \cup {n} /\ n \notin Alinan(t)
      BY <1>4, <1>5, <2>3 DEF Alinan
    <3>2. Cardinality(Alinan(t)') = Cardinality(Alinan(t)) + 1
      BY <2>2, <3>1, FS_AddElement
    <3>3. Pay(t, p, vs, -1) = -1
      BY <2>3 DEF Pay
    <3> QED BY <2>1, <2>2, <3>2, <3>3 DEF Oynayan
  <2>4. CASE ~ alir(t)
    <3>1. Alinan(t)' = Alinan(t)
      BY <1>4, <1>5, <2>4 DEF Alinan
    <3>2. Pay(t, p, vs, -1) = 0
      BY <2>4 DEF Pay
    <3> QED BY <2>1, <2>2, <3>1, <3>2 DEF Oynayan
  <2> QED BY <2>3, <2>4
<1> QED BY <1>1, <1>3, <1>6, StoklarOynar

LEMMA IadeAdim ==
  ASSUME Stoklar, NEW k \in DOMAIN satis, Iade(k)
  PROVE  Stoklar'
<1> DEFINE x == satis[k]
           y == [x EXCEPT !.iade = StokYeri(x.v)]
           verir(t) == t = x.p /\ StokYeri(x.v) = "urun"
<1>1. /\ Satislar /\ satis' = [satis EXCEPT ![k] = y] /\ StokOynat(x.p, x.v, 1) /\ defter' = defter
      /\ x.iade = "YOK"
  BY DEF Iade, Stoklar
<1>2. x \in SatisRow(DOMAIN urun, DOMAIN varyant) /\ StokYeri(x.v) \in {"urun", "varyant"}
  BY <1>1 DEF Satislar, StokYeri
<1>3. y \in SatisRow(DOMAIN urun, DOMAIN varyant) /\ y.p = x.p /\ y.yer = x.yer /\ y.iade = StokYeri(x.v)
  BY <1>2 DEF SatisRow
<1> HIDE DEF y
<1>4. satis' \in Seq(SatisRow(DOMAIN urun, DOMAIN varyant))
  BY <1>1, <1>3 DEF Satislar
<1>5. /\ DOMAIN satis' = DOMAIN satis /\ satis'[k] = y
      /\ \A j \in DOMAIN satis : j # k => satis'[j] = satis[j]
  BY <1>1
<1> HIDE DEF x
<1>6. satis[k] = x
  BY DEF x
<1>7. ASSUME NEW t
      PROVE  Oynayan(t)' = Oynayan(t) + Pay(t, x.p, x.v, 1)
  <2>1. Alinan(t)' = Alinan(t)
    <3>1. \A j \in DOMAIN satis : satis'[j].p = satis[j].p /\ satis'[j].yer = satis[j].yer
      BY <1>3, <1>5, <1>6
    <3> QED BY <1>5, <3>1 DEF Alinan
  <2>2. IsFiniteSet(Verilen(t)) /\ Cardinality(Alinan(t)) \in Nat /\ Cardinality(Verilen(t)) \in Nat
    BY <1>1, Adetler
  <2>3. k \notin Verilen(t)
    BY <1>1, <1>6 DEF Verilen
  <2>4. CASE verir(t)
    <3>1. Verilen(t)' = Verilen(t) \cup {k}
      BY <1>3, <1>5, <2>3, <2>4 DEF Verilen
    <3>2. Cardinality(Verilen(t)') = Cardinality(Verilen(t)) + 1
      BY <2>2, <2>3, <3>1, FS_AddElement
    <3>3. Pay(t, x.p, x.v, 1) = 1
      BY <2>4 DEF Pay
    <3> QED BY <2>1, <2>2, <3>2, <3>3 DEF Oynayan
  <2>5. CASE ~ verir(t)
    <3>1. Verilen(t)' = Verilen(t)
      BY <1>3, <1>5, <2>3, <2>5 DEF Verilen
    <3>2. Pay(t, x.p, x.v, 1) = 0
      BY <2>5 DEF Pay
    <3> QED BY <2>1, <2>2, <3>1, <3>2 DEF Oynayan
  <2> QED BY <2>4, <2>5
<1> QED BY <1>1, <1>4, <1>7, StoklarOynar

LEMMA UrunAdim ==
  ASSUME StokInv, UrunNext
  PROVE  StokInv'
<1>1. ASSUME NEW r, NEW u, NEW p, UrunOnaylaOku(r, u, p) \/ UrunReddetOku(r, u, p) \/ UrunKaldirOku(r, u, p)
      PROVE  StokInv'
  <2>1. /\ StokBilir(UrunYazacak(p, [aktif |-> TRUE]))
        /\ StokBilir(UrunYazacak(p, [silindi |-> TRUE, aktif |-> FALSE]))
    BY DEF StokBilir, UrunYazacak
  <2>2. StokOgrenmis
    BY <1>1, <2>1, BaslaStok DEF UrunOnaylaOku, UrunReddetOku, UrunKaldirOku
  <2>3. urun' = urun /\ defter' = defter /\ satis' = satis /\ varyant' = varyant
    BY <1>1 DEF UrunOnaylaOku, UrunReddetOku, UrunKaldirOku, katalogVars, stokVars
  <2> QED BY <2>2, <2>3, StoklarKalir, StokInvKurulur
<1>2. ASSUME NEW r, NEW u, NEW p, NEW dto \in UrunDegisiklikleri, UrunGuncelleOku(r, u, p, dto)
      PROVE  StokInv'
  <2> DEFINE op == IF "stok" \in DOMAIN dto THEN "stokYaz" ELSE "urunYaz"
             veri == UrunVerisi(urun[p], dto)
             q == [op |-> op, p |-> p, veri |-> veri, beklenen |-> Al(dto, "beklenen", urun[p].stok)]
  <2>1. Basla(r, q) /\ urun' = urun /\ defter' = defter /\ satis' = satis /\ varyant' = varyant
    BY <1>2 DEF UrunGuncelleOku, katalogVars, stokVars
  <2>2. q.op = op /\ q.veri = veri
    OBVIOUS
  <2>3. "stok" \in DOMAIN dto => dto.stok \in Int
    BY StokSahneleri
  <2>4. /\ "stok" \in DOMAIN veri <=> "stok" \in DOMAIN dto
        /\ "stok" \in DOMAIN dto => veri.stok = dto.stok
    BY VeriStogu
  <2> HIDE DEF veri, q
  <2>5. StokBilir(q)
    BY <2>2, <2>3, <2>4 DEF StokBilir
  <2> QED BY <2>1, <2>5, BaslaStok, StoklarKalir, StokInvKurulur
<1>3. ASSUME NEW p \in DOMAIN urun, NEW vs \in VaryantTek(p), Satis(p, vs) PROVE StokInv'
  <2>1. Stoklar' /\ req' = req
    BY <1>3, SatisAdim DEF Satis, StokInv
  <2> QED BY <2>1, StokInvKurulur DEF StokOgrenmis, StokInv
<1>4. ASSUME NEW k \in DOMAIN satis, Iade(k) PROVE StokInv'
  <2>1. Stoklar' /\ req' = req
    BY <1>4, IadeAdim DEF Iade, StokInv
  <2> QED BY <2>1, StokInvKurulur DEF StokOgrenmis, StokInv
<1> QED BY <1>1, <1>2, <1>3, <1>4, UrunEkleAdim, UrunYazAdim, StokYazAdim DEF UrunNext

\* The other statements of the catalogue.
LEMMA RafKorur ==
  ASSUME VaryantNext \/ SecenekNext \/ MedyaNext \/ KategoriNext
  PROVE  urun' = urun /\ defter' = defter /\ satis' = satis /\ DOMAIN varyant' = DOMAIN varyant
<1> DEFINE Korunur == urun' = urun /\ defter' = defter /\ satis' = satis /\ DOMAIN varyant' = DOMAIN varyant
<1>1. ASSUME VaryantNext PROVE Korunur
  BY <1>1 DEF VaryantNext, VaryantOlustur, VaryantSil, VaryantGuncelleOku, VaryantYaz, katalogVars, stokVars
<1>2. ASSUME SecenekNext PROVE Korunur
  <2>1. stokVars' = stokVars
    BY <1>2
    DEF SecenekNext, SecenekGrubuOlustur, SecenekGrubuGuncelleOku, GrupYaz, SecenekGrubuSil, SecenekEkle,
        SecenekGuncelle, SecenekSil, UrunSecenekGruplari, katalogVars
  <2> QED BY <2>1 DEF stokVars
<1>3. ASSUME MedyaNext \/ KategoriNext PROVE Korunur
  <2>1. stokVars' = stokVars
    BY <1>3 DEF MedyaNext, MedyaEkle, MedyaGuncelle, BirincilDigerleri, BirincilResim, MedyaSil,
                KategoriNext, KategoriEkle
  <2> QED BY <2>1 DEF stokVars
<1> QED BY <1>1, <1>2, <1>3

LEMMA StokAdim ==
  ASSUME StokInv, [Next]_vars
  PROVE  StokInv'
<1>1. DOMAIN req = Requests
  BY DEF StokInv
<1>2. ASSUME katalogVars' = katalogVars, NEW ops \in {KullaniciOps, SaticiOps, KadroOps, OnayOps, SepetOps},
             Surer(ops)
      PROVE  StokInv'
  <2>1. "urunYaz" \notin ops /\ "stokYaz" \notin ops
    BY DEF KullaniciOps, SaticiOps, KadroOps, OnayOps, SepetOps
  <2>2. urun' = urun /\ defter' = defter /\ satis' = satis /\ varyant' = varyant
    BY <1>2 DEF katalogVars, stokVars
  <2> QED BY <1>2, <2>1, <2>2, SurerStok, StoklarKalir, StokInvKurulur
<1>3. CASE katalogVars' = katalogVars /\ (KullaniciNext \/ OnayNext)
  BY <1>1, <1>2, <1>3, KullaniciSurer, OnaySurer
<1>4. ASSUME VaryantNext \/ SecenekNext \/ MedyaNext \/ KategoriNext PROVE StokInv'
  <2>1. Surer(RafOps) /\ "urunYaz" \notin RafOps /\ "stokYaz" \notin RafOps
    BY <1>1, <1>4, RafSurer DEF RafOps
  <2> QED BY <1>4, <2>1, RafKorur, SurerStok, StoklarKalir, StokInvKurulur
<1>5. CASE KatalogNext
  BY <1>4, <1>5, UrunAdim DEF KatalogNext
<1> QED BY <1>1, <1>2, <1>3, <1>5, AyniIstekler

LEMMA StokBaslar ==
  ASSUME Init
  PROVE  StokInv
<1>1. PICK x \in Sahneler :
        /\ req = [r \in Requests |-> Bos] /\ urun = x.urun /\ satis = <<>>
        /\ defter = [p \in DOMAIN x.urun |-> x.urun[p].stok]
  BY DEF Init
<1>2. Satislar /\ \A p : Alinan(p) = {} /\ Verilen(p) = {}
  BY <1>1 DEF Satislar, Alinan, Verilen
<1>3. \A p : Oynayan(p) = 0
  BY <1>2, FS_EmptySet DEF Oynayan
<1>4. Stoklar
  BY <1>1, <1>2, <1>3, StokSahneleri DEF Stoklar
<1> QED BY <1>1, <1>4 DEF StokInv, StokBilir, Bos

\* No edit of a product overwrites what orders took from its stock or gave back to it: an
\* editor writes the stock only over the one he expected, so sales and returns in between
\* make his write fail or count in it (updateProduct's conditional update).
THEOREM NoSaleOverwritten == Spec => []SatisEzilmez
<1>1. Spec => []StokInv
  BY StokBaslar, StokAdim, PTL DEF Spec
<1>2. StokInv => SatisEzilmez
  BY DEF StokInv, Stoklar, SatisEzilmez
<1> QED BY <1>1, <1>2, PTL
================================================================================
