------------------------------- MODULE Satici -------------------------------
(***************************************************************************)
(* Sellers (market/): the application with its documents and contracts,    *)
(* its review by administrators, the seller's life afterwards, and the     *)
(* first store a seller opens.                                             *)
(*                                                                         *)
(* A user has at most one seller record (a unique index), so it is found   *)
(* by its owner.                                                           *)
(***************************************************************************)
EXTENDS Kullanici

CONSTANTS
  Dikeyler,         \* business units applied for
  BELGE_SINIRI,     \* bound on the documents
  NoUser

ASSUME SaticiAssumption ==
  /\ NoUser \notin Users
  /\ Dikeyler \subseteq {"MARKET", "YEMEK", "CARSI"}
  /\ BELGE_SINIRI \in Nat

VARIABLES
  satici,   \* sellers, by owner
  belge,    \* satici_belgeleri, oldest first
  imza,     \* contracts of the seller accepted in the version in force: <<user, type>>
  magaza    \* stores

saticiVars == <<satici, belge, imza>>
saticilik == <<saticiVars, magaza>>

\* vergi: a tax number is on file.
YokSatici == [durum |-> "YOK", dogrulama |-> "EKSIK", vergi |-> FALSE, dikey |-> "YOK"]

YokMagaza == [sahip |-> NoUser, dikey |-> "YOK", aktif |-> FALSE]

SellerStatus == {"DRAFT", "UNDER_REVIEW", "NEEDS_FIX", "ACTIVE", "SUSPENDED", "CLOSED", "REJECTED"}

SellerVerification == {"EKSIK", "BEKLIYOR", "ONAYLANDI", "REDDEDILDI"}

SATICI_SOZLESMELERI == {"SATICI", "SATICI_KOMISYON"}

ZORUNLU_BELGELER == {"VERGI_LEVHASI"}

-----------------------------------------------------------------------------
(* Writes of a seller's row *)

\* A transaction that has locked the row with FOR UPDATE: everybody else's writes wait.
Kilitsiz(u) == ~ \E r \in Requests : Sira(r, "magazaYaz") /\ req[r].u = u

SaticiYaz(u, satir) == Kilitsiz(u) /\ satici' = [satici EXCEPT ![u] = satir]

NEXT_STATUS ==
  [DRAFT |-> {"UNDER_REVIEW", "CLOSED"},
   UNDER_REVIEW |-> {"ACTIVE", "NEEDS_FIX", "REJECTED"},
   NEEDS_FIX |-> {"UNDER_REVIEW", "CLOSED"},
   ACTIVE |-> {"SUSPENDED", "CLOSED"},
   SUSPENDED |-> {"ACTIVE", "CLOSED"},
   CLOSED |-> {},
   REJECTED |-> {}]

\* The condition of gecis: the row still has one of the expected statuses.
Beklenen(u, durumlar) == satici[u].durum \in durumlar

Gecis(u, durumlar, hedef) ==
  IF Beklenen(u, durumlar)
    THEN SaticiYaz(u, [satici[u] EXCEPT !.durum = hedef])
    ELSE UNCHANGED satici

-----------------------------------------------------------------------------
(* Who may call what: the permission each endpoint of market.controller asks for *)

BasvuruUclari ==
  [saticiOlustur |-> "SELLER_APPLY", saticiGuncelle |-> "SELLER_APPLY",
   saticiOnayaGonder |-> "SELLER_APPLY"]

IncelemeUclari ==
  [saticiDurumDegistir |-> "STORE_MANAGE_ALL", saticiKarar |-> "STORE_MANAGE_ALL",
   saticiOnayla |-> "STORE_MANAGE_ALL", saticiDogrulama |-> "STORE_MANAGE_ALL"]

BelgeUclari ==
  [belgeEkle |-> "SELLER_APPLY", belgeKarar |-> "STORE_MANAGE_ALL",
   saticiSozlesmeOnayla |-> "SELLER_APPLY"]

\* saticimHam: the caller has a seller record.
Basvuran(u, izin) == Izinli(u, izin) /\ satici[u] # YokSatici

Yonetici(a, izin) == Izinli(a, izin) /\ PlatformYoneticisi(a)

-----------------------------------------------------------------------------
(* The application *)

\* A second application of the same user returns the first: nothing changes.
SaticiOlustur(u, dikey, vergi) ==
  /\ Cagrilir("saticiOlustur")
  /\ Izinli(u, BasvuruUclari.saticiOlustur)
  /\ satici[u] = YokSatici
  /\ SaticiYaz(u, [YokSatici EXCEPT !.durum = "DRAFT", !.dikey = dikey, !.vergi = vergi,
                                    !.dogrulama = IF vergi THEN "BEKLIYOR" ELSE "EKSIK"])
  /\ UNCHANGED <<req, belge, imza, magaza, kullaniciVars>>

\* The profile is frozen while the application is under review.
SaticiGuncelleOku(r, u) ==
  /\ Cagrilir("saticiGuncelle")
  /\ Basvuran(u, BasvuruUclari.saticiGuncelle)
  /\ satici[u].durum # "UNDER_REVIEW"
  /\ Basla(r, [op |-> "saticiGuncelle", u |-> u])
  /\ UNCHANGED <<saticilik, kullaniciVars>>

\* A new tax number; a new name would change nothing here.
SaticiGuncelle(r) ==
  LET u == req[r].u
  IN /\ Sira(r, "saticiGuncelle")
     /\ SaticiYaz(u, [satici[u] EXCEPT !.vergi = TRUE, !.dogrulama = "BEKLIYOR"])
     /\ Bitir(r)
     /\ UNCHANGED <<belge, imza, magaza, kullaniciVars>>

\* Accepting twice is accepting once.
SaticiSozlesmeOnayla(u, tip) ==
  /\ Cagrilir("saticiSozlesmeOnayla")
  /\ Basvuran(u, BelgeUclari.saticiSozlesmeOnayla)
  /\ imza' = imza \cup {<<u, tip>>}
  /\ UNCHANGED <<req, satici, belge, magaza, kullaniciVars>>

Levhalar(u) == {b \in DOMAIN belge : belge[b].u = u /\ belge[b].tip = "VERGI_LEVHASI"}

\* saticiOnayaGonder: nothing may be missing.
Eksiksiz(u) ==
  /\ satici[u].vergi
  /\ \E b \in Levhalar(u) : belge[b].durum \in {"BEKLIYOR", "ONAYLANDI"}
  /\ \A tip \in SATICI_SOZLESMELERI : <<u, tip>> \in imza

OnayaGonderOku(r, u) ==
  /\ Cagrilir("saticiOnayaGonder")
  /\ Basvuran(u, BasvuruUclari.saticiOnayaGonder)
  /\ Eksiksiz(u)
  /\ Basla(r, [op |-> "onayaGonder", u |-> u])
  /\ UNCHANGED <<saticilik, kullaniciVars>>

OnayaGonder(r) ==
  /\ Sira(r, "onayaGonder")
  /\ Gecis(req[r].u, {"DRAFT", "NEEDS_FIX"}, "UNDER_REVIEW")
  /\ Bitir(r)
  /\ UNCHANGED <<belge, imza, magaza, kullaniciVars>>

-----------------------------------------------------------------------------
(* Documents.  A document is written, then the seller's verification is computed from   *)
(* all his documents and written: three statements.                                     *)

BelgeEkle(r, u, tip) ==
  /\ Cagrilir("belgeEkle")
  /\ Basvuran(u, BelgeUclari.belgeEkle)
  /\ Len(belge) < BELGE_SINIRI
  /\ belge' = Append(belge, [u |-> u, tip |-> tip, durum |-> "BEKLIYOR"])
  /\ Basla(r, [op |-> "tazeleOku", u |-> u])
  /\ UNCHANGED <<satici, imza, magaza, kullaniciVars>>

BelgeKarar(r, a, b, durum) ==
  LET u == belge[b].u
  IN /\ Cagrilir("belgeKarar")
     /\ Yonetici(a, BelgeUclari.belgeKarar)
     /\ belge' = [belge EXCEPT ![b].durum = durum]
     /\ Basla(r, [op |-> "tazeleOku", u |-> u])
     /\ UNCHANGED <<satici, imza, magaza, kullaniciVars>>

Dogrulama(u) ==
  LET durumlar(tip) == {belge[b].durum : b \in {c \in DOMAIN belge : belge[c].u = u /\ belge[c].tip = tip}}
      hepsi == UNION {durumlar(tip) : tip \in ZORUNLU_BELGELER}
  IN IF \A tip \in ZORUNLU_BELGELER : "ONAYLANDI" \in durumlar(tip) THEN "ONAYLANDI"
     ELSE IF "BEKLIYOR" \in hepsi THEN "BEKLIYOR"
     ELSE IF "REDDEDILDI" \in hepsi THEN "REDDEDILDI"
     ELSE "EKSIK"

TazeleOku(r) ==
  /\ Sira(r, "tazeleOku")
  /\ Gec(r, [op |-> "tazele", u |-> req[r].u, hedef |-> Dogrulama(req[r].u)])
  /\ UNCHANGED <<saticilik, kullaniciVars>>

Tazele(r) ==
  LET u == req[r].u
  IN /\ Sira(r, "tazele")
     /\ SaticiYaz(u, [satici[u] EXCEPT !.dogrulama = req[r].hedef])
     /\ Bitir(r)
     /\ UNCHANGED <<belge, imza, magaza, kullaniciVars>>

\* The administrator's own word, until the next document.
SaticiDogrulama(a, u, sonuc) ==
  /\ Cagrilir("saticiDogrulama")
  /\ Yonetici(a, IncelemeUclari.saticiDogrulama)
  /\ satici[u] # YokSatici
  /\ SaticiYaz(u, [satici[u] EXCEPT !.dogrulama = sonuc])
  /\ UNCHANGED <<req, belge, imza, magaza, kullaniciVars>>

-----------------------------------------------------------------------------
(* Review and afterwards *)

DurumDegistirOku(r, a, u, hedef) ==
  LET s == satici[u]
  IN /\ Cagrilir("saticiDurumDegistir")
     /\ Yonetici(a, IncelemeUclari.saticiDurumDegistir)
     /\ s # YokSatici
     /\ hedef \notin {"NEEDS_FIX", "REJECTED"}
     /\ ~ (s.durum = "UNDER_REVIEW" /\ hedef = "ACTIVE")
     /\ hedef \in NEXT_STATUS[s.durum]
     /\ hedef = "ACTIVE" => s.dogrulama = "ONAYLANDI"
     /\ Basla(r, [op |-> "durumDegistir", u |-> u, durum |-> s.durum, hedef |-> hedef])
     /\ UNCHANGED <<saticilik, kullaniciVars>>

DurumDegistir(r) ==
  /\ Sira(r, "durumDegistir")
  /\ Gecis(req[r].u, {req[r].durum}, req[r].hedef)
  /\ Bitir(r)
  /\ UNCHANGED <<belge, imza, magaza, kullaniciVars>>

\* saticiKarar reads nothing it uses again: its conditional update is the whole handler.
SaticiKarar(a, u, karar) ==
  /\ Cagrilir("saticiKarar")
  /\ Yonetici(a, IncelemeUclari.saticiKarar)
  /\ Beklenen(u, {"UNDER_REVIEW"})
  /\ SaticiYaz(u, [satici[u] EXCEPT !.durum = karar])
  /\ UNCHANGED <<req, belge, imza, magaza, kullaniciVars>>

SaticiOnaylaOku(r, a, u) ==
  /\ Cagrilir("saticiOnayla")
  /\ Yonetici(a, IncelemeUclari.saticiOnayla)
  /\ satici[u].durum = "UNDER_REVIEW" /\ satici[u].dogrulama = "ONAYLANDI"
  /\ kul[u] = "ACTIVE"
  /\ Basla(r, [op |-> "saticiOnayla", u |-> u])
  /\ UNCHANGED <<saticilik, kullaniciVars>>

\* Mistake: only the status is asked for again.
OnaylanirMi_StatusOnly(u) == satici[u].durum = "UNDER_REVIEW"

\* The conditional update asks for the status and the verification again; the role is
\* added in the same transaction.
OnaylanirMi(u) == satici[u].durum = "UNDER_REVIEW" /\ satici[u].dogrulama = "ONAYLANDI"

SaticiOnayla(r) ==
  LET u == req[r].u
  IN /\ Sira(r, "saticiOnayla")
     /\ IF OnaylanirMi(u)
          THEN /\ SaticiYaz(u, [satici[u] EXCEPT !.durum = "ACTIVE"])
               /\ rol' = rol \cup {<<u, "MERCHANT", NoStore>>}
          ELSE UNCHANGED <<satici, rol>>
     /\ Bitir(r)
     /\ UNCHANGED <<belge, imza, magaza, kul, girisVars>>

-----------------------------------------------------------------------------
(* The first store: one transaction, which locks the seller's row, checks and creates *)

MagazalarOf(u) == {s \in DOMAIN magaza : magaza[s].sahip = u}

\* Mistake: the row is read without being locked.
KilitAlinir_NoLock(u) == TRUE

\* SELECT ... FOR UPDATE waits for whoever holds the row.
KilitAlinir(u) == Kilitsiz(u)

MagazaKur(r, u) ==
  /\ Cagrilir("magazaKur")
  /\ Izinli(u, "STORE_WRITE")
  /\ KilitAlinir(u)
  /\ satici[u].durum = "ACTIVE"
  /\ kul[u] = "ACTIVE"
  /\ MagazalarOf(u) = {}
  /\ Basla(r, [op |-> "magazaYaz", u |-> u])
  /\ UNCHANGED <<saticilik, kullaniciVars>>

\* The new store takes any free row.
MagazaYaz(r) ==
  LET u == req[r].u
      bos == {s \in DOMAIN magaza : magaza[s] = YokMagaza}
  IN /\ Sira(r, "magazaYaz")
     /\ bos # {}
     /\ magaza' = [magaza EXCEPT ![CHOOSE s \in bos : TRUE] =
                     [YokMagaza EXCEPT !.sahip = u, !.dikey = satici[u].dikey, !.aktif = TRUE]]
     /\ Bitir(r)
     /\ UNCHANGED <<saticiVars, kullaniciVars>>

-----------------------------------------------------------------------------

BasvuruNext ==
  \E u \in Users :
    \/ \E dikey \in Dikeyler, vergi \in BOOLEAN : SaticiOlustur(u, dikey, vergi)
    \/ \E tip \in SATICI_SOZLESMELERI : SaticiSozlesmeOnayla(u, tip)
    \/ \E r \in Requests : SaticiGuncelleOku(r, u) \/ OnayaGonderOku(r, u) \/ MagazaKur(r, u)
    \/ \E r \in Requests, tip \in ZORUNLU_BELGELER \cup {"DIGER"} : BelgeEkle(r, u, tip)

IncelemeNext ==
  \E a \in Users :
    \/ \E u \in Users, sonuc \in {"ONAYLANDI", "REDDEDILDI"} : SaticiDogrulama(a, u, sonuc)
    \/ \E u \in Users, karar \in {"NEEDS_FIX", "REJECTED"} : SaticiKarar(a, u, karar)
    \/ \E r \in Requests, u \in Users, hedef \in SellerStatus : DurumDegistirOku(r, a, u, hedef)
    \/ \E r \in Requests, u \in Users : SaticiOnaylaOku(r, a, u)
    \/ \E r \in Requests, b \in DOMAIN belge, durum \in {"ONAYLANDI", "REDDEDILDI"} :
         BelgeKarar(r, a, b, durum)

SaticiYazNext ==
  \E r \in Requests :
    \/ SaticiGuncelle(r) \/ OnayaGonder(r) \/ TazeleOku(r) \/ Tazele(r)
    \/ DurumDegistir(r) \/ SaticiOnayla(r) \/ MagazaYaz(r)

SaticiNext == BasvuruNext \/ IncelemeNext \/ SaticiYazNext
=============================================================================
