---------------------------- MODULE PazaryeriProofs ----------------------------
(***************************************************************************)
(* Proofs about the people of the market place: a seller's status, his     *)
(* store, and the sanctions on an account.                                 *)
(*                                                                         *)
(* First, the statements that the requests of each part come to (Surer),   *)
(* and what each part leaves alone; so an invariant about one part need    *)
(* only be shown for the steps of that part.                               *)
(***************************************************************************)
EXTENDS Pazaryeri, FiniteSetTheorems, TLAPS

KullaniciOps ==
  {"bos", "otpYaz", "otpYanlis", "otpTuket", "girisUpsert", "girisAktif", "girisYeniden", "girisRol",
   "girisRolYaz", "girisJeton", "misafirRol", "refreshIptal", "devirTuket", "devirSepet"}

SaticiOps ==
  {"bos", "saticiGuncelle", "onayaGonder", "tazeleOku", "tazele", "durumDegistir", "saticiOnayla",
   "magazaYaz"}

KadroOps == {"bos", "rolVer"}

OnayOps == {"bos", "bolgeGuncelle", "submitBul", "submitYaz", "approve", "reject"}

KatalogOps ==
  {"bos", "urunYaz", "stokYaz", "varyantYaz", "grupYaz", "birincilDigerleri", "birincilResim"}

SepetOps == {"bos", "ekleMagaza", "ekleAra", "ekleYaz", "ekleArtir", "sepetMagazaSil"}

\* At most one request goes on, to a statement of ops.
Surer(ops) ==
  /\ DOMAIN req' = Requests
  /\ \A r \in Requests : req'[r] = req[r] \/ req'[r].op \in ops

LEMMA GecSurer ==
  ASSUME DOMAIN req = Requests, NEW ops, NEW r, NEW q, q.op \in ops, Gec(r, q)
  PROVE  Surer(ops)
BY DEF Gec, Surer

LEMMA BitirSurer ==
  ASSUME DOMAIN req = Requests, NEW ops, "bos" \in ops, NEW r, Bitir(r)
  PROVE  Surer(ops)
<1>1. Bos.op \in ops
  BY DEF Bos
<1> QED BY <1>1, GecSurer DEF Bitir

LEMMA BaslaSurer ==
  ASSUME DOMAIN req = Requests, NEW ops, NEW r, NEW q, q.op \in ops, Basla(r, q)
  PROVE  Surer(ops)
BY GecSurer DEF Basla, Gec

LEMMA DurursaSurer ==
  ASSUME DOMAIN req = Requests, NEW ops, req' = req
  PROVE  Surer(ops)
BY DEF Surer

LEMMA GirisAdimiOp ==
  ASSUME NEW op, NEW u, NEW kod PROVE GirisAdimi(op, u, kod).op = op
BY DEF GirisAdimi

LEMMA KapiSurer ==
  ASSUME DOMAIN req = Requests, NEW ops, "bos" \in ops, NEW r, NEW u, NEW sonra \in ops,
         GirisKapisi(r, u, sonra)
  PROVE  Surer(ops)
<1>1. CASE kul'[u] \in GIRIS_KAPALI
  BY <1>1, BitirSurer DEF GirisKapisi
<1>2. CASE kul'[u] \notin GIRIS_KAPALI
  BY <1>2, GecSurer, GirisAdimiOp DEF GirisKapisi
<1> QED BY <1>1, <1>2

\* The statements of a log-in and of a session.
GirisOps ==
  {"bos", "girisAktif", "girisYeniden", "girisRol", "girisRolYaz", "girisJeton", "refreshIptal",
   "devirTuket", "devirSepet"}

LEMMA GirisSurer ==
  ASSUME DOMAIN req = Requests, GirisNext \/ OturumNext \/ YonetimNext
  PROVE  Surer(GirisOps)
<1>1. \A o : o \in {"bos", "girisAktif", "girisYeniden", "girisRol", "girisRolYaz", "girisJeton",
                    "refreshIptal", "devirTuket", "devirSepet"}
             => o \in GirisOps
  BY DEF GirisOps
<1> HIDE DEF GirisOps
<1>3. ASSUME GirisNext PROVE Surer(GirisOps)
  <2>1. ASSUME NEW r, GirisUpsert(r) \/ GirisYeniden(r) PROVE Surer(GirisOps)
    BY <1>1, <2>1, KapiSurer DEF GirisUpsert, GirisYeniden
  <2>2. ASSUME NEW r, GirisAktif(r) PROVE Surer(GirisOps)
    BY <1>1, <2>2, GecSurer, GirisAdimiOp DEF GirisAktif
  <2>6. ASSUME NEW r, GirisRol(r) PROVE Surer(GirisOps)
    <3>1. PICK op \in {"girisRolYaz", "girisJeton"} : Gec(r, GirisAdimi(op, req[r].u, 0))
      BY <2>6 DEF GirisRol
    <3> QED BY <1>1, <3>1, GecSurer, GirisAdimiOp
  <2>3. ASSUME NEW r, MisafirRol(r) PROVE Surer(GirisOps)
    BY <1>1, <2>3, GecSurer, GirisAdimiOp DEF MisafirRol
  <2>4. ASSUME NEW r, GirisJeton(r) PROVE Surer(GirisOps)
    BY <1>1, <2>4, BitirSurer DEF GirisJeton
  <2>5. ASSUME NEW r, NEW secilen, GirisRolYaz(r, secilen) PROVE Surer(GirisOps)
    BY <1>1, <2>5, GecSurer, GirisAdimiOp DEF GirisRolYaz
  <2> QED BY <1>3, <2>1, <2>2, <2>3, <2>4, <2>5, <2>6 DEF GirisNext
<1>4. ASSUME OturumNext PROVE Surer(GirisOps)
  <2>1. ASSUME NEW r, NEW j, RefreshOku(r, j) \/ TransferKoduOku(r, j) PROVE Surer(GirisOps)
    BY <1>1, <2>1, BaslaSurer DEF RefreshOku, TransferKoduOku
  <2>2. ASSUME NEW r, RefreshIptal(r) PROVE Surer(GirisOps)
    BY <1>1, <2>2, GecSurer, GirisAdimiOp DEF RefreshIptal
  <2>3. ASSUME NEW r, DevirTuket(r) PROVE Surer(GirisOps)
    BY <1>1, <2>3, GecSurer, BitirSurer DEF DevirTuket
  <2>4. ASSUME NEW r, NEW cakisma, DevirSepet(r, cakisma) PROVE Surer(GirisOps)
    BY <1>1, <2>4, GecSurer, BitirSurer, GirisAdimiOp DEF DevirSepet
  <2>5. ASSUME NEW k, Logout(k) \/ DevirBiter(k) \/ TransferKoduUret(k) PROVE Surer(GirisOps)
    BY <2>5, DurursaSurer DEF Logout, DevirBiter, TransferKoduUret
  <2> QED BY <1>4, <2>1, <2>2, <2>3, <2>4, <2>5 DEF OturumNext
<1>5. ASSUME YonetimNext PROVE Surer(GirisOps)
  BY <1>5, DurursaSurer DEF YonetimNext, SetStatus, AssignRoles
<1> QED BY <1>3, <1>4, <1>5

LEMMA KullaniciSurer ==
  ASSUME DOMAIN req = Requests, KullaniciNext
  PROVE  Surer(KullaniciOps)
<1>1. \A o : o \in {"bos", "otpYaz", "misafirRol", "otpTuket", "otpYanlis", "girisUpsert", "girisAktif",
                    "girisRol", "girisYeniden", "girisRolYaz", "girisJeton", "refreshIptal",
                    "devirTuket", "devirSepet"}
             => o \in KullaniciOps
  BY DEF KullaniciOps
<1> HIDE DEF KullaniciOps
<1>2. ASSUME OtpNext PROVE Surer(KullaniciOps)
  <2>1. ASSUME NEW r, NEW u, OtpIste(r, u) \/ GuestSession(r, u) PROVE Surer(KullaniciOps)
    BY <1>1, <2>1, BaslaSurer, GirisAdimiOp DEF OtpIste, GuestSession
  <2>2. ASSUME NEW r, NEW u, NEW kod, OtpDogrula(r, u, kod) PROVE Surer(KullaniciOps)
    BY <1>1, <2>2, BaslaSurer DEF OtpDogrula
  <2>3. ASSUME NEW r, OtpYaz(r) \/ OtpYanlis(r) PROVE Surer(KullaniciOps)
    BY <1>1, <2>3, BitirSurer DEF OtpYaz, OtpYanlis
  <2>4. ASSUME NEW r, OtpTuket(r) PROVE Surer(KullaniciOps)
    BY <1>1, <2>4, GecSurer DEF OtpTuket
  <2>5. ASSUME NEW k, OtpYaslan(k) PROVE Surer(KullaniciOps)
    BY <2>5, DurursaSurer DEF OtpYaslan
  <2> QED BY <1>2, <2>1, <2>2, <2>3, <2>4, <2>5 DEF OtpNext
<1>3. GirisOps \subseteq KullaniciOps
  BY <1>1 DEF GirisOps
<1> QED BY <1>2, <1>3, GirisSurer DEF KullaniciNext, Surer

LEMMA SaticiSurer ==
  ASSUME DOMAIN req = Requests, SaticiNext
  PROVE  Surer(SaticiOps)
<1>1. \A o : o \in {"bos", "saticiGuncelle", "onayaGonder", "tazeleOku", "tazele", "durumDegistir",
                    "saticiOnayla", "magazaYaz"}
             => o \in SaticiOps
  BY DEF SaticiOps
<1> HIDE DEF SaticiOps
<1>2. ASSUME BasvuruNext PROVE Surer(SaticiOps)
  BY <1>1, <1>2, BaslaSurer, DurursaSurer
  DEF BasvuruNext, SaticiOlustur, SaticiSozlesmeOnayla, SaticiGuncelleOku, OnayaGonderOku, MagazaKur,
      BelgeEkle
<1>3. ASSUME IncelemeNext PROVE Surer(SaticiOps)
  BY <1>1, <1>3, BaslaSurer, DurursaSurer
  DEF IncelemeNext, SaticiDogrulama, SaticiKarar, DurumDegistirOku, SaticiOnaylaOku, BelgeKarar
<1>4. ASSUME SaticiYazNext PROVE Surer(SaticiOps)
  BY <1>1, <1>4, GecSurer, BitirSurer
  DEF SaticiYazNext, SaticiGuncelle, OnayaGonder, TazeleOku, Tazele, DurumDegistir, SaticiOnayla, MagazaYaz
<1> QED BY <1>2, <1>3, <1>4 DEF SaticiNext

LEMMA KadroSurer ==
  ASSUME DOMAIN req = Requests, KadroNext
  PROVE  Surer(KadroOps)
<1>1. "bos" \in KadroOps /\ "rolVer" \in KadroOps
  BY DEF KadroOps
<1> HIDE DEF KadroOps
<1>2. ASSUME NEW u, NEW s, NEW k, NEW p, NEW r, RolVerOku(r, u, s, k, p) PROVE Surer(KadroOps)
  BY <1>1, <1>2, BaslaSurer DEF RolVerOku
<1>3. ASSUME NEW r, RolVer(r) PROVE Surer(KadroOps)
  BY <1>1, <1>3, BitirSurer DEF RolVer
<1> QED
  BY <1>2, <1>3, DurursaSurer
  DEF KadroNext, PersonelNext, PersonelEkle, PersonelDurum, RolAl, MagazaGuncelle

LEMMA OnaySurer ==
  ASSUME DOMAIN req = Requests, OnayNext
  PROVE  Surer(OnayOps)
<1>1. \A o : o \in {"bos", "bolgeGuncelle", "submitBul", "submitYaz", "approve", "reject"} => o \in OnayOps
  BY DEF OnayOps
<1> HIDE DEF OnayOps
<1> QED
  BY <1>1, GecSurer, BitirSurer, BaslaSurer, DurursaSurer
  DEF OnayNext, BolgeGuncelleOku, SubmitDogrula, BolgeGuncelle, SubmitBul, SubmitYaz, Approve, Reject,
      ApproveOku, RejectOku, KapsamDegisir

\* The statements of the catalogue that do not write a product.
RafOps == {"bos", "varyantYaz", "grupYaz", "birincilDigerleri", "birincilResim"}

LEMMA BirincilSurer ==
  ASSUME DOMAIN req = Requests, NEW r, NEW p, NEW m, NEW birincil, BirincilIse(r, p, m, birincil)
  PROVE  Surer(RafOps)
BY BaslaSurer, DurursaSurer DEF BirincilIse, RafOps

LEMMA RafSurer ==
  ASSUME DOMAIN req = Requests, VaryantNext \/ SecenekNext \/ MedyaNext \/ KategoriNext
  PROVE  Surer(RafOps)
<1>1. \A o : o \in {"bos", "varyantYaz", "grupYaz", "birincilDigerleri", "birincilResim"} => o \in RafOps
  BY DEF RafOps
<1> HIDE DEF RafOps
<1>3. ASSUME VaryantNext PROVE Surer(RafOps)
  BY <1>1, <1>3, BitirSurer, BaslaSurer, DurursaSurer
  DEF VaryantNext, VaryantOlustur, VaryantSil, VaryantGuncelleOku, VaryantYaz
<1>4. ASSUME SecenekNext PROVE Surer(RafOps)
  BY <1>1, <1>4, BitirSurer, BaslaSurer, DurursaSurer
  DEF SecenekNext, SecenekGrubuOlustur, SecenekGrubuGuncelleOku, GrupYaz, SecenekGrubuSil, SecenekEkle,
      SecenekGuncelle, SecenekSil, UrunSecenekGruplari
<1>5. ASSUME MedyaNext \/ KategoriNext PROVE Surer(RafOps)
  BY <1>1, <1>5, BitirSurer, GecSurer, BirincilSurer, DurursaSurer
  DEF MedyaNext, MedyaEkle, MedyaGuncelle, BirincilDigerleri, BirincilResim, MedyaSil, KategoriNext,
      KategoriEkle
<1> QED BY <1>3, <1>4, <1>5

LEMMA KatalogSurer ==
  ASSUME DOMAIN req = Requests, KatalogNext
  PROVE  Surer(KatalogOps)
<1>1. \A o : o \in {"bos", "urunYaz", "stokYaz", "varyantYaz", "grupYaz", "birincilDigerleri",
                    "birincilResim"}
             => o \in KatalogOps
  BY DEF KatalogOps
<1> HIDE DEF KatalogOps
<1>2. ASSUME UrunNext PROVE Surer(KatalogOps)
  <2>1. \A p, veri : UrunYazacak(p, veri).op \in KatalogOps
    BY <1>1 DEF UrunYazacak
  <2>2. ASSUME NEW r, NEW u, NEW p, UrunOnaylaOku(r, u, p) \/ UrunReddetOku(r, u, p) \/ UrunKaldirOku(r, u, p)
        PROVE  Surer(KatalogOps)
    BY <2>1, <2>2, BaslaSurer DEF UrunOnaylaOku, UrunReddetOku, UrunKaldirOku
  <2>3. ASSUME NEW r, NEW u, NEW p, NEW dto, UrunGuncelleOku(r, u, p, dto) PROVE Surer(KatalogOps)
    BY <1>1, <2>3, BaslaSurer DEF UrunGuncelleOku
  <2>4. ASSUME NEW r, UrunYaz(r) \/ StokYaz(r) PROVE Surer(KatalogOps)
    BY <1>1, <2>4, BitirSurer DEF UrunYaz, StokYaz
  <2>5. ASSUME NEW u, NEW s, NEW p, NEW dto, UrunEkle(u, s, p, dto) PROVE Surer(KatalogOps)
    BY <2>5, DurursaSurer DEF UrunEkle
  <2>6. ASSUME NEW k, (\E vs : Satis(k, vs)) \/ Iade(k) PROVE Surer(KatalogOps)
    BY <2>6, DurursaSurer DEF Satis, Iade
  <2> QED BY <1>2, <2>2, <2>3, <2>4, <2>5, <2>6 DEF UrunNext
<1>3. ASSUME VaryantNext \/ SecenekNext \/ MedyaNext \/ KategoriNext PROVE Surer(KatalogOps)
  <2>1. Surer(RafOps)
    BY <1>3, RafSurer
  <2> QED BY <2>1 DEF Surer, RafOps, KatalogOps
<1> QED BY <1>2, <1>3 DEF KatalogNext

LEMMA SepetSurer ==
  ASSUME DOMAIN req = Requests, SepetNext
  PROVE  Surer(SepetOps)
<1>1. \A o : o \in {"bos", "ekleMagaza", "ekleAra", "ekleYaz", "ekleArtir", "sepetMagazaSil"}
             => o \in SepetOps
  BY DEF SepetOps
<1> HIDE DEF SepetOps
<1>2. ASSUME NEW r, NEW u, NEW p, NEW vs, NEW secilen, EkleOku(r, u, p, vs, secilen)
      PROVE  Surer(SepetOps)
  BY <1>1, <1>2, BaslaSurer DEF EkleOku
<1>3. ASSUME NEW r, EkleMagaza(r) \/ EkleAra(r) PROVE Surer(SepetOps)
  BY <1>1, <1>3, GecSurer, BitirSurer DEF EkleMagaza, EkleAra
<1>4. ASSUME NEW r, EkleYaz(r) \/ EkleArtir(r) \/ SepetMagazaSil(r) PROVE Surer(SepetOps)
  BY <1>1, <1>4, BitirSurer DEF EkleYaz, EkleArtir, SepetMagazaSil
<1>5. ASSUME NEW u, NEW k, KalemSil(u, k) \/ \E adet \in 0..ADET_SINIRI : KalemGuncelle(u, k, adet)
      PROVE  Surer(SepetOps)
  BY <1>5, DurursaSurer DEF KalemSil, KalemGuncelle
<1>6. ASSUME NEW r, NEW u, NEW d, SepetBosalt(r, u, d) PROVE Surer(SepetOps)
  BY <1>1, <1>6, BaslaSurer DEF SepetBosalt
<1> QED BY <1>2, <1>3, <1>4, <1>5, <1>6 DEF SepetNext

-----------------------------------------------------------------------------
(* Sellers *)

\* What a handler knows of the seller it works on.
SaticiBilir(q) ==
  /\ q.op \in SaticiOps \ {"bos"} => q.u \in Users /\ satici[q.u] # YokSatici
  /\ q.op = "tazele" => q.hedef \in SellerVerification
  /\ q.op = "durumDegistir" =>
       /\ q.durum \in SellerStatus /\ q.hedef \in NEXT_STATUS[q.durum]
       /\ ~ (q.durum = "UNDER_REVIEW" /\ q.hedef = "ACTIVE")

SaticiInv ==
  /\ satici \in [Users -> SaticiRow]
  /\ \A u \in Users : satici[u].durum = "YOK" => satici[u] = YokSatici
  /\ belge \in Seq(BelgeRow)
  /\ \A b \in DOMAIN belge : satici[belge[b].u] # YokSatici
  /\ DOMAIN req = Requests
  /\ \A r \in Requests : SaticiBilir(req[r])

\* One step of a seller's life.
Gecer(u, yeni) ==
  \/ yeni.durum = satici[u].durum
  \/ satici[u] = YokSatici /\ yeni.durum = "DRAFT"
  \/ /\ satici[u] # YokSatici
     /\ yeni.durum \in NEXT_STATUS[satici[u].durum]
     /\ satici[u].durum = "UNDER_REVIEW" /\ yeni.durum = "ACTIVE" =>
          yeni.dogrulama = "ONAYLANDI" /\ <<u, "MERCHANT", NoStore>> \in rol'

SaticiYazilir ==
  \E u \in Users, yeni \in SaticiRow :
    /\ Kilitsiz(u)
    /\ satici' = [satici EXCEPT ![u] = yeni]
    /\ yeni.durum # "YOK"
    /\ Gecer(u, yeni)

LEMMA Siradakiler ==
  /\ NEXT_STATUS.DRAFT = {"UNDER_REVIEW", "CLOSED"}
  /\ NEXT_STATUS.UNDER_REVIEW = {"ACTIVE", "NEEDS_FIX", "REJECTED"}
  /\ NEXT_STATUS.NEEDS_FIX = {"UNDER_REVIEW", "CLOSED"}
  /\ \A d \in SellerStatus : NEXT_STATUS[d] \subseteq SellerStatus
BY DEF NEXT_STATUS, SellerStatus

LEMMA YazinceYazilir ==
  ASSUME SaticiInv, NEW u \in Users, NEW yeni \in SaticiRow, SaticiYaz(u, yeni),
         yeni.durum # "YOK", Gecer(u, yeni)
  PROVE  SaticiYazilir
BY DEF SaticiYaz, SaticiYazilir

LEMMA GecisYazilir ==
  ASSUME SaticiInv, NEW u \in Users, NEW durumlar, NEW hedef, Gecis(u, durumlar, hedef),
         satici[u] # YokSatici,
         \A d \in durumlar : /\ d \in SellerStatus /\ hedef \in NEXT_STATUS[d]
                             /\ ~ (d = "UNDER_REVIEW" /\ hedef = "ACTIVE")
  PROVE  satici' = satici \/ SaticiYazilir
<1>1. CASE Beklenen(u, durumlar)
  <2>1. SaticiYaz(u, [satici[u] EXCEPT !.durum = hedef])
    BY <1>1 DEF Gecis
  <2>2. satici[u] \in SaticiRow /\ satici[u].durum \in durumlar
    BY <1>1 DEF SaticiInv, Beklenen
  <2>3. hedef \in SellerStatus /\ hedef # "YOK"
    BY <2>2, Siradakiler DEF SellerStatus
  <2> DEFINE yeni == [satici[u] EXCEPT !.durum = hedef]
  <2>4. yeni \in SaticiRow /\ yeni.durum = hedef
    BY <2>2, <2>3 DEF SaticiRow
  <2> HIDE DEF yeni
  <2>5. Gecer(u, yeni)
    BY <2>2, <2>4 DEF Gecer
  <2> QED BY <2>1, <2>3, <2>4, <2>5, YazinceYazilir DEF yeni
<1>2. CASE ~ Beklenen(u, durumlar)
  BY <1>2 DEF Gecis
<1> QED BY <1>1, <1>2

\* What each write of a seller's row does.
LEMMA SaticiAdimi ==
  ASSUME SaticiInv, SaticiNext
  PROVE  satici' = satici \/ SaticiYazilir
<1>1. ASSUME NEW u \in Users, NEW dikey \in Dikeyler, NEW vergi \in BOOLEAN,
             SaticiOlustur(u, dikey, vergi)
      PROVE  SaticiYazilir
  <2>1. PICK d \in {"BEKLIYOR", "EKSIK"} :
          SaticiYaz(u, [YokSatici EXCEPT !.durum = "DRAFT", !.dikey = dikey, !.vergi = vergi,
                                         !.dogrulama = d])
    BY <1>1 DEF SaticiOlustur
  <2> DEFINE yeni == [YokSatici EXCEPT !.durum = "DRAFT", !.dikey = dikey, !.vergi = vergi,
                                       !.dogrulama = d]
  <2>2. yeni \in SaticiRow /\ yeni.durum = "DRAFT"
    BY DEF YokSatici, SaticiRow, SellerStatus, SellerVerification
  <2>3. SaticiYaz(u, yeni)
    BY <2>1
  <2> HIDE DEF yeni
  <2>4. Gecer(u, yeni)
    BY <1>1, <2>2 DEF Gecer, SaticiOlustur
  <2> QED BY <2>2, <2>3, <2>4, YazinceYazilir
<1>2. ASSUME NEW u \in Users, NEW d \in SellerVerification, NEW v \in BOOLEAN,
             satici[u] # YokSatici,
             SaticiYaz(u, [satici[u] EXCEPT !.vergi = v, !.dogrulama = d])
      PROVE  SaticiYazilir
  <2> DEFINE yeni == [satici[u] EXCEPT !.vergi = v, !.dogrulama = d]
  <2>1. satici[u] \in SaticiRow /\ satici[u].durum # "YOK"
    BY <1>2 DEF SaticiInv
  <2>2. yeni \in SaticiRow /\ yeni.durum = satici[u].durum
    BY <2>1 DEF SaticiRow
  <2>3. SaticiYaz(u, yeni)
    BY <1>2
  <2> HIDE DEF yeni
  <2>4. Gecer(u, yeni)
    BY <2>2 DEF Gecer
  <2> QED BY <2>1, <2>2, <2>3, <2>4, YazinceYazilir
<1>3. ASSUME NEW u \in Users, NEW d \in SellerVerification, satici[u] # YokSatici,
             SaticiYaz(u, [satici[u] EXCEPT !.dogrulama = d])
      PROVE  SaticiYazilir
  <2> DEFINE yeni == [satici[u] EXCEPT !.dogrulama = d]
  <2>1. satici[u] \in SaticiRow /\ satici[u].durum # "YOK"
    BY <1>3 DEF SaticiInv
  <2>2. yeni \in SaticiRow /\ yeni.durum = satici[u].durum
    BY <2>1 DEF SaticiRow
  <2>3. SaticiYaz(u, yeni)
    BY <1>3
  <2> HIDE DEF yeni
  <2>4. Gecer(u, yeni)
    BY <2>2 DEF Gecer
  <2> QED BY <2>1, <2>2, <2>3, <2>4, YazinceYazilir
<1>4. ASSUME BasvuruNext PROVE satici' = satici \/ SaticiYazilir
  BY <1>1, <1>4
  DEF BasvuruNext, SaticiSozlesmeOnayla, SaticiGuncelleOku, OnayaGonderOku, MagazaKur, BelgeEkle,
      saticilik, saticiVars
<1>5. ASSUME NEW a, NEW u \in Users, NEW karar \in {"NEEDS_FIX", "REJECTED"}, SaticiKarar(a, u, karar)
      PROVE  SaticiYazilir
  <2>1. satici[u] \in SaticiRow /\ satici[u].durum = "UNDER_REVIEW" /\ satici[u] # YokSatici
    BY <1>5 DEF SaticiInv, SaticiKarar, Beklenen, YokSatici
  <2> DEFINE yeni == [satici[u] EXCEPT !.durum = karar]
  <2>2. yeni \in SaticiRow /\ yeni.durum = karar
    BY <2>1 DEF SaticiRow, SellerStatus
  <2>3. SaticiYaz(u, yeni)
    BY <1>5 DEF SaticiKarar
  <2> HIDE DEF yeni
  <2>4. Gecer(u, yeni)
    BY <2>1, <2>2, Siradakiler DEF Gecer
  <2> QED BY <2>2, <2>3, <2>4, YazinceYazilir
<1>6. ASSUME IncelemeNext PROVE satici' = satici \/ SaticiYazilir
  <2>1. ASSUME NEW a, NEW u \in Users, NEW sonuc \in {"ONAYLANDI", "REDDEDILDI"},
               SaticiDogrulama(a, u, sonuc)
        PROVE  SaticiYazilir
    BY <1>3, <2>1 DEF SaticiDogrulama, SellerVerification
  <2> QED
    BY <1>5, <1>6, <2>1
    DEF IncelemeNext, DurumDegistirOku, SaticiOnaylaOku, BelgeKarar, saticilik, saticiVars
<1>7. ASSUME NEW r \in Requests, SaticiOnayla(r) PROVE satici' = satici \/ SaticiYazilir
  <2> DEFINE u == req[r].u
             yeni == [satici[u] EXCEPT !.durum = "ACTIVE"]
  <2>1. u \in Users /\ satici[u] # YokSatici /\ satici[u] \in SaticiRow
    BY <1>7 DEF SaticiInv, SaticiBilir, SaticiOps, SaticiOnayla, Sira
  <2>2. CASE OnaylanirMi(u)
    <3>1. /\ SaticiYaz(u, yeni) /\ <<u, "MERCHANT", NoStore>> \in rol'
          /\ satici[u].durum = "UNDER_REVIEW" /\ satici[u].dogrulama = "ONAYLANDI"
      BY <1>7, <2>2 DEF SaticiOnayla, OnaylanirMi
    <3>2. yeni \in SaticiRow /\ yeni.durum = "ACTIVE" /\ yeni.dogrulama = "ONAYLANDI"
      BY <2>1, <3>1 DEF SaticiRow, SellerStatus
    <3> HIDE DEF yeni, u
    <3>3. Gecer(u, yeni)
      BY <2>1, <3>1, <3>2, Siradakiler DEF Gecer
    <3> QED BY <2>1, <3>1, <3>2, <3>3, YazinceYazilir
  <2>3. CASE ~ OnaylanirMi(u)
    BY <1>7, <2>3 DEF SaticiOnayla
  <2> QED BY <2>2, <2>3
<1>8. ASSUME NEW r \in Requests, OnayaGonder(r) \/ DurumDegistir(r)
      PROVE  satici' = satici \/ SaticiYazilir
  <2>1. req[r].u \in Users /\ satici[req[r].u] # YokSatici
    BY <1>8 DEF SaticiInv, SaticiBilir, SaticiOps, OnayaGonder, DurumDegistir, Sira
  <2>2. CASE OnayaGonder(r)
    BY <2>1, <2>2, GecisYazilir, Siradakiler DEF OnayaGonder, SellerStatus
  <2>3. CASE DurumDegistir(r)
    <3>1. /\ req[r].durum \in SellerStatus /\ req[r].hedef \in NEXT_STATUS[req[r].durum]
          /\ ~ (req[r].durum = "UNDER_REVIEW" /\ req[r].hedef = "ACTIVE")
      BY <2>3 DEF SaticiInv, SaticiBilir, DurumDegistir, Sira
    <3> QED BY <2>1, <2>3, <3>1, GecisYazilir DEF DurumDegistir
  <2> QED BY <1>8, <2>2, <2>3
<1>9. ASSUME NEW r \in Requests, SaticiGuncelle(r) \/ Tazele(r) PROVE SaticiYazilir
  <2>1. req[r].u \in Users /\ satici[req[r].u] # YokSatici
    BY <1>9 DEF SaticiInv, SaticiBilir, SaticiOps, SaticiGuncelle, Tazele, Sira
  <2>2. CASE SaticiGuncelle(r)
    BY <1>2, <2>1, <2>2 DEF SaticiGuncelle, SellerVerification
  <2>3. CASE Tazele(r)
    <3>1. req[r].hedef \in SellerVerification
      BY <2>3 DEF SaticiInv, SaticiBilir, Tazele, Sira
    <3> QED BY <1>3, <2>1, <2>3, <3>1 DEF Tazele
  <2> QED BY <1>9, <2>2, <2>3
<1>10. ASSUME SaticiYazNext PROVE satici' = satici \/ SaticiYazilir
  BY <1>7, <1>8, <1>9, <1>10 DEF SaticiYazNext, TazeleOku, MagazaYaz, saticilik, saticiVars
<1> QED BY <1>4, <1>6, <1>10 DEF SaticiNext

\* What a request learns, it knows.
Ogrenir ==
  /\ DOMAIN req' = Requests
  /\ \A r \in Requests : req'[r] = req[r] \/ SaticiBilir(req'[r])

LEMMA GecOgrenir ==
  ASSUME SaticiInv, NEW r, NEW q, SaticiBilir(q), Gec(r, q)
  PROVE  Ogrenir
BY DEF Gec, Ogrenir, SaticiInv

LEMMA BaslaOgrenir ==
  ASSUME SaticiInv, NEW r, NEW q, SaticiBilir(q), Basla(r, q)
  PROVE  Ogrenir
BY GecOgrenir DEF Basla, Gec

LEMMA BitirOgrenir ==
  ASSUME SaticiInv, NEW r, Bitir(r)
  PROVE  Ogrenir
<1>1. SaticiBilir(Bos)
  BY DEF Bos, SaticiBilir, SaticiOps
<1> QED BY <1>1, GecOgrenir DEF Bitir

LEMMA DurursaOgrenir ==
  ASSUME SaticiInv, req' = req
  PROVE  Ogrenir
BY DEF SaticiInv, Ogrenir

LEMMA DogrulamaTuru ==
  ASSUME NEW u PROVE Dogrulama(u) \in SellerVerification
BY DEF Dogrulama, SellerVerification

LEMMA SaticiOgrenir ==
  ASSUME SaticiInv, SaticiNext
  PROVE  Ogrenir
<1>1. ASSUME NEW op \in {"saticiGuncelle", "onayaGonder", "tazeleOku", "saticiOnayla", "magazaYaz"},
             NEW u \in Users, satici[u] # YokSatici
      PROVE  SaticiBilir([op |-> op, u |-> u])
  BY <1>1 DEF SaticiBilir
<1>2. ASSUME NEW u \in Users, satici[u].durum \in SellerStatus
      PROVE  satici[u] # YokSatici
  BY <1>2 DEF YokSatici, SellerStatus
<1>3. ASSUME BasvuruNext PROVE Ogrenir
  <2>1. ASSUME NEW u \in Users, NEW r, SaticiGuncelleOku(r, u) \/ OnayaGonderOku(r, u)
        PROVE  Ogrenir
    BY <1>1, <2>1, BaslaOgrenir DEF SaticiGuncelleOku, OnayaGonderOku, Basvuran
  <2>2. ASSUME NEW u \in Users, NEW r, MagazaKur(r, u) PROVE Ogrenir
    <3>1. satici[u] # YokSatici
      BY <1>2, <2>2 DEF MagazaKur, SellerStatus
    <3> QED BY <1>1, <2>2, <3>1, BaslaOgrenir DEF MagazaKur
  <2>3. ASSUME NEW u \in Users, NEW r, NEW tip, BelgeEkle(r, u, tip) PROVE Ogrenir
    BY <1>1, <2>3, BaslaOgrenir DEF BelgeEkle, Basvuran
  <2> QED
    BY <1>3, <2>1, <2>2, <2>3, DurursaOgrenir DEF BasvuruNext, SaticiOlustur, SaticiSozlesmeOnayla
<1>4. ASSUME IncelemeNext PROVE Ogrenir
  <2>1. ASSUME NEW r, NEW a, NEW u \in Users, NEW hedef \in SellerStatus, DurumDegistirOku(r, a, u, hedef)
        PROVE  Ogrenir
    <3> DEFINE q == [op |-> "durumDegistir", u |-> u, durum |-> satici[u].durum, hedef |-> hedef]
    <3>1. Basla(r, q) /\ satici[u] # YokSatici /\ hedef \in NEXT_STATUS[satici[u].durum]
          /\ ~ (satici[u].durum = "UNDER_REVIEW" /\ hedef = "ACTIVE")
      BY <2>1 DEF DurumDegistirOku
    <3>2. satici[u].durum \in SellerStatus
      BY <3>1 DEF SaticiInv, SaticiRow
    <3>3. SaticiBilir(q)
      BY <3>1, <3>2 DEF SaticiBilir
    <3> QED BY <3>1, <3>3, BaslaOgrenir
  <2>2. ASSUME NEW r, NEW a, NEW u \in Users, SaticiOnaylaOku(r, a, u) PROVE Ogrenir
    <3>1. satici[u] # YokSatici
      BY <1>2, <2>2 DEF SaticiOnaylaOku, SellerStatus
    <3> QED BY <1>1, <2>2, <3>1, BaslaOgrenir DEF SaticiOnaylaOku
  <2>3. ASSUME NEW r, NEW a, NEW b \in DOMAIN belge, NEW durum, BelgeKarar(r, a, b, durum) PROVE Ogrenir
    <3>1. belge[b] \in BelgeRow /\ satici[belge[b].u] # YokSatici
      BY DEF SaticiInv
    <3>2. belge[b].u \in Users
      BY <3>1 DEF BelgeRow
    <3> QED BY <1>1, <2>3, <3>1, <3>2, BaslaOgrenir DEF BelgeKarar
  <2> QED
    BY <1>4, <2>1, <2>2, <2>3, DurursaOgrenir DEF IncelemeNext, SaticiDogrulama, SaticiKarar
<1>5. ASSUME SaticiYazNext PROVE Ogrenir
  <2>1. ASSUME NEW r \in Requests, TazeleOku(r) PROVE Ogrenir
    <3> DEFINE q == [op |-> "tazele", u |-> req[r].u, hedef |-> Dogrulama(req[r].u)]
    <3>1. Gec(r, q)
      BY <2>1 DEF TazeleOku
    <3>2. req[r].u \in Users /\ satici[req[r].u] # YokSatici
      BY <2>1 DEF SaticiInv, SaticiBilir, SaticiOps, TazeleOku, Sira
    <3>3. SaticiBilir(q)
      BY <3>2, DogrulamaTuru DEF SaticiBilir
    <3> QED BY <3>1, <3>3, GecOgrenir
  <2> QED
    BY <1>5, <2>1, BitirOgrenir
    DEF SaticiYazNext, SaticiGuncelle, OnayaGonder, Tazele, DurumDegistir, SaticiOnayla, MagazaYaz
<1> QED BY <1>3, <1>4, <1>5 DEF SaticiNext

\* Documents are those of sellers.
LEMMA SaticiBelgeler ==
  ASSUME SaticiInv, SaticiNext
  PROVE  /\ belge' \in Seq(BelgeRow)
         /\ \A b \in DOMAIN belge' : satici[belge'[b].u] # YokSatici
<1>1. belge \in Seq(BelgeRow) /\ \A b \in DOMAIN belge : satici[belge[b].u] # YokSatici
  BY DEF SaticiInv
<1>2. ASSUME NEW r, NEW u \in Users, NEW tip \in ZORUNLU_BELGELER \cup {"DIGER"}, BelgeEkle(r, u, tip)
      PROVE  /\ belge' \in Seq(BelgeRow)
             /\ \A b \in DOMAIN belge' : satici[belge'[b].u] # YokSatici
  <2> DEFINE yeni == [u |-> u, tip |-> tip, durum |-> "BEKLIYOR"]
  <2>1. yeni \in BelgeRow /\ yeni.u = u
    BY DEF BelgeRow
  <2>2. belge' = Append(belge, yeni) /\ satici[u] # YokSatici
    BY <1>2 DEF BelgeEkle, Basvuran
  <2> HIDE DEF yeni
  <2>3. belge' \in Seq(BelgeRow)
    BY <1>1, <2>1, <2>2
  <2>4. ASSUME NEW b \in DOMAIN belge' PROVE satici[belge'[b].u] # YokSatici
    <3>1. (b \in DOMAIN belge /\ belge'[b] = belge[b]) \/ belge'[b] = yeni
      BY <1>1, <2>2
    <3> QED BY <1>1, <2>1, <2>2, <3>1
  <2> QED BY <2>3, <2>4
<1>3. ASSUME NEW r, NEW a, NEW c \in DOMAIN belge, NEW durum \in {"ONAYLANDI", "REDDEDILDI"},
             BelgeKarar(r, a, c, durum)
      PROVE  /\ belge' \in Seq(BelgeRow)
             /\ \A b \in DOMAIN belge' : satici[belge'[b].u] # YokSatici
  <2>1. belge' = [belge EXCEPT ![c].durum = durum]
    BY <1>3 DEF BelgeKarar
  <2>2. \A b \in DOMAIN belge : belge[b] \in BelgeRow
    BY <1>1
  <2>3. /\ DOMAIN belge' = DOMAIN belge
        /\ \A b \in DOMAIN belge : belge'[b] \in BelgeRow /\ belge'[b].u = belge[b].u
    BY <2>1, <2>2 DEF BelgeRow
  <2>4. belge' \in Seq(BelgeRow)
    BY <1>1, <2>1, <2>3
  <2> QED BY <1>1, <2>3, <2>4
<1>4. ASSUME BasvuruNext
      PROVE  \/ belge' = belge
             \/ \E r \in Requests, u \in Users, tip \in ZORUNLU_BELGELER \cup {"DIGER"} : BelgeEkle(r, u, tip)
  BY <1>4
  DEF BasvuruNext, SaticiOlustur, SaticiSozlesmeOnayla, SaticiGuncelleOku, OnayaGonderOku, MagazaKur,
      saticilik, saticiVars
<1>5. ASSUME IncelemeNext
      PROVE  \/ belge' = belge
             \/ \E r \in Requests, a \in Users, b \in DOMAIN belge, durum \in {"ONAYLANDI", "REDDEDILDI"} :
                  BelgeKarar(r, a, b, durum)
  BY <1>5
  DEF IncelemeNext, SaticiDogrulama, SaticiKarar, DurumDegistirOku, SaticiOnaylaOku, saticilik, saticiVars
<1>6. ASSUME SaticiYazNext PROVE belge' = belge
  BY <1>6
  DEF SaticiYazNext, SaticiGuncelle, OnayaGonder, TazeleOku, Tazele, DurumDegistir, SaticiOnayla,
      MagazaYaz, saticilik, saticiVars
<1> QED BY <1>1, <1>2, <1>3, <1>4, <1>5, <1>6 DEF SaticiNext

-----------------------------------------------------------------------------
(* What the other parts leave alone *)

LEMMA SaticiKorur ==
  ASSUME SaticiNext
  PROVE  kul' = kul /\ girisVars' = girisVars
<1>1. ASSUME BasvuruNext PROVE kul' = kul /\ girisVars' = girisVars
  BY <1>1
  DEF BasvuruNext, SaticiOlustur, SaticiSozlesmeOnayla, SaticiGuncelleOku, OnayaGonderOku, MagazaKur,
      BelgeEkle, kullaniciVars
<1>2. ASSUME IncelemeNext PROVE kul' = kul /\ girisVars' = girisVars
  BY <1>2
  DEF IncelemeNext, SaticiDogrulama, SaticiKarar, DurumDegistirOku, SaticiOnaylaOku, BelgeKarar,
      kullaniciVars
<1>3. ASSUME SaticiYazNext PROVE kul' = kul /\ girisVars' = girisVars
  BY <1>3
  DEF SaticiYazNext, SaticiGuncelle, OnayaGonder, TazeleOku, Tazele, DurumDegistir, SaticiOnayla,
      MagazaYaz, kullaniciVars
<1> QED BY <1>1, <1>2, <1>3 DEF SaticiNext

AktifYazilir(s, aktif) == Var(s) /\ magaza' = [magaza EXCEPT ![s].aktif = aktif]

LEMMA KadroKorur ==
  ASSUME KadroNext
  PROVE  /\ kul' = kul /\ girisVars' = girisVars /\ saticiVars' = saticiVars
         /\ \/ magaza' = magaza
            \/ \E s \in DOMAIN magaza, aktif \in BOOLEAN : AktifYazilir(s, aktif)
<1> DEFINE Sabit == kul' = kul /\ girisVars' = girisVars /\ saticiVars' = saticiVars
<1>1. ASSUME PersonelNext PROVE Sabit /\ magaza' = magaza
  <2>1. ASSUME NEW u, NEW s, NEW k, PersonelEkle(u, s, k) PROVE Sabit /\ magaza' = magaza
    BY <2>1 DEF PersonelEkle, saticilik
  <2>2. ASSUME NEW u, NEW s, NEW k, NEW aktif, PersonelDurum(u, s, k, aktif)
        PROVE  Sabit /\ magaza' = magaza
    BY <2>2 DEF PersonelDurum, saticilik
  <2>3. ASSUME NEW u, NEW s, NEW k, NEW p, RolAl(u, s, k, p) PROVE Sabit /\ magaza' = magaza
    BY <2>3 DEF RolAl, saticilik
  <2>4. ASSUME NEW r, NEW u, NEW s, NEW k, NEW p, RolVerOku(r, u, s, k, p)
        PROVE  Sabit /\ magaza' = magaza
    BY <2>4 DEF RolVerOku, kadroVars, kullaniciVars, saticilik
  <2> HIDE DEF Sabit
  <2> QED BY <1>1, <2>1, <2>2, <2>3, <2>4 DEF PersonelNext
<1>2. ASSUME NEW r, RolVer(r) PROVE Sabit /\ magaza' = magaza
  BY <1>2 DEF RolVer, saticilik
<1>3. ASSUME NEW u, NEW s \in DOMAIN magaza, NEW aktif \in BOOLEAN, MagazaGuncelle(u, s, aktif)
      PROVE  Sabit /\ AktifYazilir(s, aktif)
  BY <1>3 DEF MagazaGuncelle, AktifYazilir, PanelIzni, Erisebilir, kullaniciVars
<1> HIDE DEF Sabit
<1>4. /\ Sabit
      /\ \/ magaza' = magaza
         \/ \E s \in DOMAIN magaza, aktif \in BOOLEAN : AktifYazilir(s, aktif)
  BY <1>1, <1>2, <1>3 DEF KadroNext
<1> QED BY <1>4 DEF Sabit

LEMMA OnayKorur ==
  ASSUME OnayNext
  PROVE  kadroVars' = kadroVars
BY DEF OnayNext, BolgeGuncelleOku, SubmitDogrula, BolgeGuncelle, SubmitBul, SubmitYaz, Approve, Reject,
       ApproveOku, RejectOku, KapsamDegisir

LEMMA KatalogKorur ==
  ASSUME KatalogNext
  PROVE  kadroVars' = kadroVars
<1>1. ASSUME UrunNext PROVE kadroVars' = kadroVars
  BY <1>1
  DEF UrunNext, UrunEkle, UrunOnaylaOku, UrunReddetOku, UrunKaldirOku, UrunGuncelleOku, UrunYaz,
      StokYaz, Satis, Iade
<1>2. ASSUME VaryantNext PROVE kadroVars' = kadroVars
  BY <1>2 DEF VaryantNext, VaryantOlustur, VaryantSil, VaryantGuncelleOku, VaryantYaz
<1>3. ASSUME SecenekNext PROVE kadroVars' = kadroVars
  BY <1>3
  DEF SecenekNext, SecenekGrubuOlustur, SecenekGrubuGuncelleOku, GrupYaz, SecenekGrubuSil, SecenekEkle,
      SecenekGuncelle, SecenekSil, UrunSecenekGruplari
<1>4. ASSUME MedyaNext \/ KategoriNext PROVE kadroVars' = kadroVars
  BY <1>4
  DEF MedyaNext, MedyaEkle, MedyaGuncelle, BirincilDigerleri, BirincilResim, MedyaSil, KategoriNext,
      KategoriEkle
<1> QED BY <1>1, <1>2, <1>3, <1>4 DEF KatalogNext

LEMMA SepetKorur ==
  ASSUME SepetNext
  PROVE  kadroVars' = kadroVars /\ katalogVars' = katalogVars
<1> DEFINE Korunur == kadroVars' = kadroVars /\ katalogVars' = katalogVars
<1>1. ASSUME NEW r, NEW u, NEW p, NEW vs, NEW secilen, EkleOku(r, u, p, vs, secilen) PROVE Korunur
  BY <1>1 DEF EkleOku
<1>2. ASSUME NEW r, \/ EkleMagaza(r) \/ EkleAra(r) \/ EkleYaz(r) \/ EkleArtir(r) \/ SepetMagazaSil(r)
      PROVE  Korunur
  BY <1>2 DEF EkleMagaza, EkleAra, EkleYaz, EkleArtir, SepetMagazaSil
<1>3. ASSUME NEW u, NEW k, KalemSil(u, k) \/ \E adet \in 0..ADET_SINIRI : KalemGuncelle(u, k, adet)
      PROVE  Korunur
  BY <1>3 DEF KalemSil, KalemGuncelle
<1>4. ASSUME NEW r, NEW u, NEW d, SepetBosalt(r, u, d) PROVE Korunur
  BY <1>4 DEF SepetBosalt
<1> HIDE DEF Korunur
<1>5. Korunur
  BY <1>1, <1>2, <1>3, <1>4 DEF SepetNext
<1> QED BY <1>5 DEF Korunur

-----------------------------------------------------------------------------
(* A seller's status *)

\* Requests that are not about sellers, over unchanged rows of sellers.
LEMMA SaticiKalir ==
  ASSUME SaticiInv, satici' = satici, belge' = belge, NEW ops, Surer(ops),
         \A o \in ops : o = "bos" \/ o \notin SaticiOps
  PROVE  SaticiInv'
<1>1. ASSUME NEW r \in Requests PROVE SaticiBilir(req[r])'
  <2>1. CASE req'[r] = req[r]
    BY <2>1 DEF SaticiInv, SaticiBilir
  <2>2. CASE req'[r].op \in ops
    <3>1. req'[r].op \notin SaticiOps \ {"bos"}
      BY <2>2
    <3>2. req'[r].op # "tazele" /\ req'[r].op # "durumDegistir"
      BY <3>1 DEF SaticiOps
    <3> QED BY <3>1, <3>2 DEF SaticiBilir
  <2> QED BY <2>1, <2>2 DEF Surer
<1> QED BY <1>1 DEF SaticiInv, Surer

LEMMA SaticiDegisir ==
  ASSUME SaticiInv, SaticiNext
  PROVE  SaticiInv'
<1>1. /\ satici \in [Users -> SaticiRow]
      /\ \A u \in Users : satici[u].durum = "YOK" => satici[u] = YokSatici
      /\ \A r \in Requests : SaticiBilir(req[r])
  BY DEF SaticiInv
<1>2. /\ satici' \in [Users -> SaticiRow]
      /\ \A u \in Users : satici'[u].durum = "YOK" => satici'[u] = YokSatici
      /\ \A u \in Users : satici[u] # YokSatici => satici'[u] # YokSatici
  <2>1. CASE satici' = satici
    BY <1>1, <2>1
  <2>2. CASE SaticiYazilir
    <3>1. PICK u \in Users, yeni \in SaticiRow :
            satici' = [satici EXCEPT ![u] = yeni] /\ yeni.durum # "YOK"
      BY <2>2 DEF SaticiYazilir
    <3>2. yeni # YokSatici
      BY <3>1 DEF YokSatici
    <3> QED BY <1>1, <3>1, <3>2
  <2> QED BY <2>1, <2>2, SaticiAdimi
<1>3. ASSUME NEW q, SaticiBilir(q)
      PROVE  /\ q.op \in SaticiOps \ {"bos"} => q.u \in Users /\ satici'[q.u] # YokSatici
             /\ q.op = "tazele" => q.hedef \in SellerVerification
             /\ q.op = "durumDegistir" =>
                  /\ q.durum \in SellerStatus /\ q.hedef \in NEXT_STATUS[q.durum]
                  /\ ~ (q.durum = "UNDER_REVIEW" /\ q.hedef = "ACTIVE")
  BY <1>2, <1>3 DEF SaticiBilir
<1>4. DOMAIN req' = Requests /\ \A r \in Requests : SaticiBilir(req'[r])
  BY <1>1, SaticiOgrenir DEF Ogrenir
<1>5. \A r \in Requests : SaticiBilir(req[r])'
  BY <1>3, <1>4 DEF SaticiBilir
<1>6. belge' \in Seq(BelgeRow) /\ \A b \in DOMAIN belge' : satici[belge'[b].u] # YokSatici
  BY SaticiBelgeler
<1>7. \A b \in DOMAIN belge' : satici'[belge'[b].u] # YokSatici
  <2>1. ASSUME NEW b \in DOMAIN belge' PROVE satici'[belge'[b].u] # YokSatici
    <3>1. belge'[b] \in BelgeRow
      BY <1>6
    <3>2. belge'[b].u \in Users
      BY <3>1 DEF BelgeRow
    <3> QED BY <1>2, <1>6, <3>2
  <2> QED BY <2>1
<1> QED BY <1>2, <1>4, <1>5, <1>6, <1>7 DEF SaticiInv

\* Which rows of sellers, documents and stores a step writes.
LEMMA Adimlar ==
  ASSUME DOMAIN req = Requests, [Next]_vars
  PROVE  \/ SaticiNext
         \/ /\ satici' = satici /\ belge' = belge
            /\ \E ops \in {KullaniciOps, KadroOps, OnayOps, KatalogOps, SepetOps} : Surer(ops)
<1>1. CASE KullaniciNext /\ UNCHANGED saticilik
  BY <1>1, KullaniciSurer DEF saticilik, saticiVars
<1>2. CASE KadroNext
  BY <1>2, KadroSurer, KadroKorur DEF saticiVars
<1>3. CASE OnayNext
  BY <1>3, OnaySurer, OnayKorur DEF kadroVars, saticilik, saticiVars
<1>4. CASE KatalogNext
  BY <1>4, KatalogSurer, KatalogKorur DEF kadroVars, saticilik, saticiVars
<1>5. CASE SepetNext
  BY <1>5, SepetSurer, SepetKorur DEF kadroVars, saticilik, saticiVars
<1>6. ASSUME NEW r \in Requests, Durur(r)
      PROVE  satici' = satici /\ belge' = belge /\ Surer(KadroOps)
  BY <1>6, BitirSurer DEF Durur, KadroOps, kadroVars, saticilik, saticiVars
<1>7. CASE UNCHANGED vars
  BY <1>7, DurursaSurer DEF vars, kadroVars, saticilik, saticiVars
<1> QED BY <1>1, <1>2, <1>3, <1>4, <1>5, <1>6, <1>7 DEF Next

LEMMA SaticiAdim ==
  ASSUME SaticiInv, [Next]_vars
  PROVE  SaticiInv'
<1>1. CASE SaticiNext
  BY <1>1, SaticiDegisir
<1>2. ASSUME satici' = satici, belge' = belge,
             NEW ops \in {KullaniciOps, KadroOps, OnayOps, KatalogOps, SepetOps}, Surer(ops)
      PROVE  SaticiInv'
  <2>1. \A o \in ops : o = "bos" \/ o \notin SaticiOps
    BY <1>2 DEF KullaniciOps, KadroOps, OnayOps, KatalogOps, SepetOps, SaticiOps
  <2> QED BY <1>2, <2>1, SaticiKalir
<1>3. DOMAIN req = Requests
  BY DEF SaticiInv
<1> QED BY <1>1, <1>2, <1>3, Adimlar

LEMMA SaticiBaslar ==
  ASSUME Init
  PROVE  SaticiInv
<1>1. PICK x \in Sahneler :
        req = [r \in Requests |-> Bos] /\ satici = x.satici /\ belge = x.belge
  BY DEF Init
<1>2. DOMAIN req = Requests /\ \A r \in Requests : SaticiBilir(req[r])
  BY <1>1 DEF Bos, SaticiBilir, SaticiOps
<1> QED BY <1>1, <1>2, SaticiSahneleri DEF SaticiInv

\* Whoever else decides about a seller at the same time, his status moves along NEXT_STATUS,
\* and an application is granted only to a seller who is verified then and becomes a
\* merchant with it (gecis, saticiKarar, saticiOnayla).
THEOREM StatusMovesOn == Spec => SaticiGecisleri
<1> DEFINE Gecti(u) ==
      satici'[u].durum # satici[u].durum =>
         \/ satici[u] = YokSatici /\ satici'[u].durum = "DRAFT"
         \/ /\ satici[u] # YokSatici
            /\ satici'[u].durum \in NEXT_STATUS[satici[u].durum]
            /\ satici[u].durum = "UNDER_REVIEW" /\ satici'[u].durum = "ACTIVE" =>
                 satici'[u].dogrulama = "ONAYLANDI" /\ <<u, "MERCHANT", NoStore>> \in rol'
<1>1. SaticiInv /\ [Next]_vars => \A u \in Users : Gecti(u)
  <2> SUFFICES ASSUME SaticiInv, [Next]_vars, NEW v \in Users PROVE Gecti(v)
    OBVIOUS
  <2>1. CASE satici' = satici
    BY <2>1
  <2>2. CASE SaticiYazilir
    <3>1. PICK u \in Users, yeni \in SaticiRow :
            satici' = [satici EXCEPT ![u] = yeni] /\ Gecer(u, yeni)
      BY <2>2 DEF SaticiYazilir
    <3>2. satici'[v] = IF v = u THEN yeni ELSE satici[v]
      BY <3>1 DEF SaticiInv
    <3>3. CASE v = u
      BY <3>1, <3>2, <3>3 DEF Gecer
    <3>4. CASE v # u
      BY <3>2, <3>4
    <3> QED BY <3>3, <3>4
  <2>3. DOMAIN req = Requests
    BY DEF SaticiInv
  <2> QED BY <2>1, <2>2, <2>3, Adimlar, SaticiAdimi
<1>2. Spec => []SaticiInv
  BY SaticiBaslar, SaticiAdim, PTL DEF Spec
<1> QED BY <1>1, <1>2, PTL DEF Spec, SaticiGecisleri

-----------------------------------------------------------------------------
(* The first store *)

\* A store has the owner it was opened for, nobody has two, and while somebody's row is
\* locked for his first store he is active, has none, and nobody else holds his lock.
MagazaInv ==
  /\ magaza \in [DOMAIN magaza -> MagazaRow]
  /\ \A s, t \in DOMAIN magaza :
       magaza[s].sahip # NoUser /\ magaza[t].sahip = magaza[s].sahip => s = t
  /\ \A r \in Requests :
       Sira(r, "magazaYaz") =>
         /\ req[r].u \in Users /\ satici[req[r].u].durum = "ACTIVE"
         /\ \A s \in DOMAIN magaza : magaza[s].sahip # req[r].u
  /\ \A r, q \in Requests :
       Sira(r, "magazaYaz") /\ Sira(q, "magazaYaz") /\ req[q].u = req[r].u => q = r

\* No request has come to the creation of a store.
Kurmaz == \A r \in Requests : req'[r] = req[r] \/ req'[r].op # "magazaYaz"

\* Stores keep their owners.
Sahipler ==
  /\ magaza' \in [DOMAIN magaza -> MagazaRow]
  /\ \A s \in DOMAIN magaza : magaza'[s].sahip = magaza[s].sahip

LEMMA SahiplerKalir ==
  ASSUME MagazaInv, magaza' = magaza \/ \E s \in DOMAIN magaza, aktif \in BOOLEAN : AktifYazilir(s, aktif)
  PROVE  Sahipler
<1>1. magaza \in [DOMAIN magaza -> MagazaRow]
  BY DEF MagazaInv
<1>2. ASSUME NEW s \in DOMAIN magaza, NEW aktif \in BOOLEAN, AktifYazilir(s, aktif) PROVE Sahipler
  <2>1. magaza[s] \in MagazaRow
    BY <1>1
  <2> DEFINE yeni == [magaza[s] EXCEPT !.aktif = aktif]
  <2>2. yeni \in MagazaRow /\ yeni.sahip = magaza[s].sahip
    BY <2>1 DEF MagazaRow
  <2>3. magaza' = [magaza EXCEPT ![s] = yeni]
    BY <1>2 DEF AktifYazilir
  <2> HIDE DEF yeni
  <2> QED BY <1>1, <2>2, <2>3 DEF Sahipler
<1>3. CASE magaza' = magaza
  BY <1>1, <1>3 DEF Sahipler
<1> QED BY <1>2, <1>3

\* A step that opens no store and lets nobody begin, and writes no locked row.
LEMMA MagazaKalir ==
  ASSUME SaticiInv, MagazaInv, Kurmaz, Sahipler,
         \/ satici' = satici
         \/ \E u \in Users, yeni \in SaticiRow : Kilitsiz(u) /\ satici' = [satici EXCEPT ![u] = yeni]
  PROVE  MagazaInv'
<1>1. DOMAIN magaza' = DOMAIN magaza /\ magaza' \in [DOMAIN magaza' -> MagazaRow]
  BY DEF Sahipler
<1>2. \A s, t \in DOMAIN magaza' :
        magaza'[s].sahip # NoUser /\ magaza'[t].sahip = magaza'[s].sahip => s = t
  BY <1>1 DEF MagazaInv, Sahipler
<1>3. ASSUME NEW r \in Requests, Sira(r, "magazaYaz")'
      PROVE  req'[r] = req[r] /\ Sira(r, "magazaYaz")
  BY <1>3 DEF Kurmaz, Sira
<1>4. ASSUME NEW r \in Requests, Sira(r, "magazaYaz")'
      PROVE  /\ req'[r].u \in Users /\ satici'[req'[r].u].durum = "ACTIVE"
             /\ \A s \in DOMAIN magaza' : magaza'[s].sahip # req'[r].u
  <2>1. req'[r].u = req[r].u /\ Sira(r, "magazaYaz")
    BY <1>3, <1>4
  <2>2. req[r].u \in Users /\ satici[req[r].u].durum = "ACTIVE"
    BY <2>1 DEF MagazaInv
  <2>3. satici'[req[r].u] = satici[req[r].u]
    BY <2>1, <2>2 DEF Kilitsiz, SaticiInv
  <2>4. \A s \in DOMAIN magaza' : magaza'[s].sahip # req[r].u
    BY <1>1, <2>1 DEF MagazaInv, Sahipler
  <2> QED BY <2>1, <2>2, <2>3, <2>4
<1>5. ASSUME NEW r \in Requests, NEW q \in Requests,
             Sira(r, "magazaYaz")', Sira(q, "magazaYaz")', req'[q].u = req'[r].u
      PROVE  q = r
  BY <1>3, <1>5 DEF MagazaInv
<1> QED BY <1>1, <1>2, <1>4, <1>5 DEF MagazaInv

LEMMA SaticiKurmaz ==
  ASSUME DOMAIN req = Requests, SaticiNext
  PROVE  \/ \E r \in Requests, u \in Users : MagazaKur(r, u)
         \/ \E r \in Requests : MagazaYaz(r)
         \/ magaza' = magaza /\ Kurmaz
<1> DEFINE ops == SaticiOps \ {"magazaYaz"}
<1>1. \A o : o \in {"bos", "saticiGuncelle", "onayaGonder", "tazeleOku", "tazele", "durumDegistir",
                    "saticiOnayla"}
             => o \in ops
  BY DEF SaticiOps
<1>2. Surer(ops) => Kurmaz
  BY DEF Surer, Kurmaz
<1> HIDE DEF ops
<1>3. ASSUME BasvuruNext
      PROVE  (\E r \in Requests, u \in Users : MagazaKur(r, u)) \/ (magaza' = magaza /\ Surer(ops))
  BY <1>1, <1>3, BaslaSurer, DurursaSurer
  DEF BasvuruNext, SaticiOlustur, SaticiSozlesmeOnayla, SaticiGuncelleOku, OnayaGonderOku, BelgeEkle,
      saticilik
<1>4. ASSUME IncelemeNext PROVE magaza' = magaza /\ Surer(ops)
  BY <1>1, <1>4, BaslaSurer, DurursaSurer
  DEF IncelemeNext, SaticiDogrulama, SaticiKarar, DurumDegistirOku, SaticiOnaylaOku, BelgeKarar, saticilik
<1>5. ASSUME SaticiYazNext
      PROVE  (\E r \in Requests : MagazaYaz(r)) \/ (magaza' = magaza /\ Surer(ops))
  BY <1>1, <1>5, GecSurer, BitirSurer
  DEF SaticiYazNext, SaticiGuncelle, OnayaGonder, TazeleOku, Tazele, DurumDegistir, SaticiOnayla, saticilik
<1> QED BY <1>2, <1>3, <1>4, <1>5 DEF SaticiNext

LEMMA MagazaKurAdim ==
  ASSUME SaticiInv, MagazaInv, NEW r \in Requests, NEW u \in Users, MagazaKur(r, u)
  PROVE  MagazaInv'
<1> DEFINE q == [op |-> "magazaYaz", u |-> u]
<1>1. /\ req' = [req EXCEPT ![r] = q] /\ satici' = satici /\ magaza' = magaza
      /\ Kilitsiz(u) /\ satici[u].durum = "ACTIVE" /\ MagazalarOf(u) = {}
  BY DEF MagazaKur, Basla, KilitAlinir, saticilik, saticiVars
<1>2. \A p \in Requests : req'[p] = IF p = r THEN q ELSE req[p]
  BY <1>1 DEF SaticiInv
<1>3. \A s \in DOMAIN magaza : magaza[s].sahip # u
  BY <1>1 DEF MagazalarOf
<1>4. q.op = "magazaYaz" /\ q.u = u
  OBVIOUS
<1> HIDE DEF q
<1>5. ASSUME NEW p \in Requests, Sira(p, "magazaYaz")', p # r
      PROVE  req'[p] = req[p] /\ Sira(p, "magazaYaz") /\ req[p].u # u
  BY <1>1, <1>2, <1>5 DEF Sira, Kilitsiz
<1>6. ASSUME NEW p \in Requests, Sira(p, "magazaYaz")'
      PROVE  /\ req'[p].u \in Users /\ satici'[req'[p].u].durum = "ACTIVE"
             /\ \A s \in DOMAIN magaza' : magaza'[s].sahip # req'[p].u
  <2>1. CASE p = r
    BY <1>1, <1>2, <1>3, <1>4, <2>1
  <2>2. CASE p # r
    BY <1>1, <1>5, <1>6, <2>2 DEF MagazaInv
  <2> QED BY <2>1, <2>2
<1>7. ASSUME NEW p \in Requests, NEW t \in Requests,
             Sira(p, "magazaYaz")', Sira(t, "magazaYaz")', req'[t].u = req'[p].u
      PROVE  t = p
  <2>1. CASE p # r /\ t # r
    BY <1>5, <1>7, <2>1 DEF MagazaInv
  <2>2. CASE p = r \/ t = r
    BY <1>2, <1>4, <1>5, <1>7, <2>2
  <2> QED BY <2>1, <2>2
<1> QED BY <1>1, <1>6, <1>7 DEF MagazaInv

LEMMA MagazaYazAdim ==
  ASSUME SaticiInv, MagazaInv, NEW r \in Requests, MagazaYaz(r)
  PROVE  MagazaInv'
<1> DEFINE u == req[r].u
           yeni == [YokMagaza EXCEPT !.sahip = u, !.dikey = satici[u].dikey, !.aktif = TRUE]
<1>1. Sira(r, "magazaYaz") /\ satici' = satici /\ req' = [req EXCEPT ![r] = Bos]
  BY DEF MagazaYaz, saticiVars, Bitir, Gec
<1>2. u \in Users /\ \A s \in DOMAIN magaza : magaza[s].sahip # u
  BY <1>1 DEF MagazaInv
<1>3. PICK s \in DOMAIN magaza : magaza' = [magaza EXCEPT ![s] = yeni]
  <2>1. PICK c \in {s \in DOMAIN magaza : magaza[s] = YokMagaza} : magaza' = [magaza EXCEPT ![c] = yeni]
    BY DEF MagazaYaz
  <2> QED BY <2>1
<1>4. yeni \in MagazaRow /\ yeni.sahip = u
  <2>1. satici[u] \in SaticiRow
    BY <1>2 DEF SaticiInv
  <2>2. satici[u].dikey \in Dikeyler \cup {"YOK"}
    BY <2>1 DEF SaticiRow
  <2> HIDE DEF u
  <2> QED BY <1>2, <2>2 DEF YokMagaza, MagazaRow
<1> HIDE DEF yeni, u
<1>5. /\ magaza' \in [DOMAIN magaza' -> MagazaRow] /\ DOMAIN magaza' = DOMAIN magaza
      /\ \A t \in DOMAIN magaza : magaza'[t] = IF t = s THEN yeni ELSE magaza[t]
  BY <1>3, <1>4 DEF MagazaInv
<1>6. \A t, w \in DOMAIN magaza' :
        magaza'[t].sahip # NoUser /\ magaza'[w].sahip = magaza'[t].sahip => t = w
  <2> SUFFICES ASSUME NEW t \in DOMAIN magaza, NEW w \in DOMAIN magaza,
                      magaza'[t].sahip # NoUser, magaza'[w].sahip = magaza'[t].sahip
               PROVE  t = w
    BY <1>5
  <2>1. CASE t # s /\ w # s
    BY <1>5, <2>1 DEF MagazaInv
  <2>2. CASE t = s \/ w = s
    BY <1>2, <1>4, <1>5, <2>2
  <2> QED BY <2>1, <2>2
<1>7. \A p \in Requests : req'[p] = IF p = r THEN Bos ELSE req[p]
  BY <1>1 DEF SaticiInv
<1>8. ASSUME NEW p \in Requests, Sira(p, "magazaYaz")'
      PROVE  p # r /\ req'[p] = req[p] /\ Sira(p, "magazaYaz")
  <2>1. p # r
    BY <1>7, <1>8 DEF Sira, Bos
  <2> QED BY <1>7, <1>8, <2>1 DEF Sira
<1>9. ASSUME NEW p \in Requests, Sira(p, "magazaYaz")'
      PROVE  /\ req'[p].u \in Users /\ satici'[req'[p].u].durum = "ACTIVE"
             /\ \A t \in DOMAIN magaza' : magaza'[t].sahip # req'[p].u
  <2>1. req'[p].u = req[p].u /\ Sira(p, "magazaYaz") /\ p # r
    BY <1>8, <1>9
  <2>2. req[p].u # u
    BY <1>1, <2>1 DEF MagazaInv, u
  <2>3. /\ req[p].u \in Users /\ satici[req[p].u].durum = "ACTIVE"
        /\ \A t \in DOMAIN magaza : magaza[t].sahip # req[p].u
    BY <2>1 DEF MagazaInv
  <2> QED BY <1>1, <1>4, <1>5, <2>1, <2>2, <2>3
<1>10. ASSUME NEW p \in Requests, NEW q \in Requests,
              Sira(p, "magazaYaz")', Sira(q, "magazaYaz")', req'[q].u = req'[p].u
       PROVE  q = p
  BY <1>8, <1>10 DEF MagazaInv
<1> QED BY <1>5, <1>6, <1>9, <1>10 DEF MagazaInv

\* Steps of the other parts open no store.
LEMMA Digerleri ==
  ASSUME DOMAIN req = Requests, [Next]_vars
  PROVE  \/ SaticiNext
         \/ /\ satici' = satici /\ Kurmaz
            /\ magaza' = magaza \/ \E s \in DOMAIN magaza, aktif \in BOOLEAN : AktifYazilir(s, aktif)
<1>1. ASSUME NEW ops \in {KullaniciOps, KadroOps, OnayOps, KatalogOps, SepetOps}, Surer(ops)
      PROVE  Kurmaz
  <2>1. "magazaYaz" \notin ops
    BY DEF KullaniciOps, KadroOps, OnayOps, KatalogOps, SepetOps
  <2> QED BY <1>1, <2>1 DEF Surer, Kurmaz
<1>2. SaticiNext \/ (satici' = satici /\ Kurmaz)
  BY <1>1, Adimlar
<1>3. \/ SaticiNext \/ magaza' = magaza
      \/ \E s \in DOMAIN magaza, aktif \in BOOLEAN : AktifYazilir(s, aktif)
  <2>1. CASE KullaniciNext /\ UNCHANGED saticilik
    BY <2>1 DEF saticilik
  <2>2. CASE KadroNext
    BY <2>2, KadroKorur
  <2>3. CASE OnayNext \/ KatalogNext \/ SepetNext
    BY <2>3, OnayKorur, KatalogKorur, SepetKorur DEF kadroVars, saticilik
  <2>4. CASE \E r \in Requests : Durur(r)
    BY <2>4 DEF Durur, kadroVars, saticilik
  <2>5. CASE UNCHANGED vars
    BY <2>5 DEF vars, kadroVars, saticilik
  <2> QED BY <2>1, <2>2, <2>3, <2>4, <2>5 DEF Next
<1> QED BY <1>2, <1>3

LEMMA MagazaAdim ==
  ASSUME SaticiInv, MagazaInv, [Next]_vars
  PROVE  MagazaInv'
<1>1. DOMAIN req = Requests
  BY DEF SaticiInv
<1>2. CASE SaticiNext
  <2>1. ASSUME magaza' = magaza, Kurmaz PROVE MagazaInv'
    <3>1. \/ satici' = satici
          \/ \E u \in Users, yeni \in SaticiRow : Kilitsiz(u) /\ satici' = [satici EXCEPT ![u] = yeni]
      BY <1>2, SaticiAdimi DEF SaticiYazilir
    <3> QED BY <2>1, <3>1, MagazaKalir, SahiplerKalir
  <2> QED BY <1>1, <1>2, <2>1, SaticiKurmaz, MagazaKurAdim, MagazaYazAdim
<1>3. ASSUME satici' = satici, Kurmaz,
             magaza' = magaza \/ \E s \in DOMAIN magaza, aktif \in BOOLEAN : AktifYazilir(s, aktif)
      PROVE  MagazaInv'
  BY <1>3, MagazaKalir, SahiplerKalir
<1> QED BY <1>1, <1>2, <1>3, Digerleri

LEMMA MagazaBaslar ==
  ASSUME Init
  PROVE  MagazaInv
<1>1. PICK x \in Sahneler : req = [r \in Requests |-> Bos] /\ magaza = x.magaza
  BY DEF Init
<1>2. \A r \in Requests : ~ Sira(r, "magazaYaz")
  BY <1>1 DEF Bos, Sira
<1> QED BY <1>1, <1>2, MagazaSahneleri DEF MagazaInv

\* A seller opens one store, however often the request is sent and whatever administrators
\* do meanwhile, and he is active until it stands (create locks his row and checks).
THEOREM OneFirstStore == Spec => []TekIlkMagaza
<1>1. Spec => [](SaticiInv /\ MagazaInv)
  BY SaticiBaslar, SaticiAdim, MagazaBaslar, MagazaAdim, PTL DEF Spec
<1>2. SaticiInv /\ MagazaInv => TekIlkMagaza
  <2> SUFFICES ASSUME MagazaInv PROVE TekIlkMagaza
    OBVIOUS
  <2>1. ASSUME NEW u \in Users PROVE Cardinality(MagazalarOf(u)) <= 1
    <3>1. \A s, t \in MagazalarOf(u) : s = t
      BY SaticiAssumption DEF MagazaInv, MagazalarOf
    <3>2. CASE MagazalarOf(u) = {}
      BY <3>2, FS_EmptySet
    <3>3. CASE MagazalarOf(u) # {}
      <4>1. PICK s \in MagazalarOf(u) : TRUE
        BY <3>3
      <4>2. MagazalarOf(u) = {s}
        BY <3>1, <4>1
      <4>3. Cardinality({s}) = 1
        BY FS_Singleton
      <4> QED BY <4>2, <4>3
    <3> QED BY <3>2, <3>3
  <2>2. \A r \in Requests : Sira(r, "magazaYaz") => satici[req[r].u].durum = "ACTIVE"
    BY DEF MagazaInv
  <2> QED BY <2>1, <2>2 DEF TekIlkMagaza
<1> QED BY <1>1, <1>2, PTL

-----------------------------------------------------------------------------
(* Sanctions *)

\* The writes of users.status.
HesapYazilir ==
  \/ kul' = kul
  \/ \E v : kul[v] \notin GIRIS_KAPALI /\ kul' = [kul EXCEPT ![v] = "ACTIVE"]
  \/ \E a, v \in Users, durum \in Yaptirimlar : SetStatus(a, v, durum)

LEMMA HesapAdimi ==
  ASSUME [Next]_vars
  PROVE  HesapYazilir
<1>1. kul' = kul => HesapYazilir
  BY DEF HesapYazilir
<1>2. ASSUME NEW v, kul[v] \notin GIRIS_KAPALI, kul' = [kul EXCEPT ![v] = "ACTIVE"]
      PROVE  HesapYazilir
  BY <1>2 DEF HesapYazilir
<1>3. "YOK" \notin GIRIS_KAPALI /\ "PENDING" \notin GIRIS_KAPALI
  BY DEF GIRIS_KAPALI
<1>4. ASSUME NEW a \in Users, NEW v \in Users, NEW durum \in Yaptirimlar, SetStatus(a, v, durum)
      PROVE  HesapYazilir
  BY <1>4 DEF HesapYazilir
<1> HIDE DEF HesapYazilir
<1>5. ASSUME OtpNext PROVE HesapYazilir
  <2>1. ASSUME NEW r, NEW v, GuestSession(r, v) PROVE HesapYazilir
    BY <1>2, <1>3, <2>1 DEF GuestSession
  <2> QED
    BY <1>1, <1>5, <2>1
    DEF OtpNext, OtpIste, OtpDogrula, OtpYaz, OtpYanlis, OtpTuket, OtpYaslan, kullaniciVars
<1>6. ASSUME GirisNext PROVE HesapYazilir
  <2>1. ASSUME NEW r, GirisUpsert(r) PROVE HesapYazilir
    <3>1. CASE kul[req[r].u] = "YOK"
      BY <1>2, <1>3, <2>1, <3>1 DEF GirisUpsert
    <3>2. CASE kul[req[r].u] # "YOK"
      BY <1>1, <2>1, <3>2 DEF GirisUpsert
    <3> QED BY <3>1, <3>2
  <2>2. ASSUME NEW r, GirisAktif(r) PROVE HesapYazilir
    <3>1. CASE AktiflesirMi(req[r].u)
      BY <1>2, <1>3, <2>2, <3>1 DEF GirisAktif, AktiflesirMi
    <3>2. CASE ~ AktiflesirMi(req[r].u)
      BY <1>1, <2>2, <3>2 DEF GirisAktif
    <3> QED BY <3>1, <3>2
  <2> QED
    BY <1>1, <1>6, <2>1, <2>2
    DEF GirisNext, GirisYeniden, GirisRol, GirisJeton, MisafirRol, GirisRolYaz, kullaniciVars
<1>7. ASSUME OturumNext PROVE HesapYazilir
  BY <1>1, <1>7
  DEF OturumNext, RefreshOku, TransferKoduOku, RefreshIptal, DevirTuket, DevirSepet, Logout, DevirBiter,
      TransferKoduUret, kullaniciVars
<1>8. ASSUME YonetimNext PROVE HesapYazilir
  BY <1>1, <1>4, <1>8 DEF YonetimNext, AssignRoles
<1>9. ASSUME SaticiNext \/ KadroNext PROVE HesapYazilir
  BY <1>1, <1>9, SaticiKorur, KadroKorur
<1>10. ASSUME OnayNext \/ KatalogNext \/ SepetNext PROVE HesapYazilir
  BY <1>1, <1>10, OnayKorur, KatalogKorur, SepetKorur DEF kadroVars, kullaniciVars
<1>11. ASSUME UNCHANGED vars \/ \E r \in Requests : Durur(r) PROVE HesapYazilir
  BY <1>1, <1>11 DEF vars, Durur, kadroVars, kullaniciVars
<1> QED BY <1>5, <1>6, <1>7, <1>8, <1>9, <1>10, <1>11 DEF Next, KullaniciNext

LEMMA HesaplarKalir ==
  ASSUME DOMAIN kul = Users, [Next]_vars
  PROVE  /\ DOMAIN kul' = Users
         /\ \A u \in Users :
              kul[u] \in GIRIS_KAPALI /\ kul'[u] # kul[u] =>
                \E a \in Users, durum \in Yaptirimlar : SetStatus(a, u, durum)
<1>1. CASE kul' = kul
  BY <1>1
<1>2. ASSUME NEW v, kul[v] \notin GIRIS_KAPALI, kul' = [kul EXCEPT ![v] = "ACTIVE"]
      PROVE  /\ DOMAIN kul' = Users
             /\ \A u \in Users : kul[u] \in GIRIS_KAPALI => kul'[u] = kul[u]
  BY <1>2
<1>3. ASSUME NEW a \in Users, NEW v \in Users, NEW durum \in Yaptirimlar, SetStatus(a, v, durum)
      PROVE  /\ DOMAIN kul' = Users
             /\ \A u \in Users : kul'[u] # kul[u] => u = v
  BY <1>3 DEF SetStatus
<1> QED BY <1>1, <1>2, <1>3, HesapAdimi DEF HesapYazilir

\* A sanction holds: no log-in that was under way opens an account that an administrator has
\* closed meanwhile; only administrators write over a closed status (verifyOtp, setStatus).
THEOREM SanctionsHold == Spec => YaptirimKalir
<1>1. Init => DOMAIN kul = Users
  BY SaticiSahneleri DEF Init
<1>2. DOMAIN kul = Users /\ [Next]_vars => (DOMAIN kul = Users)'
  BY HesaplarKalir
<1>3. DOMAIN kul = Users /\ [Next]_vars =>
        \A u \in Users :
          kul[u] \in GIRIS_KAPALI /\ kul'[u] # kul[u] =>
            \E a \in Users, durum \in Yaptirimlar : SetStatus(a, u, durum)
  BY HesaplarKalir
<1> QED BY <1>1, <1>2, <1>3, PTL DEF Spec, YaptirimKalir
================================================================================
