------------------------------ MODULE Pazaryeri ------------------------------
(***************************************************************************)
(* The market place around the orders: users and sessions, sellers, stores, *)
(* staff, delivery zones, the catalogue and carts, over one database.  Each *)
(* part is a module; a step is a step of one of them.                       *)
(*                                                                         *)
(* An initial state is a scene: the rows there are, and in isler the        *)
(* handlers that clients call.                                              *)
(***************************************************************************)
EXTENDS Onay, Sepet

CONSTANTS Sahneler

-----------------------------------------------------------------------------
(* The rows of the tables that the proofs are about, and what the rows of a scene are. *)

SaticiRow ==
  [durum : SellerStatus \cup {"YOK"}, dogrulama : SellerVerification, vergi : BOOLEAN,
   dikey : Dikeyler \cup {"YOK"}]

BelgeRow ==
  [u : Users, tip : ZORUNLU_BELGELER \cup {"DIGER"}, durum : {"BEKLIYOR", "ONAYLANDI", "REDDEDILDI"}]

MagazaRow == [sahip : Users \cup {NoUser}, dikey : Dikeyler \cup {"YOK"}, aktif : BOOLEAN]

\* A role is held on the platform, or in a store.
UserRole == (Users \X Role \X {NoStore}) \cup (Users \X MAGAZA_ROLLERI \X Stores)

OtpRow == [u : Users, yas : {"yeni", "acik", "bitti"}, deneme : Nat, tuketildi : BOOLEAN]

JetonRow == [u : Users, durum : {"gecerli", "iptal"}, kod : Nat]

DevirRow == [u : Users, tuketildi : BOOLEAN, bitti : BOOLEAN]

BolgeRow == [rev : Nat, liste : SUBSET UNION Listeler]

TalepRow(magazalar) ==
  [s : magazalar, by : Users, durum : ChangeRequestStatus, liste : SUBSET UNION Listeler,
   beklenen : Nat, taban : BolgeRow]

\* The unique index on the waiting requests.
TekBekleyen(talepler) ==
  \A i, j \in DOMAIN talepler :
    talepler[i].durum = "PENDING" /\ talepler[j].durum = "PENDING" /\ talepler[i].s = talepler[j].s
      => i = j

\* A category is under none, or under a top one of its store.
KategoriAgaci(kategoriler) ==
  /\ NoRow \notin DOMAIN kategoriler
  /\ kategoriler \in [DOMAIN kategoriler ->
                        [s : Stores \cup {NoStore}, ust : DOMAIN kategoriler \cup {NoRow}]]
  /\ \A c \in DOMAIN kategoriler :
       LET satir == kategoriler[c]
       IN satir.ust # NoRow =>
            satir.s # NoStore /\ kategoriler[satir.ust] = [s |-> satir.s, ust |-> NoRow]

\* Stores that have been opened, and those of BaniCarsi.
Duran(magazalar) == {s \in DOMAIN magazalar : magazalar[s].sahip # NoUser}

CarsiDuran(magazalar) == {s \in Duran(magazalar) : magazalar[s].dikey = "CARSI"}

\* Products that have been made in one of the stores S.
Mallar(urunler, S) == {p \in DOMAIN urunler : urunler[p].s \in S}

Toplam(d) == MapThenSumSet(LAMBDA alan : d[alan], DOMAIN d)

\* A price that can be paid out by its parts.
Dagitilir(f) ==
  /\ f.price \in Nat /\ f.net \in Nat
  /\ \A a \in DOMAIN f.dagitim : f.dagitim[a] \in Nat
  /\ f.price = f.net + Toplam(f.dagitim)

SayiAlanlari == {"net", "desi", "kdv", "price", "stok"}

Sayilar(f) == \A a \in SayiAlanlari \cap DOMAIN f : f[a] \in Nat

\* A product; the stores are S, those of BaniCarsi CS.
UrunSatiri(x, S, CS) ==
  /\ {"s", "dagitim"} \cup SayiAlanlari \subseteq DOMAIN x /\ Sayilar(x)
  /\ x = YokUrun \/ x.s \in S
  /\ x.s \in CS => Dagitilir(x)

\* A variant's own price; a variant and a line of a cart, of the products M, those of
\* BaniCarsi being CM.
FiyatSatiri(f, carsi) ==
  /\ "price" \in DOMAIN f /\ f.price \in Nat
  /\ carsi => {"net", "dagitim"} \subseteq DOMAIN f /\ Dagitilir(f)

VaryantSatiri(x, M, CM) ==
  /\ {"p", "stok", "fiyat"} \subseteq DOMAIN x
  /\ x = YokVaryant \/ x.p \in M
  /\ x.stok # <<>> => x.stok[1] \in Nat
  /\ x.fiyat # <<>> => FiyatSatiri(x.fiyat[1], x.p \in CM)

KalemSatiri(z, M, CM) ==
  /\ {"p", "birim", "adet", "secimler"} \subseteq DOMAIN z
  /\ z.p \in M /\ z.birim \in Nat
  /\ IsFiniteSet(z.secimler)
  /\ \A x \in z.secimler : /\ x.ekUcret \in Nat
                           /\ z.p \in CM => x.ekUcret = x.net + Toplam(x.dagitim)

\* A row for a line is free or holds one.
KalemYeri(z, M, CM) ==
  z # YokKalem => KalemSatiri(z, M, CM) /\ z.adet \in 1..(ADET_SINIRI + 1)

ASSUME SaticiSahneleri ==
  \A x \in Sahneler :
    /\ x.kul \in [Users -> UserStatus \cup {"YOK"}]
    /\ x.satici \in [Users -> SaticiRow]
    /\ \A u \in Users : x.satici[u].durum = "YOK" => x.satici[u] = YokSatici
    /\ x.belge \in Seq(BelgeRow)
    /\ \A b \in DOMAIN x.belge : x.satici[x.belge[b].u] # YokSatici

\* A store has an owner; no user has two.
ASSUME MagazaSahneleri ==
  \A x \in Sahneler :
    /\ DOMAIN x.magaza \subseteq Stores
    /\ x.magaza \in [DOMAIN x.magaza -> MagazaRow]
    /\ \A s \in DOMAIN x.magaza : x.magaza[s] # YokMagaza => x.magaza[s].sahip # NoUser
    /\ \A s, t \in DOMAIN x.magaza :
         x.magaza[s].sahip # NoUser /\ x.magaza[t].sahip = x.magaza[s].sahip => s = t

\* No code has been tried more often than it may be; no session came from a transfer code.
ASSUME OturumSahneleri ==
  \A x \in Sahneler :
    /\ x.rol \subseteq UserRole
    /\ x.otp \in Seq(OtpRow) /\ \A k \in DOMAIN x.otp : x.otp[k].deneme <= MAX_ATTEMPTS
    /\ x.jeton \in Seq(JetonRow) /\ \A j \in DOMAIN x.jeton : x.jeton[j].kod = 0
    /\ x.devir \in Seq(DevirRow)

\* Change requests are based on the zones the stores start with; one may wait in a store.
ASSUME TalepSahneleri ==
  \A x \in Sahneler :
    /\ x.talep \in Seq(TalepRow(DOMAIN x.magaza))
    /\ \A k \in DOMAIN x.talep :
         x.talep[k].beklenen = 0 /\ x.talep[k].taban = [rev |-> 0, liste |-> {}]
    /\ TekBekleyen(x.talep)

\* Goods belong to stores, variants and lines of carts to goods, and the prices of BaniCarsi
\* can be paid out.
ASSUME RafSahneleri ==
  \A x \in Sahneler :
    LET S == Duran(x.magaza)
        CS == CarsiDuran(x.magaza)
        M == Mallar(x.urun, S)
        CM == Mallar(x.urun, CS)
    IN /\ KategoriAgaci(x.kategori)
       /\ NoRow \notin DOMAIN x.urun
       /\ \A p \in DOMAIN x.urun : UrunSatiri(x.urun[p], S, CS)
       /\ \A v \in DOMAIN x.varyant : VaryantSatiri(x.varyant[v], M, CM)
       /\ IsFiniteSet(DOMAIN x.secenek)
       /\ \A o \in DOMAIN x.secenek : "ek" \in DOMAIN x.secenek[o] /\ x.secenek[o].ek \in Nat
       /\ \A k \in DOMAIN x.kalem : KalemYeri(x.kalem[k], M, CM)

\* Prices, weights, rates and stocks in the bodies of requests are whole numbers.
ASSUME RafGovdeleri ==
  /\ \A dto \in YeniUrunler : {"ad", "price"} \subseteq DOMAIN dto
  /\ \A dto \in UNION {YeniUrunler, UrunDegisiklikleri, YeniVaryantlar, VaryantDegisiklikleri} : Sayilar(dto)
  /\ EkUcretler \subseteq Nat

-----------------------------------------------------------------------------

vars == <<req, isler, kadroVars, onayVars, katalogVars, sepetVars>>

Init ==
  \E x \in Sahneler :
    /\ req = [r \in Requests |-> Bos]
    /\ isler = x.isler
    /\ kul = x.kul /\ rol = x.rol /\ otp = x.otp /\ jeton = x.jeton /\ devir = x.devir
    /\ satici = x.satici /\ belge = x.belge /\ imza = x.imza /\ magaza = x.magaza
    /\ uyelik = [y \in (DOMAIN x.magaza) \X Users |-> IF y \in x.kadro THEN "AKTIF" ELSE "YOK"]
    /\ kapsam = x.kapsam /\ talep = x.talep
    /\ bolge = [s \in DOMAIN x.magaza |-> [rev |-> 0, liste |-> {}]]
    /\ urun = x.urun /\ varyant = x.varyant /\ grup = x.grup /\ secenek = x.secenek
    /\ bag = x.bag /\ medya = x.medya /\ kategori = x.kategori /\ satis = <<>>
    /\ resim = [p \in DOMAIN x.urun |-> NoRow]
    /\ defter = [p \in DOMAIN x.urun |-> x.urun[p].stok]
    /\ sepet = [c \in Users \X Dikeyler |-> NoStore]
    /\ kalem = x.kalem

\* The process is stopped or the database fails: the request ends where it is, and the
\* transaction it may be in is rolled back.
Durur(r) ==
  /\ req[r] # Bos
  /\ Bitir(r)
  /\ UNCHANGED <<kadroVars, onayVars, katalogVars, sepetVars>>

Next ==
  /\ UNCHANGED isler
  /\ \/ KullaniciNext /\ UNCHANGED <<saticilik, uyelik, onayVars, katalogVars, sepetVars>>
     \/ SaticiNext /\ UNCHANGED <<uyelik, onayVars, katalogVars, sepetVars>>
     \/ KadroNext /\ UNCHANGED <<onayVars, katalogVars, sepetVars>>
     \/ OnayNext /\ UNCHANGED <<katalogVars, sepetVars>>
     \/ KatalogNext /\ UNCHANGED <<onayVars, sepetVars>>
     \/ SepetNext /\ UNCHANGED onayVars
     \/ \E r \in Requests : Durur(r)

Spec == Init /\ [][Next]_vars

-----------------------------------------------------------------------------
(* Properties *)

\* The sold pieces that were taken from a product's own stock, and those given back to it.
Alinan(p) == {k \in DOMAIN satis : satis[k].p = p /\ satis[k].yer = "urun"}

Verilen(p) == {k \in DOMAIN satis : satis[k].p = p /\ satis[k].iade = "urun"}

Oynayan(p) == Cardinality(Verilen(p)) - Cardinality(Alinan(p))

\* Every row is one the schema admits; in particular a role in a store is one stores give,
\* a code is tried at most once more for each request that runs beside the last one allowed,
\* one change request waits in a store, no stock is negative, and a category is at most one
\* level deep.
TypeOK ==
  /\ kul \in [Users -> UserStatus \cup {"YOK"}]
  /\ rol \subseteq UserRole
  /\ \A k \in DOMAIN otp : otp[k].u \in Users /\ otp[k].deneme \in 0..(MAX_ATTEMPTS + Cardinality(Requests) - 1)
  /\ \A j \in DOMAIN jeton : jeton[j].u \in Users /\ jeton[j].kod \in 0..Len(devir)
  /\ \A u \in Users : /\ satici[u].durum \in SellerStatus \cup {"YOK"}
                      /\ satici[u].dogrulama \in SellerVerification
  /\ \A s \in DOMAIN magaza : magaza[s].sahip \in Users \cup {NoUser}
  /\ uyelik \in [(DOMAIN magaza) \X Users -> {"YOK", "AKTIF", "PASIF"}]
  /\ \A k \in DOMAIN talep : talep[k].durum \in ChangeRequestStatus
  /\ \A s \in DOMAIN magaza : Cardinality(Bekleyenler(s)) <= 1 /\ bolge[s].liste \subseteq UNION Listeler
  /\ \A p \in DOMAIN urun : urun[p].stok \in Nat /\ urun[p].price \in Nat
  /\ \A v \in DOMAIN varyant : varyant[v].stok = <<>> \/ varyant[v].stok[1] \in Nat
  /\ \A c \in DOMAIN kategori :
       kategori[c].ust # NoRow => kategori[kategori[c].ust] = [s |-> kategori[c].s, ust |-> NoRow]
  /\ \A k \in DOMAIN kalem : kalem[k] = YokKalem \/ kalem[k].adet \in 1..(ADET_SINIRI + 1)

\* A sanction holds: a log-in that is under way when an administrator closes the account
\* does not open it again (verifyOtp's conditional activation).  Only administrators change
\* the status of a closed account.
YaptirimKalir ==
  [][\A u \in Users :
       kul[u] \in GIRIS_KAPALI /\ kul'[u] # kul[u] =>
         \E a \in Users, durum \in Yaptirimlar : SetStatus(a, u, durum)]_vars

\* A transfer code opens one session, however many requests present it at once
\* (consumeTransferCode).
DevirTek ==
  \A k \in DOMAIN devir : Cardinality({j \in DOMAIN jeton : jeton[j].kod = k}) <= 1

\* Whoever else decides about a seller at the same time, his status moves along NEXT_STATUS,
\* and an application is granted only to a seller who is verified at that moment and becomes
\* a merchant with it (gecis, saticiKarar and saticiOnayla).
SaticiGecisleri ==
  [][\A u \in Users :
       satici'[u].durum # satici[u].durum =>
         \/ satici[u] = YokSatici /\ satici'[u].durum = "DRAFT"
         \/ /\ satici[u] # YokSatici
            /\ satici'[u].durum \in NEXT_STATUS[satici[u].durum]
            /\ satici[u].durum = "UNDER_REVIEW" /\ satici'[u].durum = "ACTIVE" =>
                 satici'[u].dogrulama = "ONAYLANDI" /\ <<u, "MERCHANT", NoStore>> \in rol']_vars

\* A seller opens one store, however often the request is sent, and keeps being active until
\* it stands (create locks his row).
TekIlkMagaza ==
  /\ \A u \in Users : Cardinality(MagazalarOf(u)) <= 1
  /\ \A r \in Requests : Sira(r, "magazaYaz") => satici[req[r].u].durum = "ACTIVE"

\* What a reviewer approves is what the submitter saw: a change request is approved only
\* while the zones are those it was based on, and then they become the list asked for, with
\* the next revision (approve, revalidate and teslimatBolgeleriYazTx).
OnayTaban ==
  [][\A k \in DOMAIN talep :
       LET s == talep[k].s
       IN talep'[k].durum = "APPROVED" /\ talep[k].durum # "APPROVED" =>
            /\ talep[k].durum = "PENDING"
            /\ bolge[s] = talep[k].taban
            /\ bolge'[s] = [rev |-> bolge[s].rev + 1, liste |-> talep[k].liste]]_vars

\* No editor's absolute write of a product's stock overwrites what orders did to it: the stock
\* is the first one plus what the editors meant to add, less the pieces orders took from the
\* product, plus those they gave back to it, in whatever order updateProduct, checkout and
\* cancel run.  Whether cancel gives a piece back to the row it was taken from is not said here:
\* it need not (Iade).
SatisEzilmez == \A p \in DOMAIN urun : urun[p].stok = defter[p] + Oynayan(p)

\* Every price in BaniCarsi can be paid out: for whatever line may stand in a cart, the price
\* of a piece now and the surcharges kept with the line are the sums of the parts that
\* checkout will distribute, after any change to product, variant and option.
DagitimTutar ==
  /\ \A p \in DOMAIN urun :
       urun[p] # YokUrun /\ Carsi(urun[p].s) =>
         \A vs \in VaryantTek(p) :
           EtkinFiyat(p, vs) = FiyatKaynagi(p, vs).net + Toplam(EtkinDagitim(p, vs))
  /\ \A k \in DOMAIN kalem :
       kalem[k] # YokKalem /\ Carsi(urun[kalem[k].p].s) =>
         SatirBirimFiyat(k) - kalem[k].birim
           = MapThenSumSet(LAMBDA x : x.net + Toplam(x.dagitim), kalem[k].secimler)
=============================================================================
