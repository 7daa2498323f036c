------------------------------- MODULE Katalog -------------------------------
(***************************************************************************)
(* A store's goods (catalog/): products with their variants, option groups, *)
(* pictures and categories, their approval by an administrator, and the     *)
(* stock, which the panel writes as an absolute number and orders move.     *)
(*                                                                         *)
(* Rows have fixed identifiers; a row not created yet is a Yok... record.   *)
(* A nullable column is a sequence of at most one value.  A request's body  *)
(* (dto) is a record of the fields it gives.                                *)
(***************************************************************************)
EXTENDS Kadro, Fiyat

CONSTANTS
  NoRow,
  YeniUrunler, UrunDegisiklikleri,   \* bodies of createProduct and updateProduct
  YeniVaryantlar, VaryantDegisiklikleri,
  YeniGruplar, GrupDegisiklikleri,
  EkUcretler,                        \* surcharges of options, net
  SATIS_SINIRI                       \* bound on the sales

ASSUME KatalogAssumption == SATIS_SINIRI \in Nat

VARIABLES
  urun,      \* products
  varyant,   \* product_variants
  grup,      \* option_groups
  secenek,   \* options
  bag,       \* product_option_groups: <<product, group>>
  medya,     \* product_media
  resim,     \* products.imageUrl, by product
  kategori,  \* categories
  satis,     \* order items sold, oldest first, each with the row its piece was taken from
             \* and the one it was given back to (yer, iade: history)
  defter     \* by product: its first stock and what its editors meant to add (history)

secenekVars == <<grup, secenek, bag>>
vitrinVars == <<medya, resim, kategori>>
stokVars == <<urun, varyant, satis, defter>>
katalogVars == <<stokVars, secenekVars, vitrinVars>>

YokUrun ==
  [s |-> NoStore, aktif |-> FALSE, silindi |-> FALSE, ad |-> {}, net |-> 0, desi |-> 0,
   kdv |-> VARSAYILAN_KDV, model |-> "A", price |-> 0, stok |-> 0,
   dagitim |-> [komisyon |-> 0, kargo |-> 0, malKdv |-> 0, hizmetKdv |-> 0]]

YokVaryant == [p |-> NoRow, aktif |-> FALSE, silindi |-> FALSE, stok |-> <<>>, fiyat |-> <<>>]
YokGrup == [s |-> NoStore, min |-> 0, max |-> 1, zorunlu |-> FALSE, aktif |-> TRUE]
YokSecenek == [g |-> NoRow, ek |-> 0, aktif |-> TRUE]
YokMedya == [p |-> NoRow, birincil |-> FALSE]
YokKategori == [s |-> NoStore, ust |-> NoRow]

Al(dto, alan, yoksa) == IF alan \in DOMAIN dto THEN dto[alan] ELSE yoksa

Sec(dto, alanlar) == [a \in DOMAIN dto \cap alanlar |-> dto[a]]

\* An update writes the columns it gives and leaves the others.
Ustune(yeni, eski) ==
  [a \in DOMAIN yeni \cup DOMAIN eski |-> IF a \in DOMAIN yeni THEN yeni[a] ELSE eski[a]]

-----------------------------------------------------------------------------
(* Endpoints and their permissions *)

UrunUclari == [kategoriEkle |-> "CATEGORY_WRITE", urunEkle |-> "PRODUCT_WRITE",
               urunGuncelle |-> "PRODUCT_WRITE", urunKaldir |-> "PRODUCT_WRITE"]

OnayUclari == [urunOnayla |-> "PRODUCT_APPROVE", urunReddet |-> "PRODUCT_APPROVE"]

VaryantUclari == [varyantOlustur |-> "PRODUCT_WRITE", varyantGuncelle |-> "PRODUCT_WRITE",
                  varyantSil |-> "PRODUCT_WRITE"]

SecenekUclari == [secenekGrubuOlustur |-> "PRODUCT_WRITE", secenekGrubuGuncelle |-> "PRODUCT_WRITE",
                  secenekGrubuSil |-> "PRODUCT_WRITE", secenekEkle |-> "PRODUCT_WRITE",
                  secenekGuncelle |-> "PRODUCT_WRITE", secenekSil |-> "PRODUCT_WRITE",
                  urunSecenekGruplari |-> "PRODUCT_WRITE"]

MedyaUclari == [medyaEkle |-> "PRODUCT_WRITE", medyaGuncelle |-> "PRODUCT_WRITE",
                medyaSil |-> "PRODUCT_WRITE"]

\* getProduct or urunVeMagaza: the product is there and the caller may work on its store.
UrunPaneli(p, u, izin) ==
  urun[p] # YokUrun /\ ~ urun[p].silindi /\ PanelIzni(urun[p].s, u, izin)

VaryantPaneli(v, u, izin) ==
  varyant[v] # YokVaryant /\ ~ varyant[v].silindi /\ PanelIzni(urun[varyant[v].p].s, u, izin)

GrupPaneli(g, u, izin) == grup[g] # YokGrup /\ PanelIzni(grup[g].s, u, izin)

Carsi(s) == magaza[s].dikey = "CARSI"

-----------------------------------------------------------------------------
(* Products *)

\* Mistake: the price is written without its parts.
UrunFiyatAlanlari_Stale(s, net, desi, model, kdv, dto) ==
  IF Carsi(s) THEN Sec(VitrinFiyatHesapla(net, desi, model, kdv), {"price", "net"}) ELSE Sec(dto, {"price"})

\* urunFiyatAlanlari: the price columns to write; outside BaniCarsi the price given.
UrunFiyatAlanlari(s, net, desi, model, kdv, dto) ==
  IF Carsi(s) THEN VitrinFiyatHesapla(net, desi, model, kdv) ELSE Sec(dto, {"price"})

\* A new product waits for approval.
UrunEkle(u, s, p, dto) ==
  LET net == Al(dto, "net", dto.price)
      desi == Al(dto, "desi", 0)
      model == Al(dto, "model", "A")
      kdv == Al(dto, "kdv", KdvOraniBul(dto.ad))
  IN /\ Cagrilir("urunEkle")
     /\ PanelIzni(s, u, UrunUclari.urunEkle)
     /\ urun[p] = YokUrun
     /\ urun' = [urun EXCEPT ![p] =
                   Ustune(UrunFiyatAlanlari(s, net, desi, model, kdv, dto),
                          [YokUrun EXCEPT !.s = s, !.ad = dto.ad, !.price = dto.price, !.kdv = kdv,
                                          !.desi = desi, !.model = model, !.stok = Al(dto, "stok", 0)])]
     /\ defter' = [defter EXCEPT ![p] = @ + Al(dto, "stok", 0)]
     /\ UNCHANGED <<req, kadroVars, varyant, satis, secenekVars, vitrinVars>>

\* What updateProduct writes, computed from the row it has read.  Changed content takes
\* the product off the shelf until it is approved again.
UrunVerisi(eski, dto) ==
  LET desi == Al(dto, "desi", eski.desi)
      model == Al(dto, "model", eski.model)
      kdv == Al(dto, "kdv", eski.kdv)
      veri == Ustune(UrunFiyatAlanlari(eski.s, Al(dto, "net", eski.net), desi, model, kdv, dto),
                     Ustune(Sec(dto, {"ad", "net", "stok"}),
                            [desi |-> desi, model |-> model, kdv |-> kdv]))
      degisti == \E a \in {"ad", "net", "price"} \cap DOMAIN veri : veri[a] # eski[a]
  IN IF degisti THEN Ustune([aktif |-> FALSE], veri) ELSE veri

\* A stock is written only over the stock expected: the one on the caller's screen, or
\* else the one just read.
UrunGuncelleOku(r, u, p, dto) ==
  /\ Cagrilir("urunGuncelle")
  /\ UrunPaneli(p, u, UrunUclari.urunGuncelle)
  /\ Basla(r, [op |-> IF "stok" \in DOMAIN dto THEN "stokYaz" ELSE "urunYaz", p |-> p,
            veri |-> UrunVerisi(urun[p], dto), beklenen |-> Al(dto, "beklenen", urun[p].stok)])
  /\ UNCHANGED <<kadroVars, katalogVars>>

\* update by id.
UrunYaz(r) ==
  /\ Sira(r, "urunYaz")
  /\ urun' = [urun EXCEPT ![req[r].p] = Ustune(req[r].veri, @)]
  /\ Bitir(r)
  /\ UNCHANGED <<kadroVars, varyant, satis, defter, secenekVars, vitrinVars>>

\* Mistake: the stock is written over whatever was sold meanwhile.
StokUyar_Absolute(p, beklenen) == TRUE

StokUyar(p, beklenen) == urun[p].stok = beklenen

\* The editor's correction is the difference to what he saw.
StokYaz(r) ==
  LET q == req[r]
  IN /\ Sira(r, "stokYaz")
     /\ IF ~ urun[q.p].silindi /\ StokUyar(q.p, q.beklenen)
          THEN /\ urun' = [urun EXCEPT ![q.p] = Ustune(q.veri, @)]
               /\ defter' = [defter EXCEPT ![q.p] = (@ + q.veri.stok) - q.beklenen]
          ELSE UNCHANGED <<urun, defter>>
     /\ Bitir(r)
     /\ UNCHANGED <<kadroVars, varyant, satis, secenekVars, vitrinVars>>

\* magazayaBagliMi: the owner, or anybody with a role in the store.
MagazayaBagli(s, u) == magaza[s].sahip = u \/ RolleriOku(u, s) # {}

Onayci(p, u, izin) ==
  /\ Izinli(u, izin) /\ PlatformYoneticisi(u)
  /\ urun[p] # YokUrun /\ ~ urun[p].silindi
  /\ ~ MagazayaBagli(urun[p].s, u)

UrunYazacak(p, veri) == [op |-> "urunYaz", p |-> p, veri |-> veri, beklenen |-> 0]

UrunOnaylaOku(r, u, p) ==
  /\ Cagrilir("urunOnayla")
  /\ Onayci(p, u, OnayUclari.urunOnayla)
  /\ satici[magaza[urun[p].s].sahip].durum = "ACTIVE"
  /\ Basla(r, UrunYazacak(p, [aktif |-> TRUE]))
  /\ UNCHANGED <<kadroVars, katalogVars>>

UrunReddetOku(r, u, p) ==
  /\ Cagrilir("urunReddet")
  /\ Onayci(p, u, OnayUclari.urunReddet)
  /\ Basla(r, UrunYazacak(p, [silindi |-> TRUE, aktif |-> FALSE]))
  /\ UNCHANGED <<kadroVars, katalogVars>>

UrunKaldirOku(r, u, p) ==
  /\ Cagrilir("urunKaldir")
  /\ UrunPaneli(p, u, UrunUclari.urunKaldir)
  /\ Basla(r, UrunYazacak(p, [silindi |-> TRUE, aktif |-> FALSE]))
  /\ UNCHANGED <<kadroVars, katalogVars>>

Yayinda(p) == urun[p].aktif /\ ~ urun[p].silindi

-----------------------------------------------------------------------------
(* Variants *)

\* varyantFiyatAlanlari: a variant of BaniCarsi has a price of its own with all its parts.
FiyatGirdisi(dto) == {"price", "net", "desi", "kdv", "model"} \cap DOMAIN dto # {}

VaryantNet(dto) == Al(dto, "net", Al(dto, "price", 0))

VaryantFiyatOlur(p, dto) == Carsi(urun[p].s) => VaryantNet(dto) > 0

VaryantFiyati(p, dto) ==
  IF Carsi(urun[p].s)
    THEN <<VitrinFiyatHesapla(VaryantNet(dto), Al(dto, "desi", urun[p].desi),
                              Al(dto, "model", urun[p].model), Al(dto, "kdv", urun[p].kdv))>>
    ELSE IF "price" \in DOMAIN dto THEN <<Sec(dto, {"price"})>> ELSE <<>>

\* Stock and price are optional: the product's hold for a variant without its own.
VaryantOlustur(u, p, v, dto) ==
  /\ Cagrilir("varyantOlustur")
  /\ UrunPaneli(p, u, VaryantUclari.varyantOlustur)
  /\ varyant[v] = YokVaryant /\ VaryantFiyatOlur(p, dto)
  /\ varyant' = [varyant EXCEPT ![v] =
                   [p |-> p, aktif |-> TRUE, silindi |-> FALSE,
                    stok |-> IF "stok" \in DOMAIN dto THEN <<dto.stok>> ELSE <<>>,
                    fiyat |-> VaryantFiyati(p, dto)]]
  /\ UNCHANGED <<req, kadroVars, urun, satis, defter, secenekVars, vitrinVars>>

\* The stock of a variant is written as it is given, whatever orders took meanwhile.
VaryantGuncelleOku(r, u, v, dto) ==
  LET p == varyant[v].p
      fiyat == IF FiyatGirdisi(dto) THEN VaryantFiyati(p, dto) ELSE <<>>
  IN /\ Cagrilir("varyantGuncelle")
     /\ VaryantPaneli(v, u, VaryantUclari.varyantGuncelle)
     /\ FiyatGirdisi(dto) => VaryantFiyatOlur(p, dto)
     /\ Basla(r, [op |-> "varyantYaz", v |-> v,
               veri |-> Ustune(Sec(dto, {"aktif"}),
                               Ustune(IF "stok" \in DOMAIN dto THEN [stok |-> <<dto.stok>>] ELSE <<>>,
                                      IF fiyat # <<>> THEN [fiyat |-> fiyat] ELSE <<>>))])
     /\ UNCHANGED <<kadroVars, katalogVars>>

VaryantYaz(r) ==
  /\ Sira(r, "varyantYaz")
  /\ varyant' = [varyant EXCEPT ![req[r].v] = Ustune(req[r].veri, @)]
  /\ Bitir(r)
  /\ UNCHANGED <<kadroVars, urun, satis, defter, secenekVars, vitrinVars>>

VaryantSil(u, v) ==
  /\ Cagrilir("varyantSil")
  /\ VaryantPaneli(v, u, VaryantUclari.varyantSil)
  /\ varyant' = [varyant EXCEPT ![v].silindi = TRUE, ![v].aktif = FALSE]
  /\ UNCHANGED <<req, kadroVars, urun, satis, defter, secenekVars, vitrinVars>>

\* common/domain/varyant: each value of a variant, or else the product's.  vs: at most one variant.
FiyatKaynagi(p, vs) ==
  IF vs # <<>> /\ varyant[vs[1]].fiyat # <<>> THEN Ustune(varyant[vs[1]].fiyat[1], urun[p]) ELSE urun[p]

EtkinFiyat(p, vs) == FiyatKaynagi(p, vs).price

EtkinDagitim(p, vs) == FiyatKaynagi(p, vs).dagitim

VaryantStogu(vs) == vs # <<>> /\ varyant[vs[1]].stok # <<>>

StokYeri(vs) == IF VaryantStogu(vs) THEN "varyant" ELSE "urun"

-----------------------------------------------------------------------------
(* What orders do to the stock: checkout's conditional decrement and cancel's return.     *)
(* The rest of both handlers is OrderFlow's.                                               *)

\* Mistake: the stock is taken on what was read.
SatisOlur_Unchecked(p, vs) == TRUE

SatisOlur(p, vs) == IF VaryantStogu(vs) THEN varyant[vs[1]].stok[1] > 0 ELSE urun[p].stok > 0

StokOynat(p, vs, fark) ==
  IF VaryantStogu(vs)
    THEN varyant' = [varyant EXCEPT ![vs[1]].stok = <<@[1] + fark>>] /\ UNCHANGED urun
    ELSE urun' = [urun EXCEPT ![p].stok = @ + fark] /\ UNCHANGED varyant

Satis(p, vs) ==
  /\ Cagrilir("satis")
  /\ Yayinda(p)
  /\ Len(satis) < SATIS_SINIRI
  /\ SatisOlur(p, vs)
  /\ StokOynat(p, vs, -1)
  /\ satis' = Append(satis, [p |-> p, v |-> vs, yer |-> StokYeri(vs), iade |-> "YOK"])
  /\ UNCHANGED <<req, kadroVars, defter, secenekVars, vitrinVars>>

\* The piece goes to the variant if the variant has a stock by now, else to the product.
Iade(k) ==
  /\ Cagrilir("iade")
  /\ satis[k].iade = "YOK"
  /\ StokOynat(satis[k].p, satis[k].v, 1)
  /\ satis' = [satis EXCEPT ![k].iade = StokYeri(satis[k].v)]
  /\ UNCHANGED <<req, kadroVars, defter, secenekVars, vitrinVars>>

-----------------------------------------------------------------------------
(* Option groups *)

\* secimSiniriDogrula.
SecimSiniri(g) == g.min <= g.max /\ (g.zorunlu => g.min >= 1)

SecenekGrubuOlustur(u, s, g, dto) ==
  LET yeni == Ustune(dto, [YokGrup EXCEPT !.s = s])
  IN /\ Cagrilir("secenekGrubuOlustur")
     /\ PanelIzni(s, u, SecenekUclari.secenekGrubuOlustur)
     /\ grup[g] = YokGrup /\ SecimSiniri(yeni)
     /\ grup' = [grup EXCEPT ![g] = yeni]
     /\ UNCHANGED <<req, kadroVars, stokVars, secenek, bag, vitrinVars>>

\* The limits are checked against the row as it was read.
SecenekGrubuGuncelleOku(r, u, g, dto) ==
  /\ Cagrilir("secenekGrubuGuncelle")
  /\ GrupPaneli(g, u, SecenekUclari.secenekGrubuGuncelle)
  /\ SecimSiniri(Ustune(dto, grup[g]))
  /\ Basla(r, [op |-> "grupYaz", g |-> g, veri |-> dto])
  /\ UNCHANGED <<kadroVars, katalogVars>>

GrupYaz(r) ==
  /\ Sira(r, "grupYaz")
  /\ grup' = [grup EXCEPT ![req[r].g] = Ustune(req[r].veri, @)]
  /\ Bitir(r)
  /\ UNCHANGED <<kadroVars, stokVars, secenek, bag, vitrinVars>>

SecenekGrubuSil(u, g) ==
  /\ Cagrilir("secenekGrubuSil")
  /\ GrupPaneli(g, u, SecenekUclari.secenekGrubuSil)
  /\ grup' = [grup EXCEPT ![g].aktif = FALSE]
  /\ UNCHANGED <<req, kadroVars, stokVars, secenek, bag, vitrinVars>>

SecenekEkle(u, g, o, ek) ==
  /\ Cagrilir("secenekEkle")
  /\ GrupPaneli(g, u, SecenekUclari.secenekEkle)
  /\ secenek[o] = YokSecenek
  /\ secenek' = [secenek EXCEPT ![o] = [g |-> g, ek |-> ek, aktif |-> TRUE]]
  /\ UNCHANGED <<req, kadroVars, stokVars, grup, bag, vitrinVars>>

SecenekPaneli(o, u, izin) == secenek[o] # YokSecenek /\ GrupPaneli(secenek[o].g, u, izin)

SecenekGuncelle(u, o, ek, aktif) ==
  /\ Cagrilir("secenekGuncelle")
  /\ SecenekPaneli(o, u, SecenekUclari.secenekGuncelle)
  /\ secenek' = [secenek EXCEPT ![o].ek = ek, ![o].aktif = aktif]
  /\ UNCHANGED <<req, kadroVars, stokVars, grup, bag, vitrinVars>>

SecenekSil(u, o) ==
  /\ Cagrilir("secenekSil")
  /\ SecenekPaneli(o, u, SecenekUclari.secenekSil)
  /\ secenek' = [secenek EXCEPT ![o].aktif = FALSE]
  /\ UNCHANGED <<req, kadroVars, stokVars, grup, bag, vitrinVars>>

\* The product's groups are replaced as a whole; all must be the store's.
UrunSecenekGruplari(u, p, gruplar) ==
  /\ Cagrilir("urunSecenekGruplari")
  /\ UrunPaneli(p, u, SecenekUclari.urunSecenekGruplari)
  /\ \A g \in gruplar : grup[g].s = urun[p].s
  /\ bag' = {x \in bag : x[1] # p} \cup {<<p, g>> : g \in gruplar}
  /\ UNCHANGED <<req, kadroVars, stokVars, grup, secenek, vitrinVars>>

-----------------------------------------------------------------------------
(* Pictures and categories *)

\* A picture written as primary: then the others are not, then the product shows it.
BirincilIse(r, p, m, birincil) ==
  IF birincil THEN Basla(r, [op |-> "birincilDigerleri", p |-> p, m |-> m]) ELSE UNCHANGED req

MedyaEkle(r, u, p, m, birincil) ==
  /\ Cagrilir("medyaEkle")
  /\ UrunPaneli(p, u, MedyaUclari.medyaEkle)
  /\ medya[m] = YokMedya
  /\ medya' = [medya EXCEPT ![m] = [p |-> p, birincil |-> birincil]]
  /\ BirincilIse(r, p, m, birincil)
  /\ UNCHANGED <<kadroVars, stokVars, secenekVars, resim, kategori>>

MedyaPaneli(m, u, izin) == medya[m] # YokMedya /\ PanelIzni(urun[medya[m].p].s, u, izin)

MedyaGuncelle(r, u, m, birincil) ==
  /\ Cagrilir("medyaGuncelle")
  /\ MedyaPaneli(m, u, MedyaUclari.medyaGuncelle)
  /\ medya' = [medya EXCEPT ![m].birincil = birincil]
  /\ BirincilIse(r, medya[m].p, m, birincil)
  /\ UNCHANGED <<kadroVars, stokVars, secenekVars, resim, kategori>>

BirincilDigerleri(r) ==
  LET q == req[r]
  IN /\ Sira(r, "birincilDigerleri")
     /\ medya' = [m \in DOMAIN medya |->
                    IF medya[m].p = q.p /\ m # q.m THEN [medya[m] EXCEPT !.birincil = FALSE] ELSE medya[m]]
     /\ Gec(r, [op |-> "birincilResim", p |-> q.p, m |-> q.m])
     /\ UNCHANGED <<kadroVars, stokVars, secenekVars, resim, kategori>>

BirincilResim(r) ==
  /\ Sira(r, "birincilResim")
  /\ resim' = [resim EXCEPT ![req[r].p] = req[r].m]
  /\ Bitir(r)
  /\ UNCHANGED <<kadroVars, stokVars, secenekVars, medya, kategori>>

\* The product goes on showing a picture that was deleted.
MedyaSil(u, m) ==
  /\ Cagrilir("medyaSil")
  /\ MedyaPaneli(m, u, MedyaUclari.medyaSil)
  /\ medya' = [medya EXCEPT ![m] = YokMedya]
  /\ UNCHANGED <<req, kadroVars, stokVars, secenekVars, resim, kategori>>

\* Two levels at most.
KategoriEkle(u, s, c, ust) ==
  /\ Cagrilir("kategoriEkle")
  /\ PanelIzni(s, u, UrunUclari.kategoriEkle)
  /\ kategori[c] = YokKategori
  /\ ust # NoRow => kategori[ust].s = s /\ kategori[ust].ust = NoRow
  /\ kategori' = [kategori EXCEPT ![c] = [s |-> s, ust |-> ust]]
  /\ UNCHANGED <<req, kadroVars, stokVars, secenekVars, medya, resim>>

-----------------------------------------------------------------------------

VaryantTek(p) == {<<>>} \cup {<<v>> : v \in {w \in DOMAIN varyant : varyant[w].p = p}}

UrunNext ==
  \/ \E u \in Users, s \in DOMAIN magaza, p \in DOMAIN urun, dto \in YeniUrunler : UrunEkle(u, s, p, dto)
  \/ \E r \in Requests, u \in Users, p \in DOMAIN urun :
       \/ UrunOnaylaOku(r, u, p) \/ UrunReddetOku(r, u, p) \/ UrunKaldirOku(r, u, p)
       \/ \E dto \in UrunDegisiklikleri : UrunGuncelleOku(r, u, p, dto)
  \/ \E r \in Requests : UrunYaz(r) \/ StokYaz(r)
  \/ \E p \in DOMAIN urun : \E vs \in VaryantTek(p) : Satis(p, vs)
  \/ \E k \in DOMAIN satis : Iade(k)

VaryantNext ==
  \/ \E u \in Users, p \in DOMAIN urun, v \in DOMAIN varyant, dto \in YeniVaryantlar :
       VaryantOlustur(u, p, v, dto)
  \/ \E u \in Users, v \in DOMAIN varyant :
       \/ VaryantSil(u, v)
       \/ \E r \in Requests, dto \in VaryantDegisiklikleri : VaryantGuncelleOku(r, u, v, dto)
  \/ \E r \in Requests : VaryantYaz(r)

SecenekNext ==
  \/ \E u \in Users, g \in DOMAIN grup :
       \/ SecenekGrubuSil(u, g)
       \/ \E s \in DOMAIN magaza, dto \in YeniGruplar : SecenekGrubuOlustur(u, s, g, dto)
       \/ \E r \in Requests, dto \in GrupDegisiklikleri : SecenekGrubuGuncelleOku(r, u, g, dto)
       \/ \E o \in DOMAIN secenek, ek \in EkUcretler : SecenekEkle(u, g, o, ek)
  \/ \E r \in Requests : GrupYaz(r)
  \/ \E u \in Users, o \in DOMAIN secenek :
       SecenekSil(u, o) \/ \E ek \in EkUcretler, aktif \in BOOLEAN : SecenekGuncelle(u, o, ek, aktif)
  \/ \E u \in Users, p \in DOMAIN urun, gruplar \in SUBSET DOMAIN grup : UrunSecenekGruplari(u, p, gruplar)

MedyaNext ==
  \/ \E r \in Requests, u \in Users, m \in DOMAIN medya, birincil \in BOOLEAN :
       MedyaGuncelle(r, u, m, birincil) \/ \E p \in DOMAIN urun : MedyaEkle(r, u, p, m, birincil)
  \/ \E r \in Requests : BirincilDigerleri(r) \/ BirincilResim(r)
  \/ \E u \in Users, m \in DOMAIN medya : MedyaSil(u, m)

KategoriNext ==
  \E u \in Users, s \in DOMAIN magaza, c \in DOMAIN kategori, ust \in DOMAIN kategori \cup {NoRow} :
    KategoriEkle(u, s, c, ust)

KatalogNext == UrunNext \/ VaryantNext \/ SecenekNext \/ MedyaNext \/ KategoriNext
=============================================================================
