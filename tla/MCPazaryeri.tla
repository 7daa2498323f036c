----------------------------- MODULE MCPazaryeri -----------------------------
(* Scenes of Pazaryeri: a merchant, a second person and an administrator. *)
EXTENDS Pazaryeri, TLC

CONSTANTS m, w, adm, s1, s2, b1, b2, p1, p2, v1, g1, o1, o2, md1, md2, ct1, ct2, k1, k2

MCIzinTablosu ==
  {<<"SUPER_ADMIN", izin>> : izin \in
     {"USER_SUSPEND", "USER_ROLE_ASSIGN", "STORE_MANAGE_ALL", "STORE_WRITE", "PRODUCT_APPROVE"}}
  \cup {<<"MERCHANT", izin>> : izin \in {"STORE_WRITE", "PRODUCT_WRITE", "CATEGORY_WRITE", "SELLER_APPLY"}}
  \cup {<<"CUSTOMER", "SELLER_APPLY">>, <<"STORE_STOCK", "PRODUCT_WRITE">>}

MCTarife == (0 :> 12061) @@ (1 :> 12061) @@ (2 :> 12367)

MCRolAtamalari == {{"CUSTOMER"}}
MCSecilenRoller == {{"CARRIER", "ADMIN"}}
MCListeler == {{b1}, {b2}}

MCYeniUrunler ==
  {[ad |-> {"Tekstil & moda", "Kitap"}, price |-> 999, desi |-> 3, stok |-> 1]}
MCUrunDegisiklikleri ==
  {[net |-> 1234], [stok |-> 2], [stok |-> 0, beklenen |-> 1, model |-> "B"]}
MCYeniVaryantlar == {[stok |-> 1, net |-> 501, desi |-> 0], [price |-> 700]}
MCVaryantDegisiklikleri == {[stok |-> 1, aktif |-> FALSE], [net |-> 77]}
MCYeniGruplar == {[max |-> 2], [min |-> 1, zorunlu |-> TRUE]}
MCGrupDegisiklikleri == {[min |-> 1, zorunlu |-> TRUE], [min |-> 0]}
MCEkUcretler == {105}

Hic == [x \in {} |-> x]

\* Nobody calls anything.
Bosluk ==
  [isler |-> {}, kul |-> (m :> "ACTIVE") @@ (w :> "ACTIVE") @@ (adm :> "ACTIVE"),
   rol |-> {<<m, "CUSTOMER", NoStore>>, <<w, "CUSTOMER", NoStore>>, <<adm, "SUPER_ADMIN", NoStore>>},
   otp |-> <<>>, jeton |-> <<>>, devir |-> <<>>,
   satici |-> [u \in Users |-> YokSatici], belge |-> <<>>, imza |-> {}, magaza |-> Hic,
   kadro |-> {}, kapsam |-> {}, talep |-> <<>>,
   urun |-> Hic, varyant |-> Hic, grup |-> Hic, secenek |-> Hic, bag |-> {},
   medya |-> Hic, kategori |-> Hic, kalem |-> Hic]

Hesaplar(dm, dw, dadm) == (m :> dm) @@ (w :> dw) @@ (adm :> dadm)

Kod(u, yas) == [u |-> u, yas |-> yas, deneme |-> 0, tuketildi |-> FALSE]

\* Codes are asked for, grow old and are typed.
Kodlar ==
  [Bosluk EXCEPT !.isler = {"requestOtp", "otpYaslan", "verifyOtp"},
                 !.kul = Hesaplar("BANNED", "ACTIVE", "BANNED"), !.otp = <<Kod(w, "acik")>>]

\* A user who never finished his registration and a new one log in; an administrator closes
\* and reopens accounts.
Giris ==
  [Bosluk EXCEPT !.isler = {"verifyOtp", "setStatus"},
                 !.kul = Hesaplar("YOK", "PENDING", "ACTIVE"),
                 !.rol = {<<adm, "SUPER_ADMIN", NoStore>>},
                 !.otp = <<Kod(w, "acik"), Kod(m, "acik")>>]

\* A session is carried to another domain.
Devir ==
  [Bosluk EXCEPT !.isler = {"refresh", "logout", "transferKoduUret", "devirBiter",
                            "transferKoduTuket", "assignRoles", "guestSession"},
                 !.kul = Hesaplar("YOK", "ACTIVE", "ACTIVE"),
                 !.rol = {<<w, "CUSTOMER", NoStore>>, <<adm, "SUPER_ADMIN", NoStore>>},
                 !.jeton = <<[u |-> w, durum |-> "gecerli", kod |-> 0]>>]

\* A customer applies as a seller.
Basvuru ==
  [Bosluk EXCEPT !.isler = {"saticiOlustur", "saticiGuncelle", "saticiSozlesmeOnayla",
                            "saticiOnayaGonder", "belgeEkle", "belgeKarar", "saticiKarar"},
                 !.kul = Hesaplar("ACTIVE", "YOK", "ACTIVE")]

Saticisi(durum, dikey) ==
  [Bosluk EXCEPT !.rol = @ \cup {<<m, "MERCHANT", NoStore>>},
                 !.satici = [@ EXCEPT ![m] = [durum |-> durum, dogrulama |-> "ONAYLANDI",
                                              vergi |-> TRUE, dikey |-> dikey]],
                 !.belge = <<[u |-> m, tip |-> "VERGI_LEVHASI", durum |-> "ONAYLANDI"]>>,
                 !.imza = {m} \X SATICI_SOZLESMELERI]

\* An application is decided by several administrators' requests.
Inceleme ==
  [Saticisi("UNDER_REVIEW", "MARKET") EXCEPT
     !.isler = {"belgeEkle", "belgeKarar", "saticiDogrulama", "saticiDurumDegistir", "saticiKarar",
                "saticiOnayla", "saticiOnayaGonder"},
     !.kul = Hesaplar("ACTIVE", "YOK", "ACTIVE"),
     !.rol = {<<m, "CUSTOMER", NoStore>>, <<adm, "SUPER_ADMIN", NoStore>>}]

\* The seller opens his first store, in two windows at once.
Kurulus ==
  [Saticisi("ACTIVE", "CARSI") EXCEPT
     !.isler = {"magazaKur", "saticiDurumDegistir", "saticiGuncelle", "setStatus"},
     !.magaza = (s1 :> YokMagaza) @@ (s2 :> YokMagaza)]

Magaza(sahip, dikey) == [sahip |-> sahip, dikey |-> dikey, aktif |-> TRUE]

Dukkan(dikey) == [Saticisi("ACTIVE", dikey) EXCEPT !.magaza = s1 :> Magaza(m, dikey)]

\* The merchant engages and dismisses somebody.
Personel ==
  [Dukkan("MARKET") EXCEPT
     !.isler = {"personelEkle", "personelDurum", "rolVer", "rolAl", "magazaGuncelle"}]

\* The merchant has asked for b1.
Bolgeli ==
  [Dukkan("MARKET") EXCEPT
     !.kul = Hesaplar("ACTIVE", "YOK", "ACTIVE"), !.kapsam = {b1, b2},
     !.talep = <<[s |-> s1, by |-> m, durum |-> "PENDING", liste |-> {b1}, beklenen |-> 0,
                  taban |-> [rev |-> 0, liste |-> {}]]>>]

\* Zones are edited directly and by change requests.
Bolge == [Bolgeli EXCEPT !.isler = {"bolgeGuncelle", "submit", "approve"}]

\* The platform gives up a zone meanwhile; two reviewers decide.
Kapsam == [Bolgeli EXCEPT !.isler = {"bolgeGuncelle", "kapsam", "approve", "reject"}]

Urun(s, net) ==
  [s |-> s, aktif |-> TRUE, silindi |-> FALSE, ad |-> {"Kitap"}, net |-> 0, desi |-> 0,
   kdv |-> 20, model |-> "A", stok |-> 1, price |-> net, dagitim |-> YokUrun.dagitim]

CarsiUrunu(s, net) ==
  VitrinFiyatHesapla(net, 0, "A", 20) @@ Urun(s, net)

\* A product is edited, approved, removed, sold and returned.
Stok ==
  [Dukkan("CARSI") EXCEPT
     !.isler = {"urunGuncelle", "urunOnayla", "urunKaldir", "satis", "iade"},
     !.urun = p1 :> CarsiUrunu(s1, 999)]

\* A product is created and gets a variant; two people work in the panel.
Varyant ==
  [Dukkan("CARSI") EXCEPT
     !.isler = {"urunEkle", "urunOnayla", "urunReddet", "varyantOlustur", "varyantGuncelle", "varyantSil",
                "satis", "iade"},
     !.urun = p1 :> YokUrun, !.varyant = v1 :> YokVaryant]

\* Options are put together.
Secenek ==
  [Dukkan("MARKET") EXCEPT
     !.isler = {"secenekGrubuOlustur", "secenekGrubuGuncelle", "secenekGrubuSil", "secenekEkle",
                "secenekGuncelle", "secenekSil", "urunSecenekGruplari"},
     !.rol = @ \cup {<<w, "STORE_STOCK", s1>>}, !.kadro = {<<s1, w>>},
     !.urun = p1 :> Urun(s1, 999), !.grup = g1 :> YokGrup,
     !.secenek = (o1 :> YokSecenek) @@ (o2 :> YokSecenek)]

\* Pictures and categories.
Medya ==
  [Dukkan("MARKET") EXCEPT
     !.isler = {"medyaEkle", "medyaGuncelle", "medyaSil", "kategoriEkle"},
     !.urun = p1 :> Urun(s1, 999), !.medya = (md1 :> YokMedya) @@ (md2 :> YokMedya),
     !.kategori = (ct1 :> YokKategori) @@ (ct2 :> YokKategori)]

\* A customer fills a cart of BaniCarsi while surcharges and prices change.
Carsida ==
  [Dukkan("CARSI") EXCEPT
     !.isler = {"addItem", "removeItem", "secenekGuncelle", "urunGuncelle"},
     !.kul = Hesaplar("ACTIVE", "BANNED", "BANNED"),
     !.urun = p1 :> CarsiUrunu(s1, 999),
     !.varyant = v1 :> [p |-> p1, aktif |-> TRUE, silindi |-> FALSE, stok |-> <<>>,
                        fiyat |-> <<VitrinFiyatHesapla(501, 2, "B", 10)>>],
     !.grup = g1 :> [s |-> s1, min |-> 1, max |-> 1, zorunlu |-> TRUE, aktif |-> TRUE],
     !.secenek = o1 :> [g |-> g1, ek |-> 33, aktif |-> TRUE],
     !.bag = {<<p1, g1>>}, !.kalem = k1 :> YokKalem]

\* A customer buys in two stores of the market, whose owners do not buy.
Markette ==
  [Dukkan("MARKET") EXCEPT
     !.isler = {"addItem", "updateItem", "removeItem", "clear"},
     !.kul = Hesaplar("BANNED", "BANNED", "ACTIVE"),
     !.satici = [@ EXCEPT ![w] = Saticisi("ACTIVE", "MARKET").satici[m]],
     !.magaza = (s1 :> Magaza(m, "MARKET")) @@ (s2 :> Magaza(w, "MARKET")),
     !.urun = (p1 :> Urun(s1, 999)) @@ (p2 :> Urun(s2, 500)),
     !.kalem = (k1 :> YokKalem) @@ (k2 :> YokKalem)]

MCSahneler ==
  {Kodlar, Giris, Devir, Basvuru, Inceleme, Kurulus, Personel, Bolge, Kapsam, Stok, Varyant, Secenek, Medya,
   Carsida, Markette}

Simetri == Permutations(Requests)
=============================================================================
