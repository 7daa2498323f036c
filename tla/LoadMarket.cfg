SPECIFICATION Spec
CONSTANTS
  f = f
  c1 = c1
  c2 = c2
  adm = adm
  i1 = i1
  i2 = i2
  t0 = t0
  t1 = t1
  t2 = t2
  o1 = o1
  b1 = b1
  Users = {f, c1, c2, adm}
  Firmalar <- MCFirmalar
  Tasiyicilar <- MCTasiyicilar
  Adminler = {adm}
  Ilanlar = {i1, i2}
  Teklifler = {t0, t1, t2}
  Requests = {r1, r2}
  Boards = {"yuk", "arac", "ev"}
  Fiyatlar = {20}
  Bildirimler <- MCBildirimler
  Puanlar = {5}
  PAZARLIK_ELI = 1
  KYC_KILIT_AKTIF = FALSE
  KOMISYON_KILIT_AKTIF = TRUE
  Sozlesmeler <- MCSozlesmeler
  Yuklenenler <- MCYuklenenler
  Openings <- MCOpenings
  NoUser = NoUser
  NoIlan = NoIlan
  NoTeklif = NoTeklif
INVARIANTS TypeOK TekKazanan PazarlikSinirli PuanTek
PROPERTIES EvKilitKesin TemizlikYetisir
CHECK_DEADLOCK FALSE
