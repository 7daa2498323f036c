SPECIFICATION Spec
CONSTANTS
  m = m
  w = w
  adm = adm
  s1 = s1
  s2 = s2
  b1 = b1
  b2 = b2
  p1 = p1
  p2 = p2
  v1 = v1
  g1 = g1
  o1 = o1
  o2 = o2
  md1 = md1
  md2 = md2
  ct1 = ct1
  ct2 = ct2
  k1 = k1
  k2 = k2
  Requests = {r1, r2}
  Users = {m, w, adm}
  Stores = {s1, s2}
  NoStore = NoStore
  NoUser = NoUser
  NoRow = NoRow
  IzinTablosu <- MCIzinTablosu
  SecilenRoller <- MCSecilenRoller
  Yaptirimlar = {"BANNED", "ACTIVE"}
  RolAtamalari <- MCRolAtamalari
  MAX_ATTEMPTS = 2
  OTP_SINIRI = 2
  JETON_SINIRI = 3
  DEVIR_SINIRI = 1
  Dikeyler = {"MARKET", "CARSI"}
  BELGE_SINIRI = 2
  Listeler <- MCListeler
  TALEP_SINIRI = 2
  REV_SINIRI = 2
  DESI_TARIFE_KURUS <- MCTarife
  DESI_USTU_BIRIM_KURUS = 1400
  commissionRate = 850
  YeniUrunler <- MCYeniUrunler
  UrunDegisiklikleri <- MCUrunDegisiklikleri
  YeniVaryantlar <- MCYeniVaryantlar
  VaryantDegisiklikleri <- MCVaryantDegisiklikleri
  YeniGruplar <- MCYeniGruplar
  GrupDegisiklikleri <- MCGrupDegisiklikleri
  EkUcretler <- MCEkUcretler
  SATIS_SINIRI = 2
  ADET_SINIRI = 2
  Sahneler <- MCSahneler
SYMMETRY Simetri
INVARIANTS TypeOK DevirTek TekIlkMagaza SatisEzilmez DagitimTutar
PROPERTIES YaptirimKalir SaticiGecisleri OnayTaban
CHECK_DEADLOCK FALSE
