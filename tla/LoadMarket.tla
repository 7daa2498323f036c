------------------------------ MODULE LoadMarket ------------------------------
(***************************************************************************)
(* The freight market as a whole: the three boards over one set of users,  *)
(* debts, contracts and documents; the hourly clean-up of listings whose   *)
(* date has passed; the ratings given when a job is done.                  *)
(***************************************************************************)
EXTENDS EvdenEve

CONSTANT Openings  \* states of the tables a run starts from

-----------------------------------------------------------------------------
(* Tables the program itself may have left: the empty ones, and those after any     *)
(* number of listings, offers and finished jobs, with no handler on its way.         *)

IlanDurum(tur) ==
  CASE tur = "yuk" -> YukIlaniDurum
    [] tur = "arac" -> AracIlaniDurum
    [] tur = "ev" -> EvIlaniDurum
    [] OTHER -> {}

IlanRow ==
  [tur : {"yuk", "arac", "ev"}, sahip : Users,
   durum : YukIlaniDurum \cup AracIlaniDurum \cup EvIlaniDurum,
   secili : Teklifler \cup {NoTeklif}, beyan : BOOLEAN, onay : BOOLEAN, gecmis : BOOLEAN]

TeklifRow ==
  [ilan : Ilanlar, veren : Users, durum : TeklifDurum \cup EvTeklifDurum,
   taraf : {"FIRMA", "TASIYICI", "YOK"}, el : Nat, fiyat : Nat, kesin : Nat]

\* A status is one of the board's, the chosen offer one of the listing's, and a locked
\* house move has one.
IlanTutarli(il, te, i) ==
  /\ il[i] # YokIlan => il[i].durum \in IlanDurum(il[i].tur)
  /\ il[i].secili # NoTeklif => te[il[i].secili].ilan = i
  /\ il[i].tur = "ev" /\ il[i].durum \in {"KILITLENDI", "TAMAMLANDI"} =>
       il[i].secili # NoTeklif

\* An offer is for a listing of somebody else; one accepted for a vehicle or a house move
\* is the one chosen there.
TeklifTutarli(il, te, t) ==
  LET i == te[t].ilan
  IN te[t] # YokTeklif =>
       /\ il[i] # YokIlan
       /\ te[t].veren # il[i].sahip
       /\ il[i].tur = "arac" /\ te[t].durum = "KABUL" =>
            il[i].secili = t /\ il[i].durum # "MUSAIT"
       /\ il[i].tur = "ev" =>
            (te[t].durum = "KABUL" <=>
               il[i].secili = t /\ il[i].durum \in {"KILITLENDI", "TAMAMLANDI"})

Tutarli(il, te) ==
  /\ il \in [Ilanlar -> IlanRow \cup {YokIlan}]
  /\ te \in [Teklifler -> TeklifRow \cup {YokTeklif}]
  /\ \A i \in Ilanlar : IlanTutarli(il, te, i)
  /\ \A t \in Teklifler : TeklifTutarli(il, te, t)

ASSUME OpeningsAssumption ==
  \A o \in Openings :
    /\ Tutarli(o.ilan, o.teklif)
    /\ \A t \in Teklifler : o.teklif[t].el <= PAZARLIK_ELI + Cardinality(Requests) - 1

-----------------------------------------------------------------------------
(* otomatikTemizlik: four statements, each its own write; a stop or an     *)
(* error between two of them leaves the rest to the next hour.  It runs    *)
(* beside the handlers and is counted among the Requests.                  *)

\* Time: the day of an offered job passes.
GunGecer(i) ==
  /\ ilan[i].tur \in {"yuk", "arac"}
  /\ EslesmeyeAcik(i) /\ ~ilan[i].gecmis
  /\ ilan' = [ilan EXCEPT ![i].gecmis = TRUE]
  /\ UNCHANGED <<teklif, hesapVars, req>>

\* Mistake: an expired load that has already got offers is left open.
TemizlenirMi_NewOnly(i) == ilan[i].gecmis /\ ilan[i].durum \in {"ACIK", "MUSAIT"}

TemizlenirMi(i) == ilan[i].gecmis /\ EslesmeyeAcik(i)

KapaliDurum(tur) == IF tur = "yuk" THEN "IPTAL" ELSE "PASIF"

IlanlariKapat(tur) ==
  /\ ilan' = [i \in Ilanlar |-> IF ilan[i].tur = tur /\ TemizlenirMi(i)
                                THEN [ilan[i] EXCEPT !.durum = KapaliDurum(tur)]
                                ELSE ilan[i]]
  /\ UNCHANGED teklif

\* A waiting offer of a closed listing, whoever closed it.
Bekleyen(tur) ==
  {t \in Teklifler : /\ teklif[t].durum = "BEKLIYOR"
                     /\ ilan[teklif[t].ilan].tur = tur
                     /\ ilan[teklif[t].ilan].durum = KapaliDurum(tur)}

TeklifleriReddet(tur) ==
  /\ teklif' = [t \in Teklifler |-> IF t \in Bekleyen(tur)
                                    THEN [teklif[t] EXCEPT !.durum = "RED"] ELSE teklif[t]]
  /\ UNCHANGED ilan

\* Statement k of the four; the first finds the request free.
OtomatikTemizlik(r, k) ==
  /\ req[r] = IF k = 1 THEN Bos ELSE [Bos EXCEPT !.op = "temizlik", !.sayi = k]
  /\ req' = [req EXCEPT ![r] =
       IF k = 4 THEN Bos ELSE [Bos EXCEPT !.op = "temizlik", !.sayi = k + 1]]
  /\ \/ k = 1 /\ IlanlariKapat("yuk")
     \/ k = 2 /\ TeklifleriReddet("yuk")
     \/ k = 3 /\ IlanlariKapat("arac")
     \/ k = 4 /\ TeklifleriReddet("arac")
  /\ UNCHANGED hesapVars

-----------------------------------------------------------------------------
(* Ratings *)

\* Who may rate whom for a finished job; of a house move the customer alone.
Puanlayabilir(i, u) ==
  LET t == ilan[i].secili
  IN /\ t # NoTeklif
     /\ \/ ilan[i].tur = "yuk" /\ ilan[i].durum = "TAMAMLANDI" /\ TarafiMi(t, u)
        \/ ilan[i].tur = "arac" /\ ilan[i].onay /\ TarafiMi(t, u)
        \/ ilan[i].tur = "ev" /\ ilan[i].durum = "TAMAMLANDI" /\ ilan[i].sahip = u

Karsi(i, u) == IF ilan[i].sahip = u THEN teklif[ilan[i].secili].veren ELSE ilan[i].sahip

\* The two averages of a user: one for loads and vehicles, one for house moves.
Defter(i) == IF ilan[i].tur = "ev" THEN "ev" ELSE "genel"

DegerlendirOku(r, i, u) ==
  /\ Puanlayabilir(i, u)
  /\ Oku(r, [Bos EXCEPT !.op = "degerlendir", !.ilan = i, !.by = u, !.alan = Karsi(i, u),
                        !.sayi = puan[Karsi(i, u)][Defter(i)].sayi,
                        !.ort = puan[Karsi(i, u)][Defter(i)].ort])

\* Mistake: the table lets the same user rate a job twice.
PuanVarMi_Never(u, i) == FALSE

\* The unique key of load_degerlendirmeler.
PuanVarMi(u, i) == <<u, i>> \in degerler

\* Mistake: the average is not divided again.
YeniOrtalama_Sum(ort, sayi, p) == ort * sayi + 100 * p

\* Math.round of the average, in hundredths.
YeniOrtalama(ort, sayi, p) ==
  LET n == sayi + 1
  IN (2 * (ort * sayi + 100 * p) + n) \div (2 * n)

\* The transaction read the receiver's average before it writes the new one, and locks
\* nothing in between.
DegerlendirYaz(r) ==
  LET q == req[r]
  IN /\ q.op = "degerlendir"
     /\ ~PuanVarMi(q.by, q.ilan)
     /\ degerler' = degerler \cup {<<q.by, q.ilan>>}
     /\ \E p \in Puanlar :
          puan' = [puan EXCEPT ![q.alan][Defter(q.ilan)] =
                     [ort |-> YeniOrtalama(q.ort, q.sayi, p), sayi |-> q.sayi + 1]]
     /\ Bitir(r)
     /\ UNCHANGED <<ilan, teklif, odeme, belge, onay, isler>>

DegerlendirTekrar(r) ==
  /\ req[r].op = "degerlendir"
  /\ PuanVarMi(req[r].by, req[r].ilan)
  /\ Cakisma(r)

-----------------------------------------------------------------------------
Init ==
  /\ \E o \in Openings :
       /\ ilan = o.ilan /\ teklif = o.teklif
       /\ odeme = o.odeme /\ belge = o.belge /\ onay = o.onay
  /\ degerler = {}
  /\ puan = [u \in Users |-> [d \in {"genel", "ev"} |-> [ort |-> 0, sayi |-> 0]]]
  /\ isler = {}
  /\ req = [r \in Requests |-> Bos]

HesapNext ==
  \/ \E o \in DOMAIN odeme, b \in Bildirimler : KomisyonBildir(o, b[1], b[2])
  \/ \E r \in Requests, o \in DOMAIN odeme, u \in Adminler :
       \/ OdemeKararOku(r, "komisyonOnayla", o, u)
       \/ OdemeKararOku(r, "komisyonReddet", o, u)
  \/ \E s \in Sozlesmeler : SozlesmeOnayla(s[1], s[2])
  \/ \E b \in DOMAIN belge, y \in Yuklenenler : BelgeKaydet(b, y[1], y[2])
  \/ \E b \in DOMAIN belge : BelgeOnayla(b) \/ BelgeReddet(b)

Yaz(r) ==
  \/ YukYaz(r)
  \/ AracYaz(r)
  \/ EvYaz(r)
  \/ KomisyonOnayla(r)
  \/ KomisyonReddet(r)
  \/ DegerlendirYaz(r)
  \/ DegerlendirTekrar(r)

Next ==
  \/ YukNext \/ AracNext \/ EvNext \/ HesapNext
  \/ \E r \in Requests : Yaz(r) \/ Durur(r)
  \/ \E r \in Requests, i \in Ilanlar, u \in Users : DegerlendirOku(r, i, u)
  \/ \E i \in Ilanlar : GunGecer(i)
  \/ \E r \in Requests, k \in 1..4 : OtomatikTemizlik(r, k)

\* A handler that has read goes on to write or its process stops; the clean-up runs every
\* hour, and the database does not fail at the same statement for ever.
Fairness ==
  /\ \A r \in Requests : WF_vars(Durur(r) \/ Yaz(r))
  /\ \A k \in 1..4 : SF_vars(\E r \in Requests : OtomatikTemizlik(r, k))

Spec == Init /\ [][Next]_vars /\ Fairness

-----------------------------------------------------------------------------
(* Properties *)

TypeOK ==
  /\ \A i \in Ilanlar :
       /\ ilan[i].durum \in {"YOK"} \cup IlanDurum(ilan[i].tur)
       /\ ilan[i].sahip \in Users \cup {NoUser}
       /\ ilan[i].secili \in Teklifler \cup {NoTeklif}
  /\ \A t \in Teklifler :
       /\ teklif[t].durum \in {"YOK"} \cup TeklifDurum \cup EvTeklifDurum
       /\ teklif[t].el \in Nat /\ teklif[t].fiyat \in Nat /\ teklif[t].kesin \in Nat
  /\ \A u \in Users, d \in {"genel", "ev"} : puan[u][d].ort \in 0..500

Kabuller(i) == {t \in TekliflerOf(i) : teklif[t].durum = "KABUL"}

\* Whatever handlers interleave, a vehicle is matched with one offer at most and a house
\* move is locked to exactly the offer whose survey was accepted (aracTeklifKabul,
\* kesfeDavet and kesinFiyatKabul race each other and onTeklifVer).
TekKazanan ==
  \A i \in Ilanlar :
    /\ ilan[i].tur \in {"arac", "ev"} => Kabuller(i) \subseteq {ilan[i].secili}
    /\ ilan[i].durum = "KILITLENDI" => Kabuller(i) = {ilan[i].secili}

\* The price both sides locked a house move at is the price its commission is taken from:
\* from the lock on no later survey, offer or retry changes the winning offer.
EvKilitKesin ==
  [][\A i \in Ilanlar :
       ilan[i].tur = "ev" /\ ilan[i].durum \in {"KILITLENDI", "TAMAMLANDI"} =>
         /\ ilan'[i].secili = ilan[i].secili
         /\ teklif'[ilan[i].secili] = teklif[ilan[i].secili]]_vars

\* Bargaining ends: an offer passes the limit of counter-offers only by what was already
\* on its way when the limit was reached (yukKarsiTeklif and aracKarsiTeklif).
PazarlikSinirli ==
  \A t \in Teklifler : teklif[t].el <= PAZARLIK_ELI + Cardinality(Requests) - 1

\* A rating counts once: concurrent ratings may lose one another's share of the average,
\* but nobody's count ever exceeds the jobs he was rated for (degerlendir).
PuanTek ==
  \A u \in Users :
    puan[u]["genel"].sayi + puan[u]["ev"].sayi
      <= Cardinality({d \in degerler : d[1] # u /\ u \in
           {ilan[d[2]].sahip} \cup {teklif[t].veren : t \in TekliflerOf(d[2])}})

\* The hourly clean-up wins: whatever stale offer reopens a listing or still arrives at a
\* closed one, the market returns to having no expired listing open and no offer waiting on
\* a closed one (otomatikTemizlik against teklifVer and aracTeklifVer).
TemizlikYetisir ==
  []<>(/\ \A i \in Ilanlar : ~(EslesmeyeAcik(i) /\ ilan[i].gecmis)
       /\ Bekleyen("yuk") \cup Bekleyen("arac") = {})

\* load.service.ts:509, "cift kabul engeli": no load is ever accepted for two carriers.  The
\* code does not keep this: an offer that read the listing ACIK reopens a matched one
\* (teklifVer), and a second offer is accepted.
CiftKabulEngeli ==
  \A i \in Ilanlar : ilan[i].tur = "yuk" => Cardinality(Kabuller(i)) <= 1
=============================================================================
