-------------------------- MODULE LoadMarketProofs --------------------------
(***************************************************************************)
(* Machine-checked proofs about LoadMarket, for any users, listings,       *)
(* offers and handlers, from any tables that are consistent.  The          *)
(* inductive invariant adds to the properties how the two tables agree     *)
(* (Tutarli), what a handler still knows of the rows it has read (Bilir),  *)
(* and that a counter-offer or a rating on its way is accounted for.       *)
(***************************************************************************)
EXTENDS LoadMarket, SumLemmas

Kilitli == {"KILITLENDI", "TAMAMLANDI"}

\* From the tables il, te to il2, te2 no row is lost or changes hands.
Korunur(il, te, il2, te2) ==
  /\ \A i \in Ilanlar : il[i] # YokIlan =>
       il2[i] # YokIlan /\ il2[i].tur = il[i].tur /\ il2[i].sahip = il[i].sahip
  /\ \A t \in Teklifler : te[t] # YokTeklif =>
       te2[t] # YokTeklif /\ te2[t].ilan = te[t].ilan /\ te2[t].veren = te[t].veren

\* A locked house move stays locked to the same offer, and that offer as it is.
Sabit(il, te, il2, te2) ==
  \A i \in Ilanlar : il[i].tur = "ev" /\ il[i].durum \in Kilitli =>
    /\ il2[i].secili = il[i].secili
    /\ te2[il[i].secili] = te[il[i].secili]

\* What every step makes of the two tables.
Gecer(il, te, il2, te2) ==
  /\ Tutarli(il2, te2)
  /\ Korunur(il, te, il2, te2)
  /\ Sabit(il, te, il2, te2)

\* A listing b that may take the place of a: the same job, not freed and not unlocked.
IlanGider(a, b) ==
  /\ b \in IlanRow \cup {YokIlan} /\ (b = YokIlan <=> a = YokIlan)
  /\ b # YokIlan => b.durum \in IlanDurum(b.tur)
  /\ b.tur = a.tur /\ b.sahip = a.sahip /\ b.secili = a.secili
  /\ b.durum = "MUSAIT" => a.durum = "MUSAIT"
  /\ a.tur = "ev" => (b.durum \in Kilitli <=> a.durum \in Kilitli)

\* Likewise an offer on a listing of board tur: nothing but an acceptance accepts it.
TeklifGider(tur, a, b) ==
  /\ b \in TeklifRow \cup {YokTeklif} /\ (b = YokTeklif <=> a = YokTeklif)
  /\ b.ilan = a.ilan /\ b.veren = a.veren
  /\ b.durum = "KABUL" => a.durum = "KABUL"
  /\ tur = "ev" /\ a.durum = "KABUL" => b = a

-----------------------------------------------------------------------------
(* The tables *)

LEMMA Durumlar ==
  /\ IlanDurum("yuk") = YukIlaniDurum
  /\ IlanDurum("arac") = AracIlaniDurum
  /\ IlanDurum("ev") = EvIlaniDurum
BY DEF IlanDurum

LEMMA IlanVar ==
  ASSUME NEW il, NEW te, Tutarli(il, te), NEW i \in Ilanlar, il[i].tur \in {"yuk", "arac", "ev"}
  PROVE  il[i] # YokIlan /\ il[i] \in IlanRow /\ il[i].durum \in IlanDurum(il[i].tur)
BY DEF Tutarli, IlanTutarli, YokIlan

LEMMA TeklifVar ==
  ASSUME NEW il, NEW te, Tutarli(il, te), NEW t \in Teklifler, te[t] # YokTeklif
  PROVE  te[t] \in TeklifRow /\ te[t].ilan \in Ilanlar /\ il[te[t].ilan] # YokIlan
<1>1. te[t] \in TeklifRow
  BY DEF Tutarli
<1>2. il[te[t].ilan] # YokIlan
  BY DEF Tutarli, TeklifTutarli
<1> QED BY <1>1, <1>2 DEF TeklifRow

\* An accepted offer for a house move is the one its listing is locked to.
LEMMA KilitliTeklif ==
  ASSUME NEW il, NEW te, Tutarli(il, te), NEW i \in Ilanlar,
         il[i].tur = "ev", il[i].durum \in Kilitli
  PROVE  /\ il[i].secili \in Teklifler
         /\ te[il[i].secili] # YokTeklif
         /\ te[il[i].secili].ilan = i
         /\ te[il[i].secili].durum = "KABUL"
<1>1. il[i].secili # NoTeklif /\ te[il[i].secili].ilan = i
  BY DEF Tutarli, IlanTutarli, Kilitli
<1>2. il[i].secili \in Teklifler
  BY <1>1, IlanVar DEF IlanRow
<1>3. te[il[i].secili] # YokTeklif
  BY <1>1, LoadAssumption DEF YokTeklif
<1> QED BY <1>1, <1>2, <1>3 DEF Tutarli, TeklifTutarli, Kilitli

LEMMA NoTeklifYok == \A t \in Teklifler : t # NoTeklif
BY LoadAssumption

LEMMA AyniGecer ==
  ASSUME NEW il, NEW te, Tutarli(il, te)
  PROVE  Gecer(il, te, il, te)
BY DEF Gecer, Korunur, Sabit

\* Rows that go on as they may leave the tables consistent.
LEMMA GiderGecer ==
  ASSUME NEW il, NEW te, Tutarli(il, te), NEW il2, NEW te2,
         il2 = [i \in Ilanlar |-> il2[i]], \A i \in Ilanlar : IlanGider(il[i], il2[i]),
         te2 = [t \in Teklifler |-> te2[t]],
         \A t \in Teklifler : TeklifGider(il[te[t].ilan].tur, te[t], te2[t])
  PROVE  Gecer(il, te, il2, te2)
<1>1. il2 \in [Ilanlar -> IlanRow \cup {YokIlan}]
  BY DEF IlanGider
<1>2. te2 \in [Teklifler -> TeklifRow \cup {YokTeklif}]
  BY DEF TeklifGider
<1>3. ASSUME NEW i \in Ilanlar PROVE IlanTutarli(il2, te2, i)
  <2>1. /\ il2[i] # YokIlan => il2[i].durum \in IlanDurum(il2[i].tur)
        /\ il2[i].secili = il[i].secili /\ il2[i].tur = il[i].tur
        /\ il[i].tur = "ev" => (il2[i].durum \in Kilitli <=> il[i].durum \in Kilitli)
    BY <1>3 DEF IlanGider
  <2>2. ASSUME il[i].secili # NoTeklif PROVE te2[il[i].secili].ilan = i
    <3>1. il[i].secili \in Teklifler
      BY <2>2, <1>3 DEF Tutarli, IlanRow, YokIlan
    <3>2. te[il[i].secili].ilan = i
      BY <2>2, <1>3 DEF Tutarli, IlanTutarli
    <3> QED BY <3>1, <3>2 DEF TeklifGider
  <2>3. il[i].tur = "ev" /\ il[i].durum \in Kilitli => il[i].secili # NoTeklif
    BY <1>3 DEF Tutarli, IlanTutarli, Kilitli
  <2> QED BY <2>1, <2>2, <2>3 DEF IlanTutarli, Kilitli
<1>4. ASSUME NEW t \in Teklifler PROVE TeklifTutarli(il2, te2, t)
  <2> SUFFICES ASSUME te2[t] # YokTeklif PROVE TeklifTutarli(il2, te2, t)
    BY DEF TeklifTutarli
  <2> DEFINE i == te[t].ilan
  <2>1. /\ te[t] # YokTeklif
        /\ te2[t].ilan = i /\ te2[t].veren = te[t].veren
        /\ te2[t].durum = "KABUL" => te[t].durum = "KABUL"
        /\ il[i].tur = "ev" /\ te[t].durum = "KABUL" => te2[t] = te[t]
    BY <1>4 DEF TeklifGider
  <2>2. i \in Ilanlar /\ il[i] # YokIlan
    BY <2>1, TeklifVar
  <2>3. /\ il2[i] # YokIlan
        /\ il2[i].tur = il[i].tur /\ il2[i].sahip = il[i].sahip /\ il2[i].secili = il[i].secili
        /\ il2[i].durum = "MUSAIT" => il[i].durum = "MUSAIT"
        /\ il[i].tur = "ev" => (il2[i].durum \in Kilitli <=> il[i].durum \in Kilitli)
    BY <2>2 DEF IlanGider
  <2>4. /\ te[t].veren # il[i].sahip
        /\ il[i].tur = "arac" /\ te[t].durum = "KABUL" =>
             il[i].secili = t /\ il[i].durum # "MUSAIT"
        /\ il[i].tur = "ev" =>
             (te[t].durum = "KABUL" <=> il[i].secili = t /\ il[i].durum \in Kilitli)
    BY <1>4, <2>1 DEF Tutarli, TeklifTutarli, Kilitli
  <2> QED BY <2>1, <2>3, <2>4 DEF TeklifTutarli, Kilitli
<1>5. Tutarli(il2, te2)
  BY <1>1, <1>2, <1>3, <1>4 DEF Tutarli
<1>6. Korunur(il, te, il2, te2)
  BY DEF Korunur, IlanGider, TeklifGider
<1>7. ASSUME NEW i \in Ilanlar, il[i].tur = "ev", il[i].durum \in Kilitli
      PROVE  /\ il2[i].secili = il[i].secili
             /\ te2[il[i].secili] = te[il[i].secili]
  <2>1. /\ il[i].secili \in Teklifler
        /\ te[il[i].secili].ilan = i
        /\ te[il[i].secili].durum = "KABUL"
    BY <1>7, KilitliTeklif
  <2>2. TeklifGider(il[i].tur, te[il[i].secili], te2[il[i].secili])
    BY <2>1
  <2> QED BY <1>7, <2>1, <2>2 DEF IlanGider, TeklifGider
<1> QED BY <1>5, <1>6, <1>7 DEF Gecer, Sabit

\* One listing goes on.
LEMMA IlanYazilir ==
  ASSUME NEW il, NEW te, Tutarli(il, te), NEW i \in Ilanlar, NEW b, IlanGider(il[i], b)
  PROVE  Gecer(il, te, [il EXCEPT ![i] = b], te)
<1> DEFINE il2 == [il EXCEPT ![i] = b]
<1>1. \A j \in Ilanlar : IlanGider(il[j], il[j])
  BY DEF IlanGider, Tutarli, IlanTutarli
<1>2. \A t \in Teklifler : TeklifGider(il[te[t].ilan].tur, te[t], te[t])
  BY DEF TeklifGider, Tutarli
<1>3. /\ il = [j \in Ilanlar |-> il[j]] /\ te = [t \in Teklifler |-> te[t]]
  BY DEF Tutarli
<1>4. il2 = [j \in Ilanlar |-> il2[j]] /\ \A j \in Ilanlar : il2[j] = IF j = i THEN b ELSE il[j]
  BY <1>3
<1>5. \A j \in Ilanlar : IlanGider(il[j], il2[j])
  BY <1>1, <1>4
<1> HIDE DEF il2
<1>6. Gecer(il, te, il2, te)
  BY <1>2, <1>3, <1>4, <1>5, GiderGecer
<1> QED BY <1>6 DEF il2

\* One offer goes on.
LEMMA TeklifYazilir ==
  ASSUME NEW il, NEW te, Tutarli(il, te), NEW t \in Teklifler, NEW b,
         TeklifGider(il[te[t].ilan].tur, te[t], b)
  PROVE  Gecer(il, te, il, [te EXCEPT ![t] = b])
<1> DEFINE te2 == [te EXCEPT ![t] = b]
<1>1. \A j \in Ilanlar : IlanGider(il[j], il[j])
  BY DEF IlanGider, Tutarli, IlanTutarli
<1>2. \A x \in Teklifler : TeklifGider(il[te[x].ilan].tur, te[x], te[x])
  BY DEF TeklifGider, Tutarli
<1>3. /\ il = [j \in Ilanlar |-> il[j]] /\ te = [x \in Teklifler |-> te[x]]
  BY DEF Tutarli
<1>4. te2 = [x \in Teklifler |-> te2[x]] /\ \A x \in Teklifler : te2[x] = IF x = t THEN b ELSE te[x]
  BY <1>3
<1>5. \A x \in Teklifler : TeklifGider(il[te[x].ilan].tur, te[x], te2[x])
  BY <1>2, <1>4
<1> HIDE DEF te2
<1>6. Gecer(il, te, il, te2)
  BY <1>1, <1>3, <1>4, <1>5, GiderGecer
<1> QED BY <1>6 DEF te2

\* A new listing takes a free row.
LEMMA IlanEklenir ==
  ASSUME NEW il, NEW te, Tutarli(il, te), NEW i \in Ilanlar, il[i] = YokIlan,
         NEW b \in IlanRow, b.durum \in IlanDurum(b.tur), b.secili = NoTeklif,
         b.durum \notin Kilitli
  PROVE  Gecer(il, te, [il EXCEPT ![i] = b], te)
<1> DEFINE il2 == [il EXCEPT ![i] = b]
<1>1. /\ il2 \in [Ilanlar -> IlanRow \cup {YokIlan}]
      /\ \A j \in Ilanlar : il2[j] = IF j = i THEN b ELSE il[j]
  BY DEF Tutarli
<1>2. b # YokIlan
  BY LoadAssumption DEF IlanRow, YokIlan
<1> HIDE DEF il2
<1>3. ASSUME NEW j \in Ilanlar PROVE IlanTutarli(il2, te, j)
  BY <1>1 DEF IlanTutarli, Tutarli, Kilitli
<1>4. ASSUME NEW t \in Teklifler PROVE TeklifTutarli(il2, te, t)
  <2>1. te[t] # YokTeklif => te[t].ilan \in Ilanlar /\ te[t].ilan # i
    BY TeklifVar
  <2> QED BY <1>1, <2>1 DEF TeklifTutarli, Tutarli
<1>5. Tutarli(il2, te)
  BY <1>1, <1>3, <1>4 DEF Tutarli
<1>6. Korunur(il, te, il2, te)
  BY <1>1 DEF Korunur
<1>7. Sabit(il, te, il2, te)
  BY <1>1 DEF Sabit, YokIlan
<1> QED BY <1>5, <1>6, <1>7 DEF Gecer, il2

\* A new offer takes a free row, on a listing of somebody else.
LEMMA TeklifEklenir ==
  ASSUME NEW il, NEW te, Tutarli(il, te), NEW t \in Teklifler, te[t] = YokTeklif,
         NEW b \in TeklifRow, il[b.ilan] # YokIlan, b.veren # il[b.ilan].sahip,
         b.durum # "KABUL"
  PROVE  Gecer(il, te, il, [te EXCEPT ![t] = b])
<1> DEFINE te2 == [te EXCEPT ![t] = b]
<1>1. /\ te2 \in [Teklifler -> TeklifRow \cup {YokTeklif}]
      /\ \A x \in Teklifler : te2[x] = IF x = t THEN b ELSE te[x]
  BY DEF Tutarli
<1>2. b.ilan \in Ilanlar /\ b # YokTeklif
  BY LoadAssumption DEF TeklifRow, YokTeklif
<1>3. ASSUME NEW j \in Ilanlar, il[j].secili # NoTeklif
      PROVE  il[j].secili \in Teklifler /\ il[j].secili # t
  <2>1. il[j].secili \in Teklifler
    BY <1>3 DEF Tutarli, IlanRow, YokIlan
  <2>2. te[il[j].secili].ilan = j
    BY <1>3 DEF Tutarli, IlanTutarli
  <2> QED BY <2>1, <2>2, LoadAssumption DEF YokTeklif
<1> HIDE DEF te2
<1>4. ASSUME NEW j \in Ilanlar PROVE IlanTutarli(il, te2, j)
  BY <1>1, <1>3 DEF IlanTutarli, Tutarli
<1>5. ASSUME NEW x \in Teklifler PROVE TeklifTutarli(il, te2, x)
  <2>1. CASE x = t
    <3>1. te2[t] = b /\ il[b.ilan].secili # t
      BY <1>1, <1>2, <1>3, NoTeklifYok DEF Tutarli
    <3> QED BY <2>1, <3>1 DEF TeklifTutarli
  <2>2. CASE x # t
    BY <1>1, <2>2 DEF TeklifTutarli, Tutarli
  <2> QED BY <2>1, <2>2
<1>6. Tutarli(il, te2)
  BY <1>1, <1>4, <1>5 DEF Tutarli
<1>7. Korunur(il, te, il, te2)
  BY <1>1 DEF Korunur
<1>8. Sabit(il, te, il, te2)
  <2>1. ASSUME NEW j \in Ilanlar, il[j].tur = "ev", il[j].durum \in Kilitli
        PROVE  te2[il[j].secili] = te[il[j].secili]
    <3>1. il[j].secili # NoTeklif
      BY <2>1 DEF Tutarli, IlanTutarli, Kilitli
    <3> QED BY <1>1, <1>3, <3>1
  <2> QED BY <2>1 DEF Sabit
<1> QED BY <1>6, <1>7, <1>8 DEF Gecer, te2

\* An offer t is chosen for listing i, where none was accepted before.
LEMMA SecilirGecer ==
  ASSUME NEW il, NEW te, Tutarli(il, te), NEW i \in Ilanlar, NEW t \in Teklifler,
         te[t].ilan = i,
         il[i].tur \in {"arac", "ev"} =>
           \A x \in Teklifler : te[x].ilan = i => te[x].durum # "KABUL",
         NEW a \in IlanRow, a.tur = il[i].tur, a.sahip = il[i].sahip, a.secili = t,
         a.durum \in IlanDurum(a.tur), a.durum # "MUSAIT",
         NEW te2, te2 = [x \in Teklifler |-> te2[x]],
         te2[t] \in TeklifRow, te2[t].ilan = i, te2[t].veren = te[t].veren,
         a.tur = "ev" => (te2[t].durum = "KABUL" <=> a.durum \in Kilitli),
         \A x \in Teklifler \ {t} : TeklifGider(il[te[x].ilan].tur, te[x], te2[x])
  PROVE  Gecer(il, te, [il EXCEPT ![i] = a], te2)
<1> DEFINE il2 == [il EXCEPT ![i] = a]
<1>1. /\ il2 \in [Ilanlar -> IlanRow \cup {YokIlan}]
      /\ \A j \in Ilanlar : il2[j] = IF j = i THEN a ELSE il[j]
      /\ il2[i] = a
  BY DEF Tutarli
<1>2. te2 \in [Teklifler -> TeklifRow \cup {YokTeklif}]
  BY DEF TeklifGider
<1>3. /\ te[t] # YokTeklif /\ te2[t] # YokTeklif
      /\ a # YokIlan
      /\ te[t].veren # il[i].sahip
      /\ il[i] # YokIlan
  BY LoadAssumption DEF YokTeklif, YokIlan, IlanRow, TeklifRow, Tutarli, TeklifTutarli
<1> HIDE DEF il2
<1>4. ASSUME NEW x \in Teklifler PROVE te2[x].ilan = te[x].ilan
  BY DEF TeklifGider
<1>5. ASSUME NEW j \in Ilanlar PROVE IlanTutarli(il2, te2, j)
  <2>1. CASE j = i
    <3>1. t # NoTeklif
      BY LoadAssumption
    <3> QED BY <1>1, <2>1, <3>1 DEF IlanTutarli
  <2>2. CASE j # i
    <3>1. il2[j] = il[j] /\ IlanTutarli(il, te, j)
      BY <1>1, <2>2 DEF Tutarli
    <3>2. il[j].secili # NoTeklif => il[j].secili \in Teklifler
      BY DEF Tutarli, IlanRow, YokIlan
    <3> QED BY <1>4, <3>1, <3>2 DEF IlanTutarli
  <2> QED BY <2>1, <2>2
<1>6. ASSUME NEW x \in Teklifler PROVE TeklifTutarli(il2, te2, x)
  <2>1. CASE x = t
    BY <1>1, <1>3, <2>1 DEF TeklifTutarli, Kilitli
  <2>2. CASE x # t
    <3> SUFFICES ASSUME te2[x] # YokTeklif PROVE TeklifTutarli(il2, te2, x)
      BY DEF TeklifTutarli
    <3> DEFINE j == te[x].ilan
    <3>1. /\ te[x] # YokTeklif
          /\ te2[x].ilan = j /\ te2[x].veren = te[x].veren
          /\ te2[x].durum = "KABUL" => te[x].durum = "KABUL"
          /\ il[j].tur = "ev" /\ te[x].durum = "KABUL" => te2[x] = te[x]
      BY <2>2 DEF TeklifGider
    <3>2. j \in Ilanlar /\ il[j] # YokIlan
      BY <3>1, TeklifVar
    <3>3. TeklifTutarli(il, te, x)
      BY DEF Tutarli
    <3>4. CASE j = i
      <4>1. il[i].tur \in {"arac", "ev"} => te2[x].durum # "KABUL"
        BY <3>1, <3>4
      <4>2. te2[x].veren # a.sahip
        BY <3>1, <3>3, <3>4 DEF TeklifTutarli
      <4> QED BY <1>1, <1>3, <2>2, <3>1, <3>4, <4>1, <4>2 DEF TeklifTutarli
    <3>5. CASE j # i
      <4>1. il2[j] = il[j]
        BY <1>1, <3>2, <3>5
      <4> QED BY <3>1, <3>2, <3>3, <4>1 DEF TeklifTutarli
    <3> QED BY <3>4, <3>5
  <2> QED BY <2>1, <2>2
<1>7. Tutarli(il2, te2)
  BY <1>1, <1>2, <1>5, <1>6 DEF Tutarli
<1>8. Korunur(il, te, il2, te2)
  BY <1>1, <1>3 DEF Korunur, TeklifGider
<1>9. ASSUME NEW j \in Ilanlar, il[j].tur = "ev", il[j].durum \in Kilitli
      PROVE  /\ il2[j].secili = il[j].secili
             /\ te2[il[j].secili] = te[il[j].secili]
  <2>1. /\ il[j].secili \in Teklifler
        /\ te[il[j].secili].ilan = j
        /\ te[il[j].secili].durum = "KABUL"
    BY <1>9, KilitliTeklif
  <2>2. j # i /\ il[j].secili # t
    BY <1>9, <2>1
  <2>3. TeklifGider(il[j].tur, te[il[j].secili], te2[il[j].secili])
    BY <2>1, <2>2
  <2> QED BY <1>1, <1>9, <2>1, <2>2, <2>3 DEF TeklifGider
<1> QED BY <1>7, <1>8, <1>9 DEF Gecer, Sabit, il2

\* Two writes of one step.
LEMMA GecerGecer ==
  ASSUME NEW il, NEW te, Tutarli(il, te), NEW il2, NEW te2, Gecer(il, te, il2, te2),
         NEW il3, NEW te3, Gecer(il2, te2, il3, te3)
  PROVE  Gecer(il, te, il3, te3)
<1>1. Tutarli(il3, te3)
  BY DEF Gecer
<1>2. Korunur(il, te, il3, te3)
  BY DEF Gecer, Korunur
<1>3. ASSUME NEW j \in Ilanlar, il[j].tur = "ev", il[j].durum \in Kilitli
      PROVE  /\ il3[j].secili = il[j].secili
             /\ te3[il[j].secili] = te[il[j].secili]
  <2> DEFINE s == il[j].secili
  <2>1. s \in Teklifler /\ te[s].ilan = j /\ te[s].durum = "KABUL" /\ te[s] # YokTeklif
    BY <1>3, KilitliTeklif
  <2>2. il2[j].secili = s /\ te2[s] = te[s] /\ il2[j].tur = "ev"
    <3>1. il[j] # YokIlan
      BY <1>3 DEF YokIlan
    <3> QED BY <1>3, <3>1 DEF Gecer, Sabit, Korunur
  <2>3. il2[j].durum \in Kilitli
    BY <2>1, <2>2 DEF Gecer, Tutarli, TeklifTutarli, Kilitli
  <2> QED BY <2>2, <2>3 DEF Gecer, Sabit
<1> QED BY <1>1, <1>2, <1>3 DEF Gecer, Sabit

-----------------------------------------------------------------------------
(* What a handler knows, and what is on its way *)

Kayit(q) == "op" \in DOMAIN q

YukIsi == {"ilanIptal", "basla", "tamamla", "teklifVer"}
AracIsi == {"beyan", "aracTeklifVer"}
Bid == {"teklifVer", "aracTeklifVer", "onTeklif"}
TeklifIsi == {"geriCek", "reddet", "karsi", "kabul"}

\* u is the owner of listing i or has made an offer on it.
IsinTarafi(il, te, i, u) ==
  u = il[i].sahip \/ \E t \in Teklifler : te[t].ilan = i /\ te[t].veren = u

\* What a request may still rely on when it writes: rows do not change hands.
Bilir(il, te, q) ==
  /\ Kayit(q)
  /\ q.op \in YukIsi => q.ilan \in Ilanlar /\ il[q.ilan].tur = "yuk"
  /\ q.op \in AracIsi => q.ilan \in Ilanlar /\ il[q.ilan].tur = "arac"
  /\ q.op = "onTeklif" => q.ilan \in Ilanlar /\ il[q.ilan].tur = "ev"
  /\ q.op \in Bid => q.by \in Users /\ q.by # il[q.ilan].sahip
  /\ q.op \in TeklifIsi =>
       /\ q.hedef \in Teklifler /\ te[q.hedef] # YokTeklif /\ te[q.hedef].ilan = q.ilan
       /\ il[q.ilan].tur \in {"yuk", "arac"} /\ q.sayi \in Nat
  /\ q.op = "degerlendir" =>
       /\ q.ilan \in Ilanlar /\ il[q.ilan] # YokIlan
       /\ q.by \in Users /\ q.alan \in Users /\ q.alan # q.by
       /\ IsinTarafi(il, te, q.ilan, q.alan)
       /\ q.sayi \in Nat /\ q.ort \in 0..500

Istekler(il, te, rq) ==
  /\ rq = [r \in Requests |-> rq[r]]
  /\ \A r \in Requests : Bilir(il, te, rq[r])

\* The counter-offers on their way to offer t.
Yolda(rq, t) == {r \in Requests : rq[r].op = "karsi" /\ rq[r].hedef = t}

\* They are accounted for: each was let through below the limit.
Pazarlik(te, rq) ==
  \A t \in Teklifler :
    te[t].el + Cardinality(Yolda(rq, t)) <= PAZARLIK_ELI + Cardinality(Requests) - 1

DefterTur(tur) == IF tur = "ev" THEN "ev" ELSE "genel"

\* The ratings dg that count for u in book d.
Oylar(il, te, dg, u, d) ==
  {x \in dg : /\ x[1] # u /\ DefterTur(il[x[2]].tur) = d
              /\ IsinTarafi(il, te, x[2], u)}

Degerler(il, dg) ==
  /\ IsFiniteSet(dg)
  /\ \A x \in dg : x[2] \in Ilanlar /\ il[x[2]] # YokIlan

Defterler == {"genel", "ev"}

\* Nobody's count is above the ratings that count for him, nor is one a handler has read.
Sayilir(il, te, dg, pu, rq) ==
  /\ pu \in [Users -> [Defterler -> [ort : 0..500, sayi : Nat]]]
  /\ \A u \in Users, d \in Defterler : pu[u][d].sayi <= Cardinality(Oylar(il, te, dg, u, d))
  /\ \A r \in Requests :
       LET q == rq[r]
       IN q.op = "degerlendir" =>
            q.sayi <= Cardinality(Oylar(il, te, dg, q.alan, DefterTur(il[q.ilan].tur)))

IInv ==
  /\ Tutarli(ilan, teklif)
  /\ Istekler(ilan, teklif, req)
  /\ Pazarlik(teklif, req)
  /\ Degerler(ilan, degerler)
  /\ Sayilir(ilan, teklif, degerler, puan, req)

TablolarGecer == Gecer(ilan, teklif, ilan', teklif')

\* A step that neither bargains nor rates.
Siradan ==
  /\ TablolarGecer
  /\ \A t \in Teklifler : teklif'[t].el = teklif[t].el
  /\ UNCHANGED <<degerler, puan>>
  /\ req' = [r \in Requests |-> req'[r]]
  /\ \A r \in Requests :
       \/ req'[r] = req[r]
       \/ Bilir(ilan', teklif', req'[r]) /\ req'[r].op \notin {"karsi", "degerlendir"}

LEMMA TarafKalir ==
  ASSUME NEW il, NEW te, Tutarli(il, te), NEW il2, NEW te2, Korunur(il, te, il2, te2),
         NEW i \in Ilanlar, il[i] # YokIlan, NEW u, IsinTarafi(il, te, i, u)
  PROVE  IsinTarafi(il2, te2, i, u)
<1>1. CASE u = il[i].sahip
  BY <1>1 DEF IsinTarafi, Korunur
<1>2. ASSUME NEW t \in Teklifler, te[t].ilan = i, te[t].veren = u
      PROVE  te2[t].ilan = i /\ te2[t].veren = u
  <2>1. te[t] # YokTeklif
    BY <1>2, LoadAssumption DEF YokTeklif
  <2> QED BY <1>2, <2>1 DEF Korunur
<1> QED BY <1>1, <1>2 DEF IsinTarafi

LEMMA BilirKalir ==
  ASSUME NEW il, NEW te, Tutarli(il, te), NEW il2, NEW te2, Korunur(il, te, il2, te2),
         NEW q, Bilir(il, te, q)
  PROVE  Bilir(il2, te2, q)
<1>1. ASSUME NEW i \in Ilanlar, il[i].tur \in {"yuk", "arac", "ev"}
      PROVE  il2[i].tur = il[i].tur /\ il2[i].sahip = il[i].sahip
  BY <1>1, IlanVar DEF Korunur
<1>2. q.op \in YukIsi => q.ilan \in Ilanlar /\ il2[q.ilan].tur = "yuk"
  BY <1>1 DEF Bilir
<1>3. q.op \in AracIsi => q.ilan \in Ilanlar /\ il2[q.ilan].tur = "arac"
  BY <1>1 DEF Bilir
<1>4. q.op = "onTeklif" => q.ilan \in Ilanlar /\ il2[q.ilan].tur = "ev"
  BY <1>1 DEF Bilir
<1>5. q.op \in Bid => q.by \in Users /\ q.by # il2[q.ilan].sahip
  BY <1>1 DEF Bilir, Bid, YukIsi, AracIsi
<1>6. ASSUME q.op \in TeklifIsi
      PROVE  /\ q.hedef \in Teklifler /\ te2[q.hedef] # YokTeklif
             /\ te2[q.hedef].ilan = q.ilan
             /\ il2[q.ilan].tur \in {"yuk", "arac"} /\ q.sayi \in Nat
  <2>1. /\ q.hedef \in Teklifler /\ te[q.hedef] # YokTeklif /\ te[q.hedef].ilan = q.ilan
        /\ il[q.ilan].tur \in {"yuk", "arac"} /\ q.sayi \in Nat
    BY <1>6 DEF Bilir
  <2>2. q.ilan \in Ilanlar
    BY <2>1, TeklifVar
  <2> QED BY <1>1, <2>1, <2>2 DEF Korunur
<1>7. ASSUME q.op = "degerlendir"
      PROVE  /\ q.ilan \in Ilanlar /\ il2[q.ilan] # YokIlan
             /\ q.by \in Users /\ q.alan \in Users /\ q.alan # q.by
             /\ IsinTarafi(il2, te2, q.ilan, q.alan)
             /\ q.sayi \in Nat /\ q.ort \in 0..500
  <2>1. /\ q.ilan \in Ilanlar /\ il[q.ilan] # YokIlan
        /\ q.by \in Users /\ q.alan \in Users /\ q.alan # q.by
        /\ IsinTarafi(il, te, q.ilan, q.alan)
        /\ q.sayi \in Nat /\ q.ort \in 0..500
    BY <1>7 DEF Bilir
  <2>2. IsinTarafi(il2, te2, q.ilan, q.alan)
    BY <2>1, TarafKalir
  <2>3. il2[q.ilan] # YokIlan
    BY <2>1 DEF Korunur
  <2> QED BY <2>1, <2>2, <2>3
<1>8. Kayit(q)
  BY DEF Bilir
<1> QED BY <1>2, <1>3, <1>4, <1>5, <1>6, <1>7, <1>8 DEF Bilir

LEMMA YoldaSonlu ==
  ASSUME NEW rq, NEW t
  PROVE  /\ IsFiniteSet(Yolda(rq, t)) /\ Cardinality(Yolda(rq, t)) \in Nat
         /\ Cardinality(Yolda(rq, t)) <= Cardinality(Requests)
         /\ Cardinality(Requests) \in Nat
<1>1. Yolda(rq, t) \in SUBSET Requests /\ IsFiniteSet(Requests)
  BY LoadAssumption DEF Yolda
<1>2. IsFiniteSet(Yolda(rq, t)) /\ Cardinality(Yolda(rq, t)) <= Cardinality(Requests)
  BY <1>1, FS_Subset
<1> QED BY <1>1, <1>2, FS_CardinalityType

\* The ratings only grow, whatever becomes of the tables.
LEMMA OylarArtar ==
  ASSUME NEW il, NEW te, Tutarli(il, te), NEW il2, NEW te2, Korunur(il, te, il2, te2),
         NEW dg, Degerler(il, dg), NEW dg2, IsFiniteSet(dg2), dg \subseteq dg2,
         NEW u, NEW d
  PROVE  /\ Oylar(il, te, dg, u, d) \subseteq Oylar(il2, te2, dg2, u, d)
         /\ IsFiniteSet(Oylar(il2, te2, dg2, u, d))
         /\ Cardinality(Oylar(il2, te2, dg2, u, d)) \in Nat
         /\ Cardinality(Oylar(il, te, dg, u, d)) \in Nat
         /\ Cardinality(Oylar(il, te, dg, u, d)) <= Cardinality(Oylar(il2, te2, dg2, u, d))
<1> DEFINE eski == Oylar(il, te, dg, u, d)
           yeni == Oylar(il2, te2, dg2, u, d)
<1>1. ASSUME NEW x \in eski PROVE x \in yeni
  <2>1. /\ x \in dg /\ x[1] # u /\ DefterTur(il[x[2]].tur) = d
        /\ IsinTarafi(il, te, x[2], u)
    BY DEF Oylar
  <2>2. x[2] \in Ilanlar /\ il[x[2]] # YokIlan
    BY <2>1 DEF Degerler
  <2>3. il2[x[2]].tur = il[x[2]].tur
    BY <2>2 DEF Korunur
  <2>4. IsinTarafi(il2, te2, x[2], u)
    BY <2>1, <2>2, TarafKalir
  <2> QED BY <2>1, <2>3, <2>4 DEF Oylar
<1>2. eski \in SUBSET yeni /\ yeni \in SUBSET dg2
  BY <1>1 DEF Oylar
<1> HIDE DEF eski, yeni
<1>3. IsFiniteSet(yeni)
  BY <1>2, FS_Subset
<1>4. IsFiniteSet(eski) /\ Cardinality(eski) <= Cardinality(yeni)
  BY <1>2, <1>3, FS_Subset
<1>5. Cardinality(eski) \in Nat /\ Cardinality(yeni) \in Nat
  BY <1>3, <1>4, FS_CardinalityType
<1> QED BY <1>2, <1>3, <1>4, <1>5 DEF eski, yeni

LEMMA SiradanAdim ==
  ASSUME IInv, Siradan
  PROVE  IInv'
<1>1. Tutarli(ilan, teklif) /\ Tutarli(ilan', teklif') /\ Korunur(ilan, teklif, ilan', teklif')
  BY DEF IInv, Siradan, TablolarGecer, Gecer
<1>2. Istekler(ilan', teklif', req')
  <2>1. ASSUME NEW r \in Requests PROVE Bilir(ilan', teklif', req'[r])
    <3>1. Bilir(ilan', teklif', req[r])
      BY <1>1, BilirKalir DEF IInv, Istekler
    <3> QED BY <3>1 DEF Siradan
  <2> QED BY <2>1 DEF Istekler, Siradan
<1>3. ASSUME NEW r \in Requests, req'[r].op \in {"karsi", "degerlendir"} PROVE req'[r] = req[r]
  BY <1>3 DEF Siradan
<1>4. ASSUME NEW t \in Teklifler
      PROVE  teklif'[t].el + Cardinality(Yolda(req', t))
               <= PAZARLIK_ELI + Cardinality(Requests) - 1
  <2>1. Yolda(req', t) \in SUBSET Yolda(req, t)
    BY <1>3 DEF Yolda
  <2>2. Cardinality(Yolda(req', t)) <= Cardinality(Yolda(req, t))
    BY <2>1, YoldaSonlu, FS_Subset
  <2>3. teklif[t].el \in Nat /\ teklif'[t].el = teklif[t].el
    BY <1>1 DEF Siradan, Tutarli, TeklifRow, YokTeklif
  <2>4. teklif[t].el + Cardinality(Yolda(req, t)) <= PAZARLIK_ELI + Cardinality(Requests) - 1
    BY DEF IInv, Pazarlik
  <2> QED BY <2>2, <2>3, <2>4, YoldaSonlu, LoadAssumption
<1>5. Degerler(ilan', degerler')
  BY <1>1 DEF IInv, Siradan, Degerler, Korunur
<1>6. Sayilir(ilan', teklif', degerler', puan', req')
  <2>1. degerler' = degerler /\ puan' = puan /\ Degerler(ilan, degerler)
        /\ IsFiniteSet(degerler)
    BY DEF Siradan, IInv, Degerler
  <2>2. ASSUME NEW u, NEW d
        PROVE  /\ Cardinality(Oylar(ilan, teklif, degerler, u, d)) \in Nat
               /\ Cardinality(Oylar(ilan', teklif', degerler, u, d)) \in Nat
               /\ Cardinality(Oylar(ilan, teklif, degerler, u, d))
                    <= Cardinality(Oylar(ilan', teklif', degerler, u, d))
    BY <1>1, <2>1, OylarArtar
  <2>3. ASSUME NEW u \in Users, NEW d \in Defterler
        PROVE  puan[u][d].sayi <= Cardinality(Oylar(ilan', teklif', degerler, u, d))
    <3>1. puan[u][d].sayi <= Cardinality(Oylar(ilan, teklif, degerler, u, d))
          /\ puan[u][d].sayi \in Nat
      BY DEF IInv, Sayilir
    <3> QED BY <2>2, <3>1
  <2>4. ASSUME NEW r \in Requests, req'[r].op = "degerlendir"
        PROVE  req'[r].sayi <= Cardinality(Oylar(ilan', teklif', degerler, req'[r].alan,
                                                 DefterTur(ilan'[req'[r].ilan].tur)))
    <3> DEFINE q == req[r]
               n == Cardinality(Oylar(ilan, teklif, degerler, q.alan,
                                      DefterTur(ilan[q.ilan].tur)))
               m == Cardinality(Oylar(ilan', teklif', degerler, q.alan,
                                      DefterTur(ilan[q.ilan].tur)))
    <3>1. req'[r] = q /\ q.op = "degerlendir"
      BY <1>3, <2>4
    <3>2. q.ilan \in Ilanlar /\ ilan[q.ilan] # YokIlan /\ q.sayi \in Nat
      BY <3>1 DEF IInv, Istekler, Bilir
    <3>3. ilan'[q.ilan].tur = ilan[q.ilan].tur
      BY <1>1, <3>2 DEF Korunur
    <3>4. q.sayi <= n
      BY <3>1 DEF IInv, Sayilir
    <3>5. n \in Nat /\ m \in Nat /\ n <= m
      BY <2>2
    <3> HIDE DEF n, m
    <3>6. q.sayi <= m
      BY <3>2, <3>4, <3>5
    <3> QED BY <3>1, <3>3, <3>6 DEF m
  <2>5. puan \in [Users -> [Defterler -> [ort : 0..500, sayi : Nat]]]
    BY DEF IInv, Sayilir
  <2> QED BY <2>1, <2>3, <2>4, <2>5 DEF Sayilir
<1> QED BY <1>1, <1>2, <1>4, <1>5, <1>6 DEF IInv, Pazarlik

-----------------------------------------------------------------------------
(* The writes the boards share *)

LEMMA BosBilir == \A il, te : Bilir(il, te, Bos) /\ Bos.op = "bos"
BY DEF Bilir, Bos, Kayit, YukIsi, AracIsi, Bid, TeklifIsi

\* Nothing is written but what r remembers.
LEMMA OkuSiradan ==
  ASSUME IInv, NEW r \in Requests, NEW q, Oku(r, q), Bilir(ilan, teklif, q),
         q.op \notin {"karsi", "degerlendir"}
  PROVE  Siradan
<1>1. UNCHANGED <<ilan, teklif, degerler, puan>> /\ req' = [req EXCEPT ![r] = q]
  BY DEF Oku, hesapVars
<1>2. TablolarGecer
  BY <1>1, AyniGecer DEF IInv, TablolarGecer
<1>3. req = [x \in Requests |-> req[x]]
  BY DEF IInv, Istekler
<1> QED BY <1>1, <1>2, <1>3 DEF Siradan

\* The tables are written and r is done.
LEMMA BitirSiradan ==
  ASSUME IInv, NEW r \in Requests, TablolarGecer,
         \A t \in Teklifler : teklif'[t].el = teklif[t].el,
         UNCHANGED <<degerler, puan>>, Bitir(r)
  PROVE  Siradan
<1>1. req' = [req EXCEPT ![r] = Bos] /\ req = [x \in Requests |-> req[x]]
  BY DEF Bitir, IInv, Istekler
<1>2. ASSUME NEW x \in Requests
      PROVE  \/ req'[x] = req[x]
             \/ Bilir(ilan', teklif', req'[x]) /\ req'[x].op \notin {"karsi", "degerlendir"}
  BY <1>1, BosBilir
<1> QED BY <1>1, <1>2 DEF Siradan

\* The tables are written and no request is touched.
LEMMA TabloSiradan ==
  ASSUME IInv, TablolarGecer,
         \A t \in Teklifler : teklif'[t].el = teklif[t].el, UNCHANGED <<degerler, puan, req>>
  PROVE  Siradan
BY DEF Siradan, IInv, Istekler

\* One status of a listing is written.
LEMMA DurumGider ==
  ASSUME NEW il, NEW te, Tutarli(il, te), NEW i \in Ilanlar,
         il[i].tur \in {"yuk", "arac", "ev"},
         NEW durum \in IlanDurum(il[i].tur), durum # "MUSAIT",
         il[i].tur = "ev" => (durum \in Kilitli <=> il[i].durum \in Kilitli)
  PROVE  IlanGider(il[i], [il[i] EXCEPT !.durum = durum])
<1>1. il[i] # YokIlan /\ il[i] \in IlanRow
  BY IlanVar
<1>2. durum \in YukIlaniDurum \cup AracIlaniDurum \cup EvIlaniDurum
  BY <1>1, Durumlar DEF IlanRow
<1>3. /\ [il[i] EXCEPT !.durum = durum] \in IlanRow
      /\ [il[i] EXCEPT !.durum = durum].tur = il[i].tur
      /\ [il[i] EXCEPT !.durum = durum].sahip = il[i].sahip
      /\ [il[i] EXCEPT !.durum = durum].secili = il[i].secili
      /\ [il[i] EXCEPT !.durum = durum].durum = durum
  BY <1>1, <1>2 DEF IlanRow
<1>4. [il[i] EXCEPT !.durum = durum] # YokIlan
  BY <1>3 DEF YokIlan
<1> QED BY <1>1, <1>3, <1>4 DEF IlanGider

\* What a step changes when it writes the listings alone.
LEMMA YalnizIlan ==
  ASSUME IInv, NEW i \in Ilanlar, NEW b, IlanGider(ilan[i], b),
         ilan' = [ilan EXCEPT ![i] = b], UNCHANGED teklif
  PROVE  TablolarGecer /\ \A t \in Teklifler : teklif'[t].el = teklif[t].el
<1>1. Gecer(ilan, teklif, [ilan EXCEPT ![i] = b], teklif)
  BY IlanYazilir DEF IInv
<1> QED BY <1>1 DEF TablolarGecer

LEMMA IlanDurumAdim ==
  ASSUME IInv, NEW r \in Requests, req[r].ilan \in Ilanlar, ilan[req[r].ilan].tur = "yuk",
         NEW durum \in {"IPTAL", "TASINIYOR", "TAMAMLANDI"}, IlanDurumYaz(r, durum)
  PROVE  Siradan
<1> DEFINE i == req[r].ilan
           b == [ilan[i] EXCEPT !.durum = durum]
<1>1. IlanGider(ilan[i], b)
  <2>1. durum \in IlanDurum("yuk") /\ durum # "MUSAIT"
    BY Durumlar DEF YukIlaniDurum
  <2> QED BY <2>1, DurumGider DEF IInv
<1>2. ilan' = [ilan EXCEPT ![i] = b] /\ UNCHANGED <<teklif, degerler, puan>> /\ Bitir(r)
  BY DEF IlanDurumYaz, hesapVars
<1> HIDE DEF b
<1>3. TablolarGecer /\ \A t \in Teklifler : teklif'[t].el = teklif[t].el
  BY <1>1, <1>2, YalnizIlan
<1> QED BY <1>2, <1>3, BitirSiradan

\* One offer of the boards of loads and vehicles is written: not accepted.
LEMMA DurumAdim ==
  ASSUME IInv, NEW r \in Requests, req[r].op \in TeklifIsi,
         NEW durum \in {"GERI_CEKILDI", "RED"}, DurumYaz(r, durum)
  PROVE  Siradan
<1> DEFINE t == req[r].hedef
           b == [teklif[t] EXCEPT !.durum = durum]
<1>1. /\ t \in Teklifler /\ teklif[t] # YokTeklif
      /\ ilan[teklif[t].ilan].tur \in {"yuk", "arac"}
  BY DEF IInv, Istekler, Bilir
<1>2. teklif[t] \in TeklifRow
  BY <1>1, TeklifVar DEF IInv
<1>3. /\ b \in TeklifRow /\ b.ilan = teklif[t].ilan /\ b.veren = teklif[t].veren
      /\ b.durum # "KABUL" /\ b.el = teklif[t].el
  BY <1>2 DEF TeklifRow, TeklifDurum
<1>4. b # YokTeklif
  BY <1>3, LoadAssumption DEF TeklifRow, YokTeklif
<1>5. /\ teklif' = [teklif EXCEPT ![t] = b] /\ UNCHANGED <<ilan, degerler, puan>> /\ Bitir(r)
      /\ teklif = [x \in Teklifler |-> teklif[x]]
  BY DEF DurumYaz, hesapVars, IInv, Tutarli
<1> HIDE DEF b
<1>6. TeklifGider(ilan[teklif[t].ilan].tur, teklif[t], b)
  BY <1>1, <1>3, <1>4 DEF TeklifGider
<1>7. TablolarGecer
  BY <1>1, <1>5, <1>6, TeklifYazilir DEF IInv, TablolarGecer
<1>8. \A x \in Teklifler : teklif'[x].el = teklif[x].el
  BY <1>3, <1>5
<1> QED BY <1>5, <1>7, <1>8, BitirSiradan

\* A new listing.
LEMMA YeniIlanAdim ==
  ASSUME IInv, NEW i \in Ilanlar, NEW u \in Users, NEW tur \in {"yuk", "arac", "ev"},
         NEW durum \in IlanDurum(tur), durum \in {"ACIK", "MUSAIT", "ODEME_BEKLIYOR"},
         YeniIlan(i, tur, u, durum)
  PROVE  Siradan
<1> DEFINE b == [YokIlan EXCEPT !.tur = tur, !.sahip = u, !.durum = durum]
<1>1. /\ b \in IlanRow /\ b.durum = durum /\ b.tur = tur /\ b.secili = NoTeklif
      /\ b.durum \notin Kilitli
  <2>1. durum \in YukIlaniDurum \cup AracIlaniDurum \cup EvIlaniDurum
    BY Durumlar
  <2> QED BY <2>1 DEF IlanRow, YokIlan, Kilitli
<1>2. /\ ilan[i] = YokIlan /\ ilan' = [ilan EXCEPT ![i] = b]
      /\ UNCHANGED <<teklif, degerler, puan, req>>
  BY DEF YeniIlan, hesapVars
<1> HIDE DEF b
<1>3. TablolarGecer
  BY <1>1, <1>2, IlanEklenir DEF IInv, TablolarGecer
<1> QED BY <1>2, <1>3, TabloSiradan

\* A new offer.
LEMMA YeniTeklifGecer ==
  ASSUME NEW il, Tutarli(il, teklif), NEW i \in Ilanlar, il[i] # YokIlan,
         NEW u \in Users, u # il[i].sahip, NEW durum \in {"BEKLIYOR", "ON_TEKLIF"},
         NEW taraf \in {"FIRMA", "TASIYICI", "YOK"}, NEW fiyat \in Nat,
         YeniTeklif(i, u, durum, taraf, fiyat)
  PROVE  Gecer(il, teklif, il, teklif') /\ \A t \in Teklifler : teklif'[t].el = teklif[t].el
<1> DEFINE bos == {t \in Teklifler : teklif[t] = YokTeklif}
           b == [YokTeklif EXCEPT !.ilan = i, !.veren = u, !.durum = durum, !.taraf = taraf,
                                  !.fiyat = fiyat]
<1>1. PICK s \in bos : teklif' = [teklif EXCEPT ![s] = b]
  <2>1. bos # {} /\ teklif' = [teklif EXCEPT ![CHOOSE t \in bos : TRUE] = b]
    BY DEF YeniTeklif
  <2>2. (CHOOSE t \in bos : TRUE) \in bos
    BY <2>1
  <2> QED BY <2>1, <2>2
<1>2. s \in Teklifler /\ teklif[s] = YokTeklif
  BY <1>1
<1>3. /\ b \in TeklifRow /\ b.ilan = i /\ b.veren = u /\ b.durum # "KABUL" /\ b.el = 0
  BY DEF TeklifRow, YokTeklif, TeklifDurum, EvTeklifDurum
<1>4. teklif = [x \in Teklifler |-> teklif[x]]
  BY DEF Tutarli
<1> HIDE DEF b, bos
<1>5. Gecer(il, teklif, il, teklif')
  BY <1>1, <1>2, <1>3, TeklifEklenir
<1>6. \A t \in Teklifler : teklif'[t].el = teklif[t].el
  BY <1>1, <1>2, <1>3, <1>4 DEF YokTeklif
<1> QED BY <1>5, <1>6

\* An offer on the boards of loads and vehicles is accepted.
LEMMA EslestirAdim ==
  ASSUME IInv, NEW r \in Requests, req[r].op = "kabul",
         NEW durum, Eslestir(r, durum),
         <<ilan[req[r].ilan].tur, durum>> \in {<<"yuk", "ESLESTI">>, <<"arac", "DOLU">>}
  PROVE  Siradan
<1> DEFINE i == req[r].ilan
           t == req[r].hedef
           a == [ilan[i] EXCEPT !.durum = durum, !.secili = t]
           b == [teklif[t] EXCEPT !.durum = "KABUL", !.kesin = req[r].sayi]
<1>1. /\ t \in Teklifler /\ teklif[t] # YokTeklif /\ teklif[t].ilan = i /\ req[r].sayi \in Nat
      /\ ilan[i].tur \in {"yuk", "arac"} /\ Tutarli(ilan, teklif)
  BY DEF IInv, Istekler, Bilir, TeklifIsi
<1>2. teklif[t] \in TeklifRow /\ i \in Ilanlar /\ ilan[i] \in IlanRow
      /\ ilan[i].durum \in IlanDurum(ilan[i].tur)
  BY <1>1, TeklifVar, IlanVar
<1>3. /\ ilan' = [ilan EXCEPT ![i] = a] /\ UNCHANGED <<degerler, puan>> /\ Bitir(r)
      /\ teklif' = [x \in Teklifler |->
           IF x = t THEN b
           ELSE IF teklif[x].ilan = i /\ teklif[x].durum = "BEKLIYOR"
             THEN [teklif[x] EXCEPT !.durum = "RED"] ELSE teklif[x]]
      /\ ilan[i].durum \in {"ACIK", "TEKLIF_ALINDI", "MUSAIT"}
  BY DEF Eslestir, hesapVars, KabulOlur, EslesmeyeAcik
<1>4. /\ a \in IlanRow /\ a.tur = ilan[i].tur /\ a.sahip = ilan[i].sahip /\ a.secili = t
      /\ a.durum = durum /\ durum \in IlanDurum(a.tur) /\ durum # "MUSAIT"
      /\ a.tur # "ev"
  <2>1. durum \in YukIlaniDurum \cup AracIlaniDurum \cup EvIlaniDurum
        /\ durum # "MUSAIT" /\ durum \in IlanDurum(ilan[i].tur)
    BY Durumlar DEF YukIlaniDurum, AracIlaniDurum
  <2> QED BY <1>1, <1>2, <2>1 DEF IlanRow
<1>5. /\ b \in TeklifRow /\ b.ilan = i /\ b.veren = teklif[t].veren /\ b.el = teklif[t].el
  BY <1>1, <1>2 DEF TeklifRow, TeklifDurum
<1> HIDE DEF a, b
<1>6. ASSUME ilan[i].tur = "arac", NEW x \in Teklifler, teklif[x].ilan = i
      PROVE  teklif[x].durum # "KABUL"
  <2>1. ilan[i].durum = "MUSAIT"
    BY <1>2, <1>3, <1>6, Durumlar DEF AracIlaniDurum
  <2>2. teklif[x] # YokTeklif
    BY <1>2, <1>6, LoadAssumption DEF YokTeklif
  <2> QED BY <1>1, <1>6, <2>1, <2>2 DEF Tutarli, TeklifTutarli
<1>7. ASSUME NEW x \in Teklifler \ {t}
      PROVE  /\ TeklifGider(ilan[teklif[x].ilan].tur, teklif[x], teklif'[x])
             /\ teklif'[x].el = teklif[x].el
  <2>1. teklif[x] \in TeklifRow \cup {YokTeklif}
    BY <1>1 DEF Tutarli
  <2>2. CASE teklif[x].ilan = i /\ teklif[x].durum = "BEKLIYOR"
    <3>1. teklif'[x] = [teklif[x] EXCEPT !.durum = "RED"] /\ teklif[x] \in TeklifRow
      BY <1>3, <2>1, <2>2 DEF YokTeklif
    <3>2. /\ teklif'[x] \in TeklifRow /\ teklif'[x].ilan = teklif[x].ilan
          /\ teklif'[x].veren = teklif[x].veren /\ teklif'[x].durum = "RED"
          /\ teklif'[x].el = teklif[x].el
      BY <3>1 DEF TeklifRow, TeklifDurum
    <3>3. teklif'[x] # YokTeklif /\ teklif[x] # YokTeklif
      BY <3>2, <2>2, LoadAssumption DEF YokTeklif
    <3> QED BY <2>2, <3>2, <3>3 DEF TeklifGider
  <2>3. CASE ~ (teklif[x].ilan = i /\ teklif[x].durum = "BEKLIYOR")
    <3>1. teklif'[x] = teklif[x]
      BY <1>3, <2>3
    <3> QED BY <2>1, <3>1 DEF TeklifGider
  <2> QED BY <2>2, <2>3
<1>8. teklif' = [x \in Teklifler |-> teklif'[x]] /\ teklif'[t] = b
  BY <1>1, <1>3
<1>9. TablolarGecer
  <2>1. Gecer(ilan, teklif, [ilan EXCEPT ![i] = a], teklif')
    BY <1>1, <1>2, <1>4, <1>5, <1>6, <1>7, <1>8, SecilirGecer
  <2> QED BY <1>3, <2>1 DEF TablolarGecer
<1>10. \A x \in Teklifler : teklif'[x].el = teklif[x].el
  BY <1>5, <1>7, <1>8
<1> QED BY <1>3, <1>9, <1>10, BitirSiradan

-----------------------------------------------------------------------------
(* The checks the boards share *)

LEMMA IlanOkuAdim ==
  ASSUME IInv, NEW r \in Requests, NEW i \in Ilanlar, NEW op,
         \/ op \in {"ilanIptal", "basla", "tamamla"} /\ ilan[i].tur = "yuk"
         \/ op = "beyan" /\ ilan[i].tur = "arac",
         IlanOku(r, op, i)
  PROVE  Siradan
<1> DEFINE q == [Bos EXCEPT !.op = op, !.ilan = i]
<1>1. /\ Kayit(q) /\ q.op = op /\ q.ilan = i
  BY DEF Kayit, Bos
<1>2. Oku(r, q)
  BY DEF IlanOku
<1> HIDE DEF q
<1>3. Bilir(ilan, teklif, q) /\ q.op \notin {"karsi", "degerlendir"}
  BY <1>1 DEF Bilir, YukIsi, AracIsi, Bid, TeklifIsi
<1> QED BY <1>2, <1>3, OkuSiradan

LEMMA BidOkuAdim ==
  ASSUME IInv, NEW r \in Requests, NEW i \in Ilanlar, NEW op, NEW u \in Users,
         ilan[i].sahip # u,
         \/ op = "teklifVer" /\ ilan[i].tur = "yuk"
         \/ op = "aracTeklifVer" /\ ilan[i].tur = "arac"
         \/ op = "onTeklif" /\ ilan[i].tur = "ev",
         BidOku(r, op, i, u)
  PROVE  Siradan
<1> DEFINE q == [Bos EXCEPT !.op = op, !.ilan = i, !.by = u, !.durum = ilan[i].durum]
<1>1. /\ Kayit(q) /\ q.op = op /\ q.ilan = i /\ q.by = u
  BY DEF Kayit, Bos
<1>2. Oku(r, q)
  BY DEF BidOku
<1> HIDE DEF q
<1>3. Bilir(ilan, teklif, q) /\ q.op \notin {"karsi", "degerlendir"}
  BY <1>1 DEF Bilir, YukIsi, AracIsi, Bid, TeklifIsi
<1> QED BY <1>2, <1>3, OkuSiradan

LEMMA TahtaninTeklifi ==
  ASSUME IInv, NEW t \in Teklifler, YukMu(t) \/ AracMi(t)
  PROVE  /\ teklif[t] # YokTeklif /\ teklif[t] \in TeklifRow
         /\ ilan[teklif[t].ilan].tur \in {"yuk", "arac"}
<1>1. teklif[t] # YokTeklif
  BY DEF YukMu, AracMi, YokTeklif
<1>2. teklif[t] \in TeklifRow
  BY <1>1, TeklifVar DEF IInv
<1> QED BY <1>1, <1>2 DEF YukMu, AracMi

LEMMA TeklifOkuAdim ==
  ASSUME IInv, NEW r \in Requests, NEW t \in Teklifler, YukMu(t) \/ AracMi(t),
         NEW op \in {"geriCek", "reddet"}, TeklifOku(r, op, t)
  PROVE  Siradan
<1> DEFINE q == [Bos EXCEPT !.op = op, !.ilan = teklif[t].ilan, !.hedef = t]
<1>1. /\ Kayit(q) /\ q.op = op /\ q.ilan = teklif[t].ilan /\ q.hedef = t /\ q.sayi = 0
  BY DEF Kayit, Bos
<1>2. Oku(r, q)
  BY DEF TeklifOku
<1> HIDE DEF q
<1>3. Bilir(ilan, teklif, q) /\ q.op \notin {"karsi", "degerlendir"}
  BY <1>1, TahtaninTeklifi DEF Bilir, YukIsi, AracIsi, Bid, TeklifIsi
<1> QED BY <1>2, <1>3, OkuSiradan

LEMMA KabulOkuAdim ==
  ASSUME IInv, NEW r \in Requests, NEW t \in Teklifler, YukMu(t) \/ AracMi(t), KabulOku(r, t)
  PROVE  Siradan
<1> DEFINE q == [Bos EXCEPT !.op = "kabul", !.ilan = teklif[t].ilan, !.hedef = t,
                            !.sayi = teklif[t].fiyat]
<1>1. /\ Kayit(q) /\ q.op = "kabul" /\ q.ilan = teklif[t].ilan /\ q.hedef = t
      /\ q.sayi = teklif[t].fiyat
  BY DEF Kayit, Bos
<1>2. Oku(r, q)
  BY DEF KabulOku
<1>3. teklif[t].fiyat \in Nat
  BY TahtaninTeklifi DEF TeklifRow
<1> HIDE DEF q
<1>4. Bilir(ilan, teklif, q) /\ q.op \notin {"karsi", "degerlendir"}
  BY <1>1, <1>3, TahtaninTeklifi DEF Bilir, YukIsi, AracIsi, Bid, TeklifIsi
<1> QED BY <1>2, <1>4, OkuSiradan

-----------------------------------------------------------------------------
(* Bargaining *)

\* When no rating is written or read, and the rest of the invariant is known, it is kept.
LEMMA PazarlikAdim ==
  ASSUME IInv, TablolarGecer, UNCHANGED <<degerler, puan>>,
         Istekler(ilan', teklif', req'), Pazarlik(teklif', req'),
         \A r \in Requests : req'[r].op = "degerlendir" => req'[r] = req[r]
  PROVE  IInv'
<1>1. Tutarli(ilan, teklif) /\ Tutarli(ilan', teklif') /\ Korunur(ilan, teklif, ilan', teklif')
  BY DEF IInv, TablolarGecer, Gecer
<1>2. Degerler(ilan', degerler')
  BY <1>1 DEF IInv, Degerler, Korunur
<1>3. degerler' = degerler /\ puan' = puan /\ Degerler(ilan, degerler) /\ IsFiniteSet(degerler)
  BY DEF IInv, Degerler
<1>4. ASSUME NEW u, NEW d
      PROVE  /\ Cardinality(Oylar(ilan, teklif, degerler, u, d)) \in Nat
             /\ Cardinality(Oylar(ilan', teklif', degerler, u, d)) \in Nat
             /\ Cardinality(Oylar(ilan, teklif, degerler, u, d))
                  <= Cardinality(Oylar(ilan', teklif', degerler, u, d))
  BY <1>1, <1>3, OylarArtar
<1>5. ASSUME NEW u \in Users, NEW d \in Defterler
      PROVE  puan[u][d].sayi <= Cardinality(Oylar(ilan', teklif', degerler, u, d))
  <2>1. puan[u][d].sayi <= Cardinality(Oylar(ilan, teklif, degerler, u, d))
        /\ puan[u][d].sayi \in Nat
    BY DEF IInv, Sayilir
  <2> QED BY <1>4, <2>1
<1>6. ASSUME NEW r \in Requests, req'[r].op = "degerlendir"
      PROVE  req'[r].sayi <= Cardinality(Oylar(ilan', teklif', degerler, req'[r].alan,
                                               DefterTur(ilan'[req'[r].ilan].tur)))
  <2> DEFINE q == req[r]
             n == Cardinality(Oylar(ilan, teklif, degerler, q.alan,
                                    DefterTur(ilan[q.ilan].tur)))
             m == Cardinality(Oylar(ilan', teklif', degerler, q.alan,
                                    DefterTur(ilan[q.ilan].tur)))
  <2>1. req'[r] = q /\ q.op = "degerlendir"
    BY <1>6
  <2>2. q.ilan \in Ilanlar /\ ilan[q.ilan] # YokIlan /\ q.sayi \in Nat
    BY ZenonT(30), <2>1 DEF IInv, Istekler, Bilir
  <2>3. ilan'[q.ilan].tur = ilan[q.ilan].tur
    BY <1>1, <2>2 DEF Korunur
  <2>4. q.sayi <= n
    BY <2>1 DEF IInv, Sayilir
  <2>5. n \in Nat /\ m \in Nat /\ n <= m
    BY <1>4
  <2> HIDE DEF n, m
  <2>6. q.sayi <= m
    BY <2>2, <2>4, <2>5
  <2> QED BY <2>1, <2>3, <2>6 DEF m
<1>7. puan \in [Users -> [Defterler -> [ort : 0..500, sayi : Nat]]]
  BY DEF IInv, Sayilir
<1>8. Sayilir(ilan', teklif', degerler', puan', req')
  BY <1>3, <1>5, <1>6, <1>7 DEF Sayilir
<1> QED BY <1>1, <1>2, <1>8 DEF IInv

\* One counter-offer more is on its way: the offer was below the limit.
LEMMA KarsiOkuAdim ==
  ASSUME IInv, NEW r \in Requests, NEW t \in Teklifler, YukMu(t) \/ AracMi(t), NEW u,
         KarsiTeklifOlur(t, u), KarsiOku(r, t, u)
  PROVE  IInv' /\ TablolarGecer
<1> DEFINE q == [Bos EXCEPT !.op = "karsi", !.ilan = teklif[t].ilan, !.hedef = t, !.by = u]
<1>1. /\ Kayit(q) /\ q.op = "karsi" /\ q.ilan = teklif[t].ilan /\ q.hedef = t /\ q.sayi = 0
  BY DEF Kayit, Bos
<1>2. /\ req[r] = Bos /\ req' = [req EXCEPT ![r] = q]
      /\ UNCHANGED <<ilan, teklif, degerler, puan>>
  BY DEF KarsiOku, Oku, hesapVars
<1> HIDE DEF q
<1>3. Bilir(ilan, teklif, q)
  BY <1>1, TahtaninTeklifi DEF Bilir, YukIsi, AracIsi, Bid, TeklifIsi
<1>4. TablolarGecer
  BY <1>2, AyniGecer DEF IInv, TablolarGecer
<1>5. req = [x \in Requests |-> req[x]] /\ \A x \in Requests : Bilir(ilan, teklif, req[x])
  BY DEF IInv, Istekler
<1>6. \A x \in Requests : req'[x] = IF x = r THEN q ELSE req[x]
  BY <1>2, <1>5
<1>7. Istekler(ilan', teklif', req')
  BY <1>2, <1>3, <1>5, <1>6 DEF Istekler
<1>8. ASSUME NEW x \in Teklifler
      PROVE  teklif'[x].el + Cardinality(Yolda(req', x))
               <= PAZARLIK_ELI + Cardinality(Requests) - 1
  <2>1. CASE x = t
    <3>1. r \notin Yolda(req, t)
      BY <1>2, BosBilir DEF Yolda
    <3>2. teklif[t].el < PAZARLIK_ELI /\ teklif[t].el \in Nat
      BY TahtaninTeklifi DEF KarsiTeklifOlur, ElKaldi, TeklifRow
    <3> QED BY <1>2, <2>1, <3>2, YoldaSonlu, LoadAssumption
  <2>2. CASE x # t
    <3>1. Yolda(req', x) = Yolda(req, x)
      BY <1>1, <1>2, <1>6, <2>2, BosBilir DEF Yolda
    <3> QED BY <1>2, <3>1 DEF IInv, Pazarlik
  <2> QED BY <2>1, <2>2
<1>9. \A x \in Requests : req'[x].op = "degerlendir" => req'[x] = req[x]
  BY <1>1, <1>6
<1> QED BY <1>2, <1>4, <1>7, <1>8, <1>9, PazarlikAdim DEF Pazarlik

\* A counter-offer arrives.
LEMMA KarsiYazAdim ==
  ASSUME IInv, NEW r \in Requests, KarsiTeklifYaz(r)
  PROVE  IInv' /\ TablolarGecer
<1> DEFINE t == req[r].hedef
<1>1. /\ req[r].op = "karsi" /\ t \in Teklifler /\ teklif[t] # YokTeklif
      /\ ilan[teklif[t].ilan].tur \in {"yuk", "arac"}
  BY DEF KarsiTeklifYaz, IInv, Istekler, Bilir, TeklifIsi
<1>2. PICK fiyat \in Fiyatlar, karsi \in {"FIRMA", "TASIYICI"} :
        teklif' = [teklif EXCEPT ![t].fiyat = fiyat, ![t].taraf = karsi, ![t].el = @ + 1]
  BY DEF KarsiTeklifYaz
<1> DEFINE b == [teklif[t] EXCEPT !.fiyat = fiyat, !.taraf = karsi, !.el = @ + 1]
<1>3. teklif[t] \in TeklifRow /\ fiyat \in Nat
  BY <1>1, TeklifVar, LoadAssumption DEF IInv
<1>4. /\ b \in TeklifRow /\ b.ilan = teklif[t].ilan /\ b.veren = teklif[t].veren
      /\ b.durum = teklif[t].durum /\ b.el = teklif[t].el + 1
  <2>1. teklif[t].el + 1 \in Nat
    BY <1>3 DEF TeklifRow
  <2>2. ASSUME NEW x \in TeklifRow, NEW e \in Nat
        PROVE  LET y == [x EXCEPT !.fiyat = fiyat, !.taraf = karsi, !.el = e]
               IN /\ y \in TeklifRow /\ y.ilan = x.ilan /\ y.veren = x.veren
                  /\ y.durum = x.durum /\ y.el = e
    BY <1>3 DEF TeklifRow
  <2> QED BY <1>3, <2>1, <2>2
<1>5. b # YokTeklif
  BY <1>4, LoadAssumption DEF TeklifRow, YokTeklif
<1>6. /\ teklif = [x \in Teklifler |-> teklif[x]] /\ teklif' = [teklif EXCEPT ![t] = b]
      /\ UNCHANGED <<ilan, degerler, puan>> /\ req' = [req EXCEPT ![r] = Bos]
  BY <1>1, <1>2 DEF KarsiTeklifYaz, hesapVars, IInv, Tutarli, Bitir
<1> HIDE DEF b
<1>7. TeklifGider(ilan[teklif[t].ilan].tur, teklif[t], b)
  BY <1>1, <1>4, <1>5 DEF TeklifGider
<1>8. TablolarGecer
  BY <1>1, <1>6, <1>7, TeklifYazilir DEF IInv, TablolarGecer
<1>9. req = [x \in Requests |-> req[x]] /\ \A x \in Requests : Bilir(ilan, teklif, req[x])
  BY DEF IInv, Istekler
<1>10. \A x \in Requests : req'[x] = IF x = r THEN Bos ELSE req[x]
  BY <1>6, <1>9
<1>11. Istekler(ilan', teklif', req')
  <2>1. Tutarli(ilan, teklif) /\ Korunur(ilan, teklif, ilan', teklif')
    BY <1>8 DEF TablolarGecer, Gecer, IInv
  <2>2. \A x \in Requests : Bilir(ilan', teklif', req'[x])
    BY <2>1, <1>9, <1>10, BosBilir, BilirKalir
  <2> QED BY <1>6, <1>9, <2>2 DEF Istekler
<1>12. ASSUME NEW x \in Teklifler
       PROVE  teklif'[x].el + Cardinality(Yolda(req', x))
                <= PAZARLIK_ELI + Cardinality(Requests) - 1
  <2>1. teklif[x].el + Cardinality(Yolda(req, x)) <= PAZARLIK_ELI + Cardinality(Requests) - 1
    BY DEF IInv, Pazarlik
  <2>2. CASE x = t
    <3>1. Yolda(req', t) = Yolda(req, t) \ {r} /\ r \in Yolda(req, t)
      BY <1>1, <1>10, BosBilir DEF Yolda
    <3>2. Cardinality(Yolda(req', t)) = Cardinality(Yolda(req, t)) - 1
      <4> DEFINE S == Yolda(req, t)
      <4>1. IsFiniteSet(S) /\ r \in S
        BY <3>1, YoldaSonlu
      <4> HIDE DEF S
      <4>2. Cardinality(S \ {r}) = Cardinality(S) - 1
        BY <4>1, FS_RemoveElement
      <4> QED BY <3>1, <4>2 DEF S
    <3>3. teklif'[t].el = teklif[t].el + 1 /\ teklif[t].el \in Nat
      BY <1>1, <1>3, <1>4, <1>6 DEF TeklifRow
    <3> QED BY <2>1, <2>2, <3>2, <3>3, YoldaSonlu, LoadAssumption
  <2>3. CASE x # t
    <3>1. Yolda(req', x) = Yolda(req, x)
      BY <1>1, <1>10, <2>3, BosBilir DEF Yolda
    <3>2. teklif'[x] = teklif[x]
      BY <1>6, <2>3
    <3> QED BY <2>1, <3>1, <3>2
  <2> QED BY <2>2, <2>3
<1>13. \A x \in Requests : req'[x].op = "degerlendir" => req'[x] = req[x]
  BY <1>10, BosBilir
<1> QED BY <1>6, <1>8, <1>11, <1>12, <1>13, PazarlikAdim DEF Pazarlik

-----------------------------------------------------------------------------
(* Ratings *)

LEMMA CarpimArtar ==
  ASSUME NEW s \in Nat, NEW a \in Nat, NEW b \in Nat, a <= b
  PROVE  a * s \in Nat /\ a * s <= b * s
OBVIOUS

LEMMA BolumSinirli ==
  ASSUME NEW a \in Nat, NEW n \in Nat, n > 0, NEW k \in Nat, a < (k + 1) * n
  PROVE  a \div n \in 0..k
<1> DEFINE d == a \div n
<1>1. d \in Int /\ n * d <= a /\ d >= 0
  OBVIOUS
<1> HIDE DEF d
<1>2. d \in Nat /\ n * d < n * (k + 1)
  BY <1>1
<1>3. ASSUME d >= k + 1 PROVE FALSE
  <2>1. (k + 1) * n <= d * n
    BY <1>2, <1>3, CarpimArtar
  <2> QED BY <1>2, <2>1
<1> QED BY <1>2, <1>3 DEF d

\* An average of ratings is one.
LEMMA OrtalamaSinirli ==
  ASSUME NEW ort \in 0..500, NEW sayi \in Nat, NEW p \in 1..5
  PROVE  YeniOrtalama(ort, sayi, p) \in 0..500
<1> DEFINE n == sayi + 1
           a == 2 * (ort * sayi + 100 * p) + n
<1>1. ort * sayi \in Nat /\ ort * sayi <= 500 * sayi
  BY CarpimArtar
<1>2. n \in Nat /\ n > 0 /\ a \in Nat /\ a < 501 * (2 * n)
  BY <1>1
<1>3. a \div (2 * n) \in 0..500
  BY <1>2, BolumSinirli
<1> QED BY <1>3 DEF YeniOrtalama

\* A handler about to rate has read a count that the ratings given account for.
LEMMA DegerlendirOkuAdim ==
  ASSUME IInv, NEW r \in Requests, NEW i \in Ilanlar, NEW u \in Users, DegerlendirOku(r, i, u)
  PROVE  IInv' /\ TablolarGecer
<1> DEFINE t == ilan[i].secili
           k == Karsi(i, u)
           d == Defter(i)
           q == [Bos EXCEPT !.op = "degerlendir", !.ilan = i, !.by = u, !.alan = k,
                            !.sayi = puan[k][d].sayi, !.ort = puan[k][d].ort]
<1>1. Tutarli(ilan, teklif) /\ Puanlayabilir(i, u) /\ Oku(r, q)
  BY DEF IInv, DegerlendirOku
<1>2. /\ Kayit(q) /\ q.op = "degerlendir" /\ q.ilan = i /\ q.by = u /\ q.alan = k
      /\ q.sayi = puan[k][d].sayi /\ q.ort = puan[k][d].ort
  BY DEF Kayit, Bos
<1>3. t # NoTeklif /\ ilan[i].tur \in {"yuk", "arac", "ev"} /\ (TarafiMi(t, u) \/ ilan[i].sahip = u)
  BY <1>1 DEF Puanlayabilir
<1>4. ilan[i] # YokIlan /\ ilan[i] \in IlanRow
  BY <1>1, <1>3, IlanVar
<1>5. t \in Teklifler /\ teklif[t].ilan = i
  BY <1>1, <1>3, <1>4 DEF IlanRow, Tutarli, IlanTutarli
<1>6. teklif[t] # YokTeklif
  BY <1>5, LoadAssumption DEF YokTeklif
<1>7. teklif[t] \in TeklifRow /\ teklif[t].veren # ilan[i].sahip
  BY <1>1, <1>5, <1>6 DEF Tutarli, TeklifTutarli
<1>8. u = ilan[i].sahip \/ u = teklif[t].veren
  BY <1>3, <1>5 DEF TarafiMi
<1>9. k \in Users /\ k # u /\ IsinTarafi(ilan, teklif, i, k)
  BY <1>4, <1>5, <1>7, <1>8 DEF Karsi, IsinTarafi, IlanRow, TeklifRow
<1>10. d = DefterTur(ilan[i].tur) /\ d \in Defterler
  BY DEF Defter, DefterTur, Defterler
<1>11. puan[k][d].sayi \in Nat /\ puan[k][d].ort \in 0..500
       /\ puan[k][d].sayi <= Cardinality(Oylar(ilan, teklif, degerler, k, d))
  <2> HIDE DEF k, d
  <2>1. /\ puan \in [Users -> [Defterler -> [ort : 0..500, sayi : Nat]]]
        /\ \A x \in Users, e \in Defterler :
             puan[x][e].sayi <= Cardinality(Oylar(ilan, teklif, degerler, x, e))
    BY DEF IInv, Sayilir
  <2>2. puan[k] \in [Defterler -> [ort : 0..500, sayi : Nat]]
    BY <1>9, <2>1
  <2>3. puan[k][d] \in [ort : 0..500, sayi : Nat]
    BY <1>10, <2>2
  <2>4. puan[k][d].sayi <= Cardinality(Oylar(ilan, teklif, degerler, k, d))
    BY <1>9, <1>10, <2>1
  <2> QED BY <2>3, <2>4
<1>12. /\ req[r] = Bos /\ req' = [req EXCEPT ![r] = q]
       /\ UNCHANGED <<ilan, teklif, degerler, puan>>
  BY <1>1 DEF Oku, hesapVars
<1> HIDE DEF q, k, d
<1>13. Bilir(ilan, teklif, q)
  <2>1. q.op \notin YukIsi \cup AracIsi \cup Bid \cup TeklifIsi \cup {"onTeklif"}
    BY <1>2 DEF YukIsi, AracIsi, Bid, TeklifIsi
  <2>2. q.ilan \in Ilanlar /\ ilan[q.ilan] # YokIlan
    BY <1>2, <1>4
  <2>3. /\ q.by \in Users /\ q.alan \in Users /\ q.alan # q.by
        /\ IsinTarafi(ilan, teklif, q.ilan, q.alan)
    BY <1>2, <1>9
  <2>4. q.sayi \in Nat /\ q.ort \in 0..500
    BY <1>2, <1>11
  <2> QED BY <1>2, <2>1, <2>2, <2>3, <2>4 DEF Bilir
<1>14. req = [x \in Requests |-> req[x]] /\ \A x \in Requests : Bilir(ilan, teklif, req[x])
  BY DEF IInv, Istekler
<1>15. \A x \in Requests : req'[x] = IF x = r THEN q ELSE req[x]
  BY <1>12, <1>14
<1>16. Istekler(ilan', teklif', req')
  BY <1>12, <1>13, <1>14, <1>15 DEF Istekler
<1>17. Pazarlik(teklif', req')
  <2>1. ASSUME NEW x \in Teklifler PROVE Yolda(req', x) = Yolda(req, x)
    BY <1>2, <1>12, <1>15, BosBilir DEF Yolda
  <2> QED BY <1>12, <2>1 DEF IInv, Pazarlik
<1>18. ASSUME NEW x \in Requests, req'[x].op = "degerlendir"
       PROVE  req'[x].sayi <= Cardinality(Oylar(ilan, teklif, degerler, req'[x].alan,
                                                DefterTur(ilan[req'[x].ilan].tur)))
  <2>1. CASE x = r
    BY <1>2, <1>10, <1>11, <1>15, <2>1
  <2>2. CASE x # r
    BY <1>15, <1>18, <2>2 DEF IInv, Sayilir
  <2> QED BY <2>1, <2>2
<1>19. Sayilir(ilan', teklif', degerler', puan', req')
  BY <1>12, <1>18 DEF IInv, Sayilir
<1>20. TablolarGecer
  BY <1>1, <1>12, AyniGecer DEF TablolarGecer
<1>21. Degerler(ilan', degerler') /\ Tutarli(ilan', teklif')
  BY <1>12 DEF IInv
<1> QED BY <1>16, <1>17, <1>19, <1>20, <1>21 DEF IInv

\* A rating is entered: it was not there, and it counts for the one it raises.
LEMMA DegerlendirYazAdim ==
  ASSUME IInv, NEW r \in Requests, DegerlendirYaz(r)
  PROVE  IInv' /\ TablolarGecer
<1> DEFINE q == req[r]
           x0 == <<q.by, q.ilan>>
           d0 == DefterTur(ilan[q.ilan].tur)
           Once(u, d) == Oylar(ilan, teklif, degerler, u, d)
           Sonra2(u, d) == Oylar(ilan, teklif, degerler', u, d)
<1>1. /\ q.op = "degerlendir" /\ x0 \notin degerler /\ degerler' = degerler \cup {x0}
      /\ UNCHANGED <<ilan, teklif>> /\ req' = [req EXCEPT ![r] = Bos]
  BY DEF DegerlendirYaz, PuanVarMi, Bitir
<1>2. /\ q.ilan \in Ilanlar /\ ilan[q.ilan] # YokIlan
      /\ q.by \in Users /\ q.alan \in Users /\ q.alan # q.by
      /\ IsinTarafi(ilan, teklif, q.ilan, q.alan)
      /\ q.sayi \in Nat /\ q.ort \in 0..500
  BY <1>1 DEF IInv, Istekler, Bilir
<1>3. PICK p \in Puanlar :
        puan' = [puan EXCEPT ![q.alan][d0] =
                   [ort |-> YeniOrtalama(q.ort, q.sayi, p), sayi |-> q.sayi + 1]]
  BY DEF DegerlendirYaz, Defter, DefterTur
<1>4. d0 \in Defterler
  BY DEF DefterTur, Defterler
<1>5. YeniOrtalama(q.ort, q.sayi, p) \in 0..500 /\ q.sayi + 1 \in Nat
  <2>1. p \in 1..5
    BY LoadAssumption
  <2>2. q.sayi + 1 \in Nat
    BY <1>2
  <2> QED BY ZenonT(30), <1>2, <2>1, <2>2, OrtalamaSinirli
<1>6. Tutarli(ilan, teklif) /\ Degerler(ilan, degerler) /\ IsFiniteSet(degerler)
      /\ TablolarGecer
  BY <1>1, AyniGecer DEF IInv, Degerler, TablolarGecer
<1>7. req = [x \in Requests |-> req[x]] /\ \A x \in Requests : Bilir(ilan, teklif, req[x])
  BY DEF IInv, Istekler
<1>8. \A x \in Requests : req'[x] = IF x = r THEN Bos ELSE req[x]
  BY <1>1, <1>7
<1>9. Istekler(ilan', teklif', req')
  BY <1>1, <1>7, <1>8, BosBilir DEF Istekler
<1>10. Pazarlik(teklif', req')
  <2>1. ASSUME NEW x \in Teklifler PROVE Yolda(req', x) = Yolda(req, x)
    BY <1>1, <1>8, BosBilir DEF Yolda
  <2> QED BY <1>1, <2>1 DEF IInv, Pazarlik
<1>11. IsFiniteSet(degerler') /\ degerler \subseteq degerler'
  BY <1>1, <1>6, FS_AddElement
<1>12. Degerler(ilan', degerler')
  BY <1>1, <1>2, <1>6, <1>11 DEF Degerler
<1>13. ASSUME NEW u, NEW d
       PROVE  /\ Cardinality(Once(u, d)) \in Nat /\ Cardinality(Sonra2(u, d)) \in Nat
              /\ Cardinality(Once(u, d)) <= Cardinality(Sonra2(u, d))
              /\ IsFiniteSet(Once(u, d))
  <2>1. Korunur(ilan, teklif, ilan, teklif)
    BY DEF Korunur
  <2> QED BY <1>6, <1>11, <2>1, OylarArtar
<1>14. Cardinality(Sonra2(q.alan, d0)) = Cardinality(Once(q.alan, d0)) + 1
  <2> DEFINE S == Once(q.alan, d0)
  <2>1. Sonra2(q.alan, d0) = S \cup {x0}
    BY <1>1, <1>2 DEF Oylar
  <2>2. x0 \notin S /\ IsFiniteSet(S)
    BY <1>1, <1>13 DEF Oylar
  <2> HIDE DEF S, x0
  <2>3. Cardinality(S \cup {x0}) = Cardinality(S) + 1
    BY <2>2, FS_AddElement
  <2> QED BY <2>1, <2>3 DEF S
<1>15. q.sayi <= Cardinality(Once(q.alan, d0))
  BY <1>1 DEF IInv, Sayilir
<1>16. puan \in [Users -> [Defterler -> [ort : 0..500, sayi : Nat]]]
  BY DEF IInv, Sayilir
<1>17. puan' \in [Users -> [Defterler -> [ort : 0..500, sayi : Nat]]]
  BY ZenonT(30), <1>2, <1>3, <1>4, <1>5, <1>16
<1> HIDE DEF Once, Sonra2, d0
<1>18. ASSUME NEW u \in Users, NEW d \in Defterler
       PROVE  puan'[u][d].sayi <= Cardinality(Sonra2(u, d))
  <2>1. CASE u = q.alan /\ d = d0
    <3>1. puan'[u][d].sayi = q.sayi + 1
      BY <1>3, <1>16, <2>1
    <3> QED BY <1>2, <1>13, <1>14, <1>15, <2>1, <3>1
  <2>2. CASE ~ (u = q.alan /\ d = d0)
    <3>1. puan'[u][d] = puan[u][d]
      BY <1>3, <1>16, <2>2
    <3>2. puan[u][d].sayi \in Nat /\ puan[u][d].sayi <= Cardinality(Once(u, d))
      BY DEF IInv, Sayilir, Once
    <3> QED BY <1>13, <3>1, <3>2
  <2> QED BY <2>1, <2>2
<1>19. ASSUME NEW x \in Requests, req'[x].op = "degerlendir"
       PROVE  req'[x].sayi <= Cardinality(Sonra2(req'[x].alan,
                                                 DefterTur(ilan[req'[x].ilan].tur)))
  <2>1. req'[x] = req[x]
    BY <1>8, <1>19, BosBilir
  <2> DEFINE d == DefterTur(ilan[req[x].ilan].tur)
  <2>2. req[x].sayi <= Cardinality(Once(req[x].alan, d))
    BY <1>19, <2>1 DEF IInv, Sayilir, Once
  <2>3. req[x].sayi \in Nat
    BY <1>7, <1>19, <2>1 DEF Bilir
  <2> HIDE DEF d
  <2>4. req[x].sayi <= Cardinality(Sonra2(req[x].alan, d))
    BY <1>13, <2>2, <2>3
  <2> QED BY <2>1, <2>4 DEF d
<1>20. Sayilir(ilan', teklif', degerler', puan', req')
  BY <1>1, <1>17, <1>18, <1>19 DEF Sayilir, Sonra2
<1> QED BY <1>1, <1>6, <1>9, <1>10, <1>12, <1>20 DEF IInv

-----------------------------------------------------------------------------
(* The boards of loads and of vehicles *)

Adim == IInv' /\ TablolarGecer

LEMMA SiradanYeter ==
  ASSUME IInv, Siradan
  PROVE  Adim
BY SiradanAdim DEF Adim, Siradan

LEMMA YukOkur ==
  ASSUME IInv, YukNext
  PROVE  Adim
<1>1. ASSUME NEW i \in Ilanlar, NEW u \in Users, IlanOlustur(i, u) PROVE Siradan
  <2>1. "ACIK" \in IlanDurum("yuk")
    BY Durumlar DEF YukIlaniDurum
  <2> QED BY <1>1, <2>1, YeniIlanAdim DEF IlanOlustur
<1>2. ASSUME NEW r \in Requests, NEW i \in Ilanlar, NEW u \in Users, IlanIptalOku(r, i, u)
      PROVE  Siradan
  BY <1>2, IlanOkuAdim DEF IlanIptalOku
<1>3. ASSUME NEW r \in Requests, NEW i \in Ilanlar, NEW u \in Users, TeklifVerOku(r, i, u)
      PROVE  Siradan
  BY <1>3, BidOkuAdim DEF TeklifVerOku
<1>4. ASSUME NEW r \in Requests, NEW i \in Ilanlar, NEW u \in Users, TasimaBaslaOku(r, i, u)
      PROVE  Siradan
  BY <1>4, IlanOkuAdim DEF TasimaBaslaOku
<1>5. ASSUME NEW r \in Requests, NEW i \in Ilanlar, NEW u \in Users, TasimaTamamlaOku(r, i, u)
      PROVE  Siradan
  BY <1>5, IlanOkuAdim DEF TasimaTamamlaOku
<1>6. ASSUME NEW r \in Requests, NEW t \in Teklifler, NEW u \in Users, TeklifGeriCekOku(r, t, u)
      PROVE  Siradan
  BY <1>6, TeklifOkuAdim DEF TeklifGeriCekOku
<1>7. ASSUME NEW r \in Requests, NEW t \in Teklifler, NEW u \in Users, TeklifKabulOku(r, t, u)
      PROVE  Siradan
  BY <1>7, KabulOkuAdim DEF TeklifKabulOku
<1>8. ASSUME NEW r \in Requests, NEW t \in Teklifler, NEW u \in Users, TeklifReddetOku(r, t, u)
      PROVE  Siradan
  BY <1>8, TeklifOkuAdim DEF TeklifReddetOku
<1>9. ASSUME NEW r \in Requests, NEW t \in Teklifler, NEW u \in Users, YukKarsiTeklifOku(r, t, u)
      PROVE  Adim
  BY <1>9, KarsiOkuAdim DEF YukKarsiTeklifOku, Adim
<1> QED BY <1>1, <1>2, <1>3, <1>4, <1>5, <1>6, <1>7, <1>8, <1>9, SiradanYeter DEF YukNext

\* An offer on a load arrives and may reopen the listing.
LEMMA TeklifVerAdim ==
  ASSUME IInv, NEW r \in Requests, TeklifVerYaz(r)
  PROVE  Siradan
<1> DEFINE i == req[r].ilan
           u == req[r].by
           b == [ilan[i] EXCEPT !.durum = "TEKLIF_ALINDI"]
<1>1. /\ Tutarli(ilan, teklif) /\ i \in Ilanlar /\ ilan[i].tur = "yuk"
      /\ u \in Users /\ u # ilan[i].sahip
  BY DEF IInv, Istekler, Bilir, TeklifVerYaz, YukIsi, Bid
<1>2. PICK fiyat \in Fiyatlar : YeniTeklif(i, u, "BEKLIYOR", "FIRMA", fiyat)
  BY DEF TeklifVerYaz
<1>3. /\ ilan' = IF req[r].durum = "ACIK" THEN [ilan EXCEPT ![i] = b] ELSE ilan
      /\ Bitir(r) /\ UNCHANGED <<degerler, puan>>
  BY DEF TeklifVerYaz, hesapVars
<1>4. IlanGider(ilan[i], b)
  <2>1. "TEKLIF_ALINDI" \in IlanDurum("yuk")
    BY Durumlar DEF YukIlaniDurum
  <2> QED BY <1>1, <2>1, DurumGider
<1> HIDE DEF b
<1>5. Gecer(ilan, teklif, ilan', teklif)
  <2>1. Gecer(ilan, teklif, [ilan EXCEPT ![i] = b], teklif)
    BY <1>1, <1>4, IlanYazilir
  <2>2. Gecer(ilan, teklif, ilan, teklif)
    BY <1>1, AyniGecer
  <2> QED BY <1>3, <2>1, <2>2
<1>6. ilan'[i] # YokIlan /\ ilan'[i].sahip = ilan[i].sahip /\ Tutarli(ilan', teklif)
  BY <1>1, <1>5, IlanVar DEF Gecer, Korunur
<1>7. fiyat \in Nat
  BY LoadAssumption
<1>8. Gecer(ilan', teklif, ilan', teklif') /\ \A t \in Teklifler : teklif'[t].el = teklif[t].el
  BY <1>1, <1>2, <1>6, <1>7, YeniTeklifGecer
<1>9. TablolarGecer
  BY <1>1, <1>5, <1>8, GecerGecer DEF TablolarGecer
<1> QED BY <1>3, <1>8, <1>9, BitirSiradan

\* An offer on a vehicle or a house move arrives.
LEMMA TeklifEkleAdim ==
  ASSUME IInv, NEW r \in Requests, req[r].op \in {"aracTeklifVer", "onTeklif"},
         NEW durum \in {"BEKLIYOR", "ON_TEKLIF"}, NEW taraf \in {"TASIYICI", "YOK"},
         NEW fiyat \in Fiyatlar,
         YeniTeklif(req[r].ilan, req[r].by, durum, taraf, fiyat),
         Bitir(r), UNCHANGED <<ilan, hesapVars>>
  PROVE  Siradan
<1> DEFINE i == req[r].ilan
           u == req[r].by
<1>1. /\ Tutarli(ilan, teklif) /\ i \in Ilanlar /\ ilan[i].tur \in {"arac", "ev"}
      /\ u \in Users /\ u # ilan[i].sahip
  BY DEF IInv, Istekler, Bilir, AracIsi, Bid
<1>2. ilan[i] # YokIlan /\ fiyat \in Nat
  BY <1>1, IlanVar, LoadAssumption
<1>3. UNCHANGED <<ilan, degerler, puan>>
  BY DEF hesapVars
<1>4. Gecer(ilan, teklif, ilan, teklif') /\ \A t \in Teklifler : teklif'[t].el = teklif[t].el
  BY <1>1, <1>2, YeniTeklifGecer
<1>5. TablolarGecer
  BY <1>3, <1>4 DEF TablolarGecer
<1> QED BY <1>3, <1>4, <1>5, BitirSiradan

\* An error or a stop: nothing is written.
LEMMA CakismaAdim ==
  ASSUME IInv, NEW r \in Requests, Cakisma(r)
  PROVE  Siradan
<1>1. UNCHANGED <<ilan, teklif, degerler, puan>> /\ Bitir(r)
  BY DEF Cakisma, hesapVars
<1>2. TablolarGecer
  BY <1>1, AyniGecer DEF IInv, TablolarGecer
<1> QED BY <1>1, <1>2, BitirSiradan

LEMMA YukYazar ==
  ASSUME IInv, NEW r \in Requests, YukYaz(r)
  PROVE  Adim
<1>1. req[r].op \in {"ilanIptal", "basla", "tamamla"} =>
        req[r].ilan \in Ilanlar /\ ilan[req[r].ilan].tur = "yuk"
  BY DEF IInv, Istekler, Bilir, YukIsi
<1>2. CASE IlanIptalYaz(r)
  BY <1>1, <1>2, IlanDurumAdim, SiradanYeter DEF IlanIptalYaz
<1>3. CASE TeklifVerYaz(r)
  BY <1>3, TeklifVerAdim, SiradanYeter
<1>4. CASE TeklifGeriCekYaz(r)
  BY <1>4, DurumAdim, SiradanYeter DEF TeklifGeriCekYaz, TeklifIsi
<1>5. CASE TeklifKabulYaz(r)
  <2>1. /\ req[r].op = "kabul" /\ Eslestir(r, "ESLESTI")
        /\ ilan[req[r].ilan].tur = "yuk"
    BY <1>5 DEF TeklifKabulYaz
  <2>2. Siradan
    BY <2>1, EslestirAdim
  <2> QED BY <2>2, SiradanYeter
<1>6. CASE KabulCakisma(r)
  BY <1>6, CakismaAdim, SiradanYeter DEF KabulCakisma
<1>7. CASE TeklifReddetYaz(r)
  BY <1>7, DurumAdim, SiradanYeter DEF TeklifReddetYaz, TeklifIsi
<1>8. CASE KarsiTeklifYaz(r)
  BY <1>8, KarsiYazAdim DEF Adim
<1>9. CASE TasimaBaslaYaz(r)
  BY <1>1, <1>9, IlanDurumAdim, SiradanYeter DEF TasimaBaslaYaz
<1>10. CASE TasimaTamamlaYaz(r)
  BY <1>1, <1>10, IlanDurumAdim, SiradanYeter DEF TasimaTamamlaYaz
<1> QED BY <1>2, <1>3, <1>4, <1>5, <1>6, <1>7, <1>8, <1>9, <1>10 DEF YukYaz

\* A mark is set on a listing, its status as it was or one of its board's.
LEMMA IsaretGider ==
  ASSUME NEW il, NEW te, Tutarli(il, te), NEW i \in Ilanlar,
         il[i].tur \in {"yuk", "arac", "ev"},
         NEW b, \/ b = [il[i] EXCEPT !.beyan = TRUE]
                \/ b = [il[i] EXCEPT !.gecmis = TRUE]
                \/ il[i].tur = "arac" /\ b = [il[i] EXCEPT !.durum = "TAMAMLANDI", !.onay = TRUE]
  PROVE  IlanGider(il[i], b)
<1>1. il[i] # YokIlan /\ il[i] \in IlanRow /\ il[i].durum \in IlanDurum(il[i].tur)
  BY IlanVar
<1>2. /\ b \in IlanRow /\ b.tur = il[i].tur /\ b.sahip = il[i].sahip /\ b.secili = il[i].secili
      /\ b.durum = il[i].durum \/ (il[i].tur = "arac" /\ b.durum = "TAMAMLANDI")
  BY <1>1 DEF IlanRow, AracIlaniDurum
<1>3. b # YokIlan
  BY <1>1, <1>2 DEF IlanRow, YokIlan
<1>4. "TAMAMLANDI" \in IlanDurum("arac")
  BY Durumlar DEF AracIlaniDurum
<1> QED BY <1>1, <1>2, <1>3, <1>4 DEF IlanGider

LEMMA AracOkur ==
  ASSUME IInv, AracNext
  PROVE  Adim
<1>1. ASSUME NEW i \in Ilanlar, NEW u \in Users, AracIlaniOlustur(i, u) PROVE Siradan
  <2>1. "MUSAIT" \in IlanDurum("arac")
    BY Durumlar DEF AracIlaniDurum
  <2> QED BY <1>1, <2>1, YeniIlanAdim DEF AracIlaniOlustur
<1>2. ASSUME NEW i \in Ilanlar, NEW u \in Users, AracIlaniKapat(i, u) PROVE Siradan
  <2> DEFINE b == [ilan[i] EXCEPT !.durum = "PASIF"]
  <2>1. "PASIF" \in IlanDurum("arac")
    BY Durumlar DEF AracIlaniDurum
  <2>2. IlanGider(ilan[i], b)
    BY <1>2, <2>1, DurumGider DEF IInv, AracIlaniKapat
  <2>3. ilan' = [ilan EXCEPT ![i] = b] /\ UNCHANGED <<teklif, degerler, puan, req>>
    BY <1>2 DEF AracIlaniKapat, hesapVars
  <2> HIDE DEF b
  <2> QED BY <2>2, <2>3, YalnizIlan, TabloSiradan
<1>3. ASSUME NEW i \in Ilanlar, NEW u \in Users, AracTeslimOnay(i, u) PROVE Siradan
  <2> DEFINE b == [ilan[i] EXCEPT !.durum = "TAMAMLANDI", !.onay = TRUE]
  <2>1. ilan[i].tur = "arac" /\ Tutarli(ilan, teklif)
    BY <1>3 DEF AracTeslimOnay, IInv
  <2>2. IlanGider(ilan[i], b)
    BY <2>1, IsaretGider
  <2>3. ilan' = [ilan EXCEPT ![i] = b] /\ UNCHANGED <<teklif, degerler, puan, req>>
    BY <1>3 DEF AracTeslimOnay, hesapVars
  <2> HIDE DEF b
  <2> QED BY <2>2, <2>3, YalnizIlan, TabloSiradan
<1>4. ASSUME NEW r \in Requests, NEW i \in Ilanlar, NEW u \in Users, AracTeklifVerOku(r, i, u)
      PROVE  Siradan
  BY <1>4, BidOkuAdim DEF AracTeklifVerOku
<1>5. ASSUME NEW r \in Requests, NEW i \in Ilanlar, NEW u \in Users, AracTeslimBeyanOku(r, i, u)
      PROVE  Siradan
  BY <1>5, IlanOkuAdim DEF AracTeslimBeyanOku
<1>6. ASSUME NEW r \in Requests, NEW t \in Teklifler, NEW u \in Users,
             AracTeklifGeriCekOku(r, t, u)
      PROVE  Siradan
  BY <1>6, TeklifOkuAdim DEF AracTeklifGeriCekOku
<1>7. ASSUME NEW r \in Requests, NEW t \in Teklifler, NEW u \in Users,
             AracTeklifKabulOku(r, t, u)
      PROVE  Siradan
  BY <1>7, KabulOkuAdim DEF AracTeklifKabulOku
<1>8. ASSUME NEW r \in Requests, NEW t \in Teklifler, NEW u \in Users,
             AracTeklifReddetOku(r, t, u)
      PROVE  Siradan
  BY <1>8, TeklifOkuAdim DEF AracTeklifReddetOku
<1>9. ASSUME NEW r \in Requests, NEW t \in Teklifler, NEW u \in Users,
             AracKarsiTeklifOku(r, t, u)
      PROVE  Adim
  BY <1>9, KarsiOkuAdim DEF AracKarsiTeklifOku, Adim
<1> QED BY <1>1, <1>2, <1>3, <1>4, <1>5, <1>6, <1>7, <1>8, <1>9, SiradanYeter DEF AracNext

LEMMA AracYazar ==
  ASSUME IInv, NEW r \in Requests, AracYaz(r)
  PROVE  Adim
<1>1. CASE AracTeklifVerYaz(r)
  <2>1. PICK fiyat \in Fiyatlar :
          YeniTeklif(req[r].ilan, req[r].by, "BEKLIYOR", "TASIYICI", fiyat)
    BY <1>1 DEF AracTeklifVerYaz
  <2>2. Bitir(r) /\ UNCHANGED <<ilan, hesapVars>> /\ req[r].op \in {"aracTeklifVer", "onTeklif"}
    BY <1>1 DEF AracTeklifVerYaz
  <2> QED BY <2>1, <2>2, TeklifEkleAdim, SiradanYeter
<1>2. CASE AracTeklifKabulYaz(r)
  <2>1. /\ req[r].op = "kabul" /\ Eslestir(r, "DOLU")
        /\ ilan[req[r].ilan].tur = "arac"
    BY <1>2 DEF AracTeklifKabulYaz
  <2>2. Siradan
    BY <2>1, EslestirAdim
  <2> QED BY <2>2, SiradanYeter
<1>3. CASE AracTeslimBeyanYaz(r)
  <2> DEFINE i == req[r].ilan
             b == [ilan[i] EXCEPT !.beyan = TRUE]
  <2>1. i \in Ilanlar /\ ilan[i].tur = "arac" /\ Tutarli(ilan, teklif)
    BY <1>3 DEF AracTeslimBeyanYaz, IInv, Istekler, Bilir, AracIsi
  <2>2. IlanGider(ilan[i], b)
    BY <2>1, IsaretGider
  <2>3. ilan' = [ilan EXCEPT ![i] = b] /\ UNCHANGED <<teklif, degerler, puan>> /\ Bitir(r)
    BY <1>3 DEF AracTeslimBeyanYaz, hesapVars
  <2> HIDE DEF b
  <2> QED BY <2>1, <2>2, <2>3, YalnizIlan, BitirSiradan, SiradanYeter
<1> QED BY <1>1, <1>2, <1>3 DEF AracYaz

-----------------------------------------------------------------------------
(* The board of house moves *)

\* A request that relies on no row.
Serbest(q) ==
  /\ Kayit(q)
  /\ q.op \in {"bos", "lead", "sozlesmeTasitan", "sozlesmeTasiyan", "sms", "temizlik",
               "komisyonOnayla", "komisyonReddet"}

LEMMA SerbestBilir ==
  ASSUME NEW il, NEW te, NEW q, Serbest(q)
  PROVE  Bilir(il, te, q) /\ q.op \notin {"karsi", "degerlendir"}
BY DEF Serbest, Bilir, YukIsi, AracIsi, Bid, TeklifIsi

\* The tables are written, and r goes on to something that relies on no row.
LEMMA SerbestSiradan ==
  ASSUME IInv, NEW r \in Requests, NEW q, Serbest(q), req' = [req EXCEPT ![r] = q],
         TablolarGecer, \A t \in Teklifler : teklif'[t].el = teklif[t].el,
         UNCHANGED <<degerler, puan>>
  PROVE  Siradan
<1>1. req = [x \in Requests |-> req[x]]
  BY DEF IInv, Istekler
<1>2. Bilir(ilan', teklif', q) /\ q.op \notin {"karsi", "degerlendir"}
  BY SerbestBilir
<1> QED BY <1>1, <1>2 DEF Siradan

\* So it is when the tables stay as they are.
LEMMA SerbestKalir ==
  ASSUME IInv, NEW r \in Requests, NEW q, Serbest(q), req' = [req EXCEPT ![r] = q],
         UNCHANGED <<ilan, teklif, degerler, puan>>
  PROVE  Siradan
<1>1. TablolarGecer
  BY AyniGecer DEF IInv, TablolarGecer
<1> QED BY <1>1, SerbestSiradan

LEMMA SonraSerbest ==
  ASSUME NEW r \in Requests, NEW i,
         NEW op \in {"lead", "sozlesmeTasitan", "sms"}, Sonra(r, op, i)
  PROVE  \E q : Serbest(q) /\ req' = [req EXCEPT ![r] = q]
<1> DEFINE q == [Bos EXCEPT !.op = op, !.ilan = i, !.hedef = ilan[i].secili]
<1>1. Kayit(q) /\ q.op = op
  BY DEF Kayit, Bos
<1>2. req' = [req EXCEPT ![r] = q]
  BY DEF Sonra
<1> HIDE DEF q
<1> QED BY <1>1, <1>2 DEF Serbest

LEMMA UcretOnaylaAdim ==
  ASSUME IInv, NEW r \in Requests, NEW i \in Ilanlar, UcretOnayla(r, i)
  PROVE  Siradan
<1> DEFINE b == [ilan[i] EXCEPT !.durum = "ACIK"]
<1>1. "ACIK" \in IlanDurum("ev")
  BY Durumlar DEF EvIlaniDurum
<1>2. IlanGider(ilan[i], b)
  BY <1>1, DurumGider DEF IInv, UcretOnayla, Kilitli
<1>3. ilan' = [ilan EXCEPT ![i] = b] /\ UNCHANGED <<teklif, degerler, puan>>
  BY DEF UcretOnayla, hesapVars
<1> HIDE DEF b
<1>4. PICK q : Serbest(q) /\ req' = [req EXCEPT ![r] = q]
  BY SonraSerbest DEF UcretOnayla
<1> QED BY <1>2, <1>3, <1>4, YalnizIlan, SerbestSiradan

LEMMA EvTeslimOnayAdim ==
  ASSUME IInv, NEW r \in Requests, NEW i \in Ilanlar, NEW u, EvTeslimOnay(r, i, u)
  PROVE  Siradan
<1> DEFINE b == [ilan[i] EXCEPT !.durum = "TAMAMLANDI"]
<1>1. "TAMAMLANDI" \in IlanDurum("ev")
  BY Durumlar DEF EvIlaniDurum
<1>2. IlanGider(ilan[i], b)
  BY <1>1, DurumGider DEF IInv, EvTeslimOnay, Kilitli
<1>3. ilan' = [ilan EXCEPT ![i] = b] /\ UNCHANGED <<teklif, degerler, puan>>
  BY DEF EvTeslimOnay, hesapVars
<1> HIDE DEF b
<1>4. PICK q : Serbest(q) /\ req' = [req EXCEPT ![r] = q]
  BY SonraSerbest DEF EvTeslimOnay
<1> QED BY <1>2, <1>3, <1>4, YalnizIlan, SerbestSiradan

LEMMA UcretBildirAdim ==
  ASSUME IInv, NEW i \in Ilanlar, NEW u, UcretBildir(i, u)
  PROVE  Siradan
<1> DEFINE b == [ilan[i] EXCEPT !.beyan = TRUE]
<1>1. ilan[i].tur = "ev" /\ Tutarli(ilan, teklif)
  BY DEF IInv, UcretBildir
<1>2. IlanGider(ilan[i], b)
  BY <1>1, IsaretGider
<1>3. ilan' = [ilan EXCEPT ![i] = b] /\ UNCHANGED <<teklif, degerler, puan, req>>
  BY DEF UcretBildir, hesapVars
<1> HIDE DEF b
<1> QED BY <1>2, <1>3, YalnizIlan, TabloSiradan

LEMMA EvinTeklifi ==
  ASSUME IInv, NEW t \in Teklifler, EvMi(t)
  PROVE  /\ teklif[t] # YokTeklif /\ teklif[t] \in TeklifRow
         /\ teklif[t].ilan \in Ilanlar /\ ilan[teklif[t].ilan] \in IlanRow
         /\ ilan[teklif[t].ilan].tur = "ev"
         /\ Tutarli(ilan, teklif)
<1>1. teklif[t] # YokTeklif /\ ilan[teklif[t].ilan].tur = "ev"
  BY DEF EvMi, YokTeklif
<1>2. teklif[t] \in TeklifRow /\ teklif[t].ilan \in Ilanlar
  BY <1>1, TeklifVar DEF IInv
<1>3. ilan[teklif[t].ilan] \in IlanRow
  BY <1>1, <1>2, IlanVar DEF IInv
<1> QED BY <1>1, <1>2, <1>3 DEF IInv

\* While a house move is not locked, none of its offers is accepted.
LEMMA AcikEv ==
  ASSUME IInv, NEW i \in Ilanlar, ilan[i].tur = "ev", ilan[i].durum \notin Kilitli,
         NEW x \in Teklifler, teklif[x].ilan = i
  PROVE  teklif[x].durum # "KABUL"
<1>1. teklif[x] # YokTeklif
  BY LoadAssumption DEF YokTeklif
<1> QED BY <1>1 DEF IInv, Tutarli, TeklifTutarli, Kilitli

LEMMA KesfeDavetAdim ==
  ASSUME IInv, NEW t \in Teklifler, NEW u, KesfeDavet(t, u)
  PROVE  Siradan
<1> DEFINE i == teklif[t].ilan
           a == [ilan[i] EXCEPT !.durum = "KESIF_SURECINDE", !.secili = t]
           b == [teklif[t] EXCEPT !.durum = "KESFE_DAVET"]
<1>1. /\ teklif[t] # YokTeklif /\ teklif[t] \in TeklifRow
      /\ i \in Ilanlar /\ ilan[i] \in IlanRow /\ ilan[i].tur = "ev" /\ Tutarli(ilan, teklif)
  BY EvinTeklifi DEF KesfeDavet
<1>2. /\ ilan[i].durum = "ACIK"
      /\ ilan' = [ilan EXCEPT ![i] = a] /\ teklif' = [teklif EXCEPT ![t] = b]
      /\ UNCHANGED <<degerler, puan, req>>
  BY DEF KesfeDavet, hesapVars
<1>3. /\ a \in IlanRow /\ a.tur = "ev" /\ a.sahip = ilan[i].sahip /\ a.secili = t
      /\ a.durum = "KESIF_SURECINDE"
  BY <1>1 DEF IlanRow, EvIlaniDurum
<1>4. /\ b \in TeklifRow /\ b.ilan = i /\ b.veren = teklif[t].veren
      /\ b.durum = "KESFE_DAVET" /\ b.el = teklif[t].el
  BY <1>1 DEF TeklifRow, EvTeklifDurum
<1>5. a.durum \in IlanDurum("ev") /\ a.durum # "MUSAIT" /\ a.durum \notin Kilitli
  BY <1>3, Durumlar DEF EvIlaniDurum, Kilitli
<1> HIDE DEF a, b
<1>6. teklif = [x \in Teklifler |-> teklif[x]]
  BY <1>1 DEF Tutarli
<1>7. /\ teklif' = [x \in Teklifler |-> teklif'[x]]
      /\ \A x \in Teklifler : teklif'[x] = IF x = t THEN b ELSE teklif[x]
  BY <1>2, <1>6
<1>8. \A x \in Teklifler \ {t} : TeklifGider(ilan[teklif[x].ilan].tur, teklif[x], teklif'[x])
  BY <1>1, <1>7 DEF Tutarli, TeklifGider
<1>9. \A x \in Teklifler : teklif[x].ilan = i => teklif[x].durum # "KABUL"
  BY <1>1, <1>2, AcikEv DEF Kilitli
<1>10. Gecer(ilan, teklif, [ilan EXCEPT ![i] = a], teklif')
  <2>1. teklif'[t] = b
    BY <1>7
  <2> QED BY <1>1, <1>3, <1>4, <1>5, <1>7, <1>8, <1>9, <2>1, SecilirGecer
<1>11. TablolarGecer
  BY <1>2, <1>10 DEF TablolarGecer
<1>12. \A x \in Teklifler : teklif'[x].el = teklif[x].el
  BY <1>4, <1>7
<1> QED BY <1>2, <1>11, <1>12, TabloSiradan

LEMMA KesifSonucAdim ==
  ASSUME IInv, NEW t \in Teklifler, NEW u, KesifSonuc(t, u)
  PROVE  Siradan
<1>1. /\ teklif[t] # YokTeklif /\ teklif[t] \in TeklifRow /\ Tutarli(ilan, teklif)
      /\ teklif[t].durum = "KESFE_DAVET"
  BY EvinTeklifi DEF KesifSonuc, KesifBekler
<1>2. teklif[t].fiyat \in Nat /\ Fiyatlar \subseteq Nat
  BY <1>1, LoadAssumption DEF TeklifRow
<1>3. PICK durum \in Kesifli, kesin \in Nat :
        teklif' = [teklif EXCEPT ![t].durum = durum, ![t].kesin = kesin]
  BY <1>2 DEF KesifSonuc, Kesifli
<1> DEFINE b == [teklif[t] EXCEPT !.durum = durum, !.kesin = kesin]
<1>4. /\ b \in TeklifRow /\ b.ilan = teklif[t].ilan /\ b.veren = teklif[t].veren
      /\ b.durum # "KABUL" /\ b.el = teklif[t].el
  BY <1>1 DEF TeklifRow, EvTeklifDurum, Kesifli
<1>5. teklif' = [teklif EXCEPT ![t] = b] /\ UNCHANGED <<ilan, degerler, puan, req>>
  BY <1>3 DEF KesifSonuc, hesapVars
<1> HIDE DEF b
<1>6. b # YokTeklif
  BY <1>4, LoadAssumption DEF TeklifRow, YokTeklif
<1>7. TeklifGider(ilan[teklif[t].ilan].tur, teklif[t], b)
  BY <1>1, <1>4, <1>6 DEF TeklifGider
<1>8. TablolarGecer
  BY <1>1, <1>5, <1>7, TeklifYazilir DEF TablolarGecer
<1>9. \A x \in Teklifler : teklif'[x].el = teklif[x].el
  BY <1>1, <1>4, <1>5 DEF Tutarli
<1> QED BY <1>5, <1>8, <1>9, TabloSiradan

LEMMA KesinFiyatKabulAdim ==
  ASSUME IInv, NEW r \in Requests, NEW t \in Teklifler, NEW u, KesinFiyatKabul(r, t, u)
  PROVE  Siradan
<1> DEFINE i == teklif[t].ilan
           a == [ilan[i] EXCEPT !.durum = "KILITLENDI"]
           b == [teklif[t] EXCEPT !.durum = "KABUL"]
<1>1. /\ teklif[t] # YokTeklif /\ teklif[t] \in TeklifRow
      /\ i \in Ilanlar /\ ilan[i] \in IlanRow /\ ilan[i].tur = "ev" /\ Tutarli(ilan, teklif)
  BY EvinTeklifi DEF KesinFiyatKabul
<1>2. /\ ilan[i].durum = "KESIF_SURECINDE" /\ ilan[i].secili = t
      /\ ilan' = [ilan EXCEPT ![i] = a]
      /\ teklif' = [x \in Teklifler |->
           IF x = t THEN b
           ELSE IF teklif[x].ilan = i /\ teklif[x].durum \in {"ON_TEKLIF", "KESFE_DAVET"}
             THEN [teklif[x] EXCEPT !.durum = "RED"] ELSE teklif[x]]
      /\ UNCHANGED <<degerler, puan>>
  BY DEF KesinFiyatKabul, KilitOlur, hesapVars
<1>3. /\ a \in IlanRow /\ a.tur = "ev" /\ a.sahip = ilan[i].sahip /\ a.secili = t
      /\ a.durum = "KILITLENDI"
  BY <1>1, <1>2 DEF IlanRow, EvIlaniDurum
<1>4. /\ b \in TeklifRow /\ b.ilan = i /\ b.veren = teklif[t].veren
      /\ b.durum = "KABUL" /\ b.el = teklif[t].el
  BY <1>1 DEF TeklifRow, EvTeklifDurum
<1>5. a.durum \in IlanDurum("ev") /\ a.durum # "MUSAIT" /\ a.durum \in Kilitli
  BY <1>3, Durumlar DEF EvIlaniDurum, Kilitli
<1> HIDE DEF a, b
<1>6. teklif' = [x \in Teklifler |-> teklif'[x]] /\ teklif'[t] = b
  BY <1>2
<1>7. ASSUME NEW x \in Teklifler \ {t}
      PROVE  /\ TeklifGider(ilan[teklif[x].ilan].tur, teklif[x], teklif'[x])
             /\ teklif'[x].el = teklif[x].el
  <2>1. teklif[x] \in TeklifRow \cup {YokTeklif}
    BY <1>1 DEF Tutarli
  <2>2. CASE teklif[x].ilan = i /\ teklif[x].durum \in {"ON_TEKLIF", "KESFE_DAVET"}
    <3>1. teklif'[x] = [teklif[x] EXCEPT !.durum = "RED"] /\ teklif[x] \in TeklifRow
      BY <1>2, <2>1, <2>2 DEF YokTeklif
    <3>2. /\ teklif'[x] \in TeklifRow /\ teklif'[x].ilan = teklif[x].ilan
          /\ teklif'[x].veren = teklif[x].veren /\ teklif'[x].durum = "RED"
          /\ teklif'[x].el = teklif[x].el
      BY <3>1 DEF TeklifRow, TeklifDurum
    <3>3. teklif'[x] # YokTeklif /\ teklif[x] # YokTeklif
      BY <3>2, <2>2, LoadAssumption DEF YokTeklif
    <3> QED BY <2>2, <3>2, <3>3 DEF TeklifGider
  <2>3. CASE ~ (teklif[x].ilan = i /\ teklif[x].durum \in {"ON_TEKLIF", "KESFE_DAVET"})
    <3>1. teklif'[x] = teklif[x]
      BY <1>2, <2>3
    <3> QED BY <2>1, <3>1 DEF TeklifGider
  <2> QED BY <2>2, <2>3
<1>8. \A x \in Teklifler : teklif[x].ilan = i => teklif[x].durum # "KABUL"
  BY <1>1, <1>2, AcikEv DEF Kilitli
<1>9. Gecer(ilan, teklif, [ilan EXCEPT ![i] = a], teklif')
  BY <1>1, <1>3, <1>4, <1>5, <1>6, <1>7, <1>8, SecilirGecer
<1>10. TablolarGecer
  BY <1>2, <1>9 DEF TablolarGecer
<1>11. \A x \in Teklifler : teklif'[x].el = teklif[x].el
  BY <1>4, <1>6, <1>7
<1>12. PICK q : Serbest(q) /\ req' = [req EXCEPT ![r] = q]
  BY SonraSerbest DEF KesinFiyatKabul
<1> QED BY <1>2, <1>10, <1>11, <1>12, SerbestSiradan

LEMMA EvOkur ==
  ASSUME IInv, EvNext
  PROVE  Adim
<1> USE LoadAssumption
<1>1. ASSUME NEW i \in Ilanlar, NEW u \in Firmalar, EvIlanOlustur(i, u) PROVE Siradan
  <2>1. "ODEME_BEKLIYOR" \in IlanDurum("ev") /\ u \in Users
    BY Durumlar DEF EvIlaniDurum
  <2> QED BY <1>1, <2>1, YeniIlanAdim DEF EvIlanOlustur
<1>2. ASSUME NEW i \in Ilanlar, NEW u \in Firmalar, UcretBildir(i, u) PROVE Siradan
  BY <1>2, UcretBildirAdim
<1>3. ASSUME NEW t \in Teklifler, NEW u \in Firmalar, KesfeDavet(t, u) PROVE Siradan
  BY <1>3, KesfeDavetAdim
<1>4. ASSUME NEW t \in Teklifler, NEW u \in Tasiyicilar, KesifSonuc(t, u) PROVE Siradan
  BY <1>4, KesifSonucAdim
<1>5. ASSUME NEW r \in Requests, NEW i \in Ilanlar, UcretOnayla(r, i) PROVE Siradan
  BY <1>5, UcretOnaylaAdim
<1>6. ASSUME NEW r \in Requests, NEW i \in Ilanlar, NEW u \in Tasiyicilar,
             OnTeklifVerOku(r, i, u)
      PROVE  Siradan
  <2>1. u \in Users
    OBVIOUS
  <2> QED BY <1>6, <2>1, BidOkuAdim DEF OnTeklifVerOku
<1>7. ASSUME NEW r \in Requests, NEW i \in Ilanlar, NEW u \in Firmalar, EvTeslimOnay(r, i, u)
      PROVE  Siradan
  BY <1>7, EvTeslimOnayAdim
<1>8. ASSUME NEW r \in Requests, NEW t \in Teklifler, NEW u \in Firmalar,
             KesinFiyatKabul(r, t, u)
      PROVE  Siradan
  BY <1>8, KesinFiyatKabulAdim
<1> QED BY <1>1, <1>2, <1>3, <1>4, <1>5, <1>6, <1>7, <1>8, SiradanYeter DEF EvNext

\* What a handler does after its commit touches neither table.
LEMMA EvYazar ==
  ASSUME IInv, NEW r \in Requests, EvYaz(r)
  PROVE  Siradan
<1>1. ASSUME NEW is, KuyrugaEkle(r, is) PROVE Siradan
  <2>1. Serbest(Bos)
    BY DEF Serbest, Kayit, Bos
  <2>2. req' = [req EXCEPT ![r] = Bos] /\ UNCHANGED <<ilan, teklif, degerler, puan>>
    BY <1>1 DEF KuyrugaEkle, Bitir
  <2> QED BY <2>1, <2>2, SerbestKalir
<1>2. CASE LeadEkle(r)
  BY <1>1, <1>2 DEF LeadEkle
<1>3. CASE OnTeklifVerYaz(r)
  <2>1. PICK fiyat \in Fiyatlar :
          YeniTeklif(req[r].ilan, req[r].by, "ON_TEKLIF", "YOK", fiyat)
    BY <1>3 DEF OnTeklifVerYaz
  <2>2. Bitir(r) /\ UNCHANGED <<ilan, hesapVars>> /\ req[r].op \in {"aracTeklifVer", "onTeklif"}
    BY <1>3 DEF OnTeklifVerYaz
  <2> QED BY <2>1, <2>2, TeklifEkleAdim
<1>4. ASSUME NEW op \in {"sozlesmeTasiyan", "sms"}, req' = [req EXCEPT ![r].op = op],
             UNCHANGED <<ilan, teklif, degerler, puan>>
      PROVE  Siradan
  <2> DEFINE q == [req[r] EXCEPT !.op = op]
  <2>1. Kayit(req[r])
    BY DEF IInv, Istekler, Bilir
  <2>2. Kayit(q) /\ q.op = op
    BY <2>1 DEF Kayit
  <2>3. req' = [req EXCEPT ![r] = q]
    BY <1>4
  <2> HIDE DEF q
  <2>4. Serbest(q)
    BY <2>2 DEF Serbest
  <2> QED BY <1>4, <2>3, <2>4, SerbestKalir
<1>5. CASE EvSozlesmeTasitan(r)
  BY <1>4, <1>5 DEF EvSozlesmeTasitan
<1>6. CASE EvSozlesmeTasiyan(r)
  BY <1>4, <1>6 DEF EvSozlesmeTasiyan
<1>7. CASE SmsEkle(r)
  BY <1>1, <1>7 DEF SmsEkle
<1> QED BY <1>2, <1>3, <1>5, <1>6, <1>7 DEF EvYaz

-----------------------------------------------------------------------------
(* Accounts, contracts, documents and the clean-up *)

LEMMA HesapAdim ==
  ASSUME IInv, HesapNext
  PROVE  Siradan
<1>1. ASSUME UNCHANGED <<ilan, teklif, degerler, puan, req>> PROVE Siradan
  <2>1. TablolarGecer
    BY <1>1, AyniGecer DEF IInv, TablolarGecer
  <2> QED BY <1>1, <2>1, TabloSiradan
<1>2. ASSUME NEW o \in DOMAIN odeme, NEW b \in Bildirimler, KomisyonBildir(o, b[1], b[2])
      PROVE  Siradan
  BY <1>1, <1>2 DEF KomisyonBildir
<1>3. ASSUME NEW r \in Requests, NEW o \in DOMAIN odeme, NEW u \in Adminler,
             NEW op \in {"komisyonOnayla", "komisyonReddet"}, OdemeKararOku(r, op, o, u)
      PROVE  Siradan
  <2> DEFINE q == [Bos EXCEPT !.op = op, !.hedef = o]
  <2>1. Serbest(q)
    BY DEF Serbest, Kayit, Bos
  <2>2. Oku(r, q)
    BY <1>3 DEF OdemeKararOku
  <2> HIDE DEF q
  <2>3. req' = [req EXCEPT ![r] = q] /\ UNCHANGED <<ilan, teklif, degerler, puan>>
    BY <2>2 DEF Oku, hesapVars
  <2> QED BY <2>1, <2>3, SerbestKalir
<1>4. ASSUME NEW s \in Sozlesmeler, SozlesmeOnayla(s[1], s[2]) PROVE Siradan
  BY <1>1, <1>4 DEF SozlesmeOnayla
<1>5. ASSUME NEW b \in DOMAIN belge, NEW y \in Yuklenenler, BelgeKaydet(b, y[1], y[2])
      PROVE  Siradan
  BY <1>1, <1>5 DEF BelgeKaydet
<1>6. ASSUME NEW b \in DOMAIN belge, BelgeOnayla(b) \/ BelgeReddet(b) PROVE Siradan
  BY <1>1, <1>6 DEF BelgeOnayla, BelgeReddet, BelgeKarar
<1> QED BY <1>2, <1>3, <1>4, <1>5, <1>6 DEF HesapNext

LEMMA KomisyonKarar ==
  ASSUME IInv, NEW r \in Requests, KomisyonOnayla(r) \/ KomisyonReddet(r)
  PROVE  Siradan
<1>1. req' = [req EXCEPT ![r] = Bos] /\ UNCHANGED <<ilan, teklif, degerler, puan>>
  BY DEF KomisyonOnayla, KomisyonReddet, OdemeKararYaz, Bitir
<1>2. Serbest(Bos)
  BY DEF Serbest, Kayit, Bos
<1> QED BY <1>1, <1>2, SerbestKalir

LEMMA GunGecerAdim ==
  ASSUME IInv, NEW i \in Ilanlar, GunGecer(i)
  PROVE  Siradan
<1> DEFINE b == [ilan[i] EXCEPT !.gecmis = TRUE]
<1>1. ilan[i].tur \in {"yuk", "arac"} /\ Tutarli(ilan, teklif)
  BY DEF IInv, GunGecer
<1>2. IlanGider(ilan[i], b)
  BY <1>1, IsaretGider
<1>3. ilan' = [ilan EXCEPT ![i] = b] /\ UNCHANGED <<teklif, degerler, puan, req>>
  BY DEF GunGecer, hesapVars
<1> HIDE DEF b
<1> QED BY <1>2, <1>3, YalnizIlan, TabloSiradan

LEMMA KapatirGecer ==
  ASSUME IInv, NEW tur \in {"yuk", "arac"}, IlanlariKapat(tur)
  PROVE  TablolarGecer /\ \A t \in Teklifler : teklif'[t].el = teklif[t].el
<1>1. Tutarli(ilan, teklif) /\ teklif' = teklif
  BY DEF IInv, IlanlariKapat
<1>2. /\ ilan' = [i \in Ilanlar |-> ilan'[i]]
      /\ \A i \in Ilanlar : \/ ilan'[i] = ilan[i]
                            \/ /\ ilan[i].tur = tur
                               /\ ilan'[i] = [ilan[i] EXCEPT !.durum = KapaliDurum(tur)]
  BY DEF IlanlariKapat
<1>3. KapaliDurum(tur) \in IlanDurum(tur) /\ KapaliDurum(tur) # "MUSAIT"
  BY Durumlar DEF KapaliDurum, YukIlaniDurum, AracIlaniDurum
<1>4. \A i \in Ilanlar : IlanGider(ilan[i], ilan[i])
  BY <1>1 DEF IlanGider, Tutarli, IlanTutarli
<1>5. ASSUME NEW i \in Ilanlar PROVE IlanGider(ilan[i], ilan'[i])
  <2>1. CASE ilan'[i] = ilan[i]
    BY <1>4, <2>1
  <2>2. CASE ilan[i].tur = tur /\ ilan'[i] = [ilan[i] EXCEPT !.durum = KapaliDurum(tur)]
    BY <1>1, <1>3, <2>2, DurumGider
  <2> QED BY <1>2, <2>1, <2>2
<1>6. /\ teklif = [t \in Teklifler |-> teklif[t]]
      /\ \A t \in Teklifler : TeklifGider(ilan[teklif[t].ilan].tur, teklif[t], teklif[t])
  BY <1>1 DEF TeklifGider, Tutarli
<1>7. Gecer(ilan, teklif, ilan', teklif)
  BY <1>1, <1>2, <1>5, <1>6, GiderGecer
<1> QED BY <1>1, <1>7 DEF TablolarGecer

LEMMA ReddederGecer ==
  ASSUME IInv, NEW tur \in {"yuk", "arac"}, TeklifleriReddet(tur)
  PROVE  TablolarGecer /\ \A t \in Teklifler : teklif'[t].el = teklif[t].el
<1>1. Tutarli(ilan, teklif) /\ ilan' = ilan
  BY DEF IInv, TeklifleriReddet
<1>2. /\ teklif' = [t \in Teklifler |-> teklif'[t]]
      /\ \A t \in Teklifler : \/ teklif'[t] = teklif[t]
                              \/ /\ teklif[t].durum = "BEKLIYOR"
                                 /\ teklif'[t] = [teklif[t] EXCEPT !.durum = "RED"]
  BY DEF TeklifleriReddet, Bekleyen
<1>3. ASSUME NEW t \in Teklifler
      PROVE  /\ TeklifGider(ilan[teklif[t].ilan].tur, teklif[t], teklif'[t])
             /\ teklif'[t].el = teklif[t].el
  <2>1. teklif[t] \in TeklifRow \cup {YokTeklif}
    BY <1>1 DEF Tutarli
  <2>2. CASE teklif'[t] = teklif[t]
    BY <2>1, <2>2 DEF TeklifGider
  <2>3. CASE teklif[t].durum = "BEKLIYOR" /\ teklif'[t] = [teklif[t] EXCEPT !.durum = "RED"]
    <3>1. teklif[t] \in TeklifRow
      BY <2>1, <2>3 DEF YokTeklif
    <3>2. /\ teklif'[t] \in TeklifRow /\ teklif'[t].ilan = teklif[t].ilan
          /\ teklif'[t].veren = teklif[t].veren /\ teklif'[t].durum = "RED"
          /\ teklif'[t].el = teklif[t].el
      BY <2>3, <3>1 DEF TeklifRow, TeklifDurum
    <3>3. teklif'[t] # YokTeklif /\ teklif[t] # YokTeklif
      BY <2>3, <3>2, LoadAssumption DEF YokTeklif
    <3> QED BY <2>3, <3>2, <3>3 DEF TeklifGider
  <2> QED BY <1>2, <2>2, <2>3
<1>4. /\ ilan = [i \in Ilanlar |-> ilan[i]]
      /\ \A i \in Ilanlar : IlanGider(ilan[i], ilan[i])
  BY <1>1 DEF IlanGider, Tutarli, IlanTutarli
<1>5. Gecer(ilan, teklif, ilan, teklif')
  BY <1>1, <1>2, <1>3, <1>4, GiderGecer
<1> QED BY <1>1, <1>3, <1>5 DEF TablolarGecer

LEMMA TemizlikAdim ==
  ASSUME IInv, NEW r \in Requests, NEW k \in 1..4, OtomatikTemizlik(r, k)
  PROVE  Siradan
<1> DEFINE q == IF k = 4 THEN Bos ELSE [Bos EXCEPT !.op = "temizlik", !.sayi = k + 1]
<1>1. /\ req' = [req EXCEPT ![r] = q] /\ UNCHANGED <<degerler, puan>>
      /\ \E tur \in {"yuk", "arac"} : IlanlariKapat(tur) \/ TeklifleriReddet(tur)
  BY DEF OtomatikTemizlik, hesapVars
<1>2. Serbest(q)
  BY DEF Serbest, Kayit, Bos
<1> HIDE DEF q
<1>3. TablolarGecer /\ \A t \in Teklifler : teklif'[t].el = teklif[t].el
  BY <1>1, KapatirGecer, ReddederGecer
<1> QED BY <1>1, <1>2, <1>3, SerbestSiradan

-----------------------------------------------------------------------------
(* The invariant and the properties *)

LEMMA YazAdim ==
  ASSUME IInv, NEW r \in Requests, Yaz(r)
  PROVE  Adim
<1>1. CASE YukYaz(r)
  BY <1>1, YukYazar
<1>2. CASE AracYaz(r)
  BY <1>2, AracYazar
<1>3. CASE EvYaz(r)
  BY <1>3, EvYazar, SiradanYeter
<1>4. CASE KomisyonOnayla(r) \/ KomisyonReddet(r)
  BY <1>4, KomisyonKarar, SiradanYeter
<1>5. CASE DegerlendirYaz(r)
  BY <1>5, DegerlendirYazAdim DEF Adim
<1>6. CASE DegerlendirTekrar(r)
  BY <1>6, CakismaAdim, SiradanYeter DEF DegerlendirTekrar
<1> QED BY <1>1, <1>2, <1>3, <1>4, <1>5, <1>6 DEF Yaz

LEMMA NextAdim ==
  ASSUME IInv, [Next]_vars
  PROVE  Adim
<1>1. CASE YukNext
  BY <1>1, YukOkur
<1>2. CASE AracNext
  BY <1>2, AracOkur
<1>3. CASE EvNext
  BY <1>3, EvOkur
<1>4. CASE HesapNext
  BY <1>4, HesapAdim, SiradanYeter
<1>5. ASSUME NEW r \in Requests, Yaz(r) PROVE Adim
  BY <1>5, YazAdim
<1>6. ASSUME NEW r \in Requests, Durur(r) PROVE Adim
  BY <1>6, CakismaAdim, SiradanYeter DEF Durur
<1>7. ASSUME NEW r \in Requests, NEW i \in Ilanlar, NEW u \in Users, DegerlendirOku(r, i, u)
      PROVE  Adim
  BY <1>7, DegerlendirOkuAdim DEF Adim
<1>8. ASSUME NEW i \in Ilanlar, GunGecer(i) PROVE Adim
  BY <1>8, GunGecerAdim, SiradanYeter
<1>9. ASSUME NEW r \in Requests, NEW k \in 1..4, OtomatikTemizlik(r, k) PROVE Adim
  BY <1>9, TemizlikAdim, SiradanYeter
<1>10. CASE UNCHANGED vars
  <2>1. UNCHANGED <<ilan, teklif, degerler, puan, req>>
    BY <1>10 DEF vars, hesapVars
  <2>2. TablolarGecer
    BY <2>1, AyniGecer DEF IInv, TablolarGecer
  <2> QED BY <2>1, <2>2, TabloSiradan, SiradanYeter
<1> QED BY <1>1, <1>2, <1>3, <1>4, <1>5, <1>6, <1>7, <1>8, <1>9, <1>10 DEF Next

LEMMA BosSayilir ==
  ASSUME NEW t
  PROVE  Cardinality(Yolda([r \in Requests |-> Bos], t)) = 0
<1>1. Yolda([r \in Requests |-> Bos], t) = {}
  BY BosBilir DEF Yolda
<1> QED BY <1>1, FS_EmptySet

LEMMA InitIInv == Init => IInv
<1> SUFFICES ASSUME Init PROVE IInv
  OBVIOUS
<1>1. Tutarli(ilan, teklif)
  BY OpeningsAssumption DEF Init
<1>2. Istekler(ilan, teklif, req)
  BY BosBilir DEF Init, Istekler
<1>3. Pazarlik(teklif, req)
  <2>1. \A t \in Teklifler : teklif[t].el <= PAZARLIK_ELI + Cardinality(Requests) - 1
    BY OpeningsAssumption DEF Init
  <2>2. \A t \in Teklifler : teklif[t].el \in Nat
    BY <1>1 DEF Tutarli, TeklifRow, YokTeklif
  <2>3. \A t \in Teklifler : Cardinality(Yolda(req, t)) = 0
    BY BosSayilir DEF Init
  <2> QED BY <2>1, <2>2, <2>3 DEF Pazarlik
<1>4. degerler = {} /\ IsFiniteSet(degerler)
  BY FS_EmptySet DEF Init
<1>5. Degerler(ilan, degerler)
  BY <1>4 DEF Degerler
<1>6. Sayilir(ilan, teklif, degerler, puan, req)
  <2>1. ASSUME NEW u, NEW d PROVE Cardinality(Oylar(ilan, teklif, degerler, u, d)) = 0
    <3>1. Oylar(ilan, teklif, degerler, u, d) = {}
      BY <1>4 DEF Oylar
    <3> QED BY <3>1, FS_EmptySet
  <2>2. puan = [u \in Users |-> [d \in Defterler |-> [ort |-> 0, sayi |-> 0]]]
    BY DEF Init, Defterler
  <2>3. \A r \in Requests : req[r].op = "bos"
    BY BosBilir DEF Init
  <2> QED BY <2>1, <2>2, <2>3 DEF Sayilir
<1> QED BY <1>1, <1>2, <1>3, <1>5, <1>6 DEF IInv

LEMMA Invariant == Spec => []IInv
<1>1. IInv /\ [Next]_vars => IInv'
  BY NextAdim DEF Adim
<1> QED BY InitIInv, <1>1, PTL DEF Spec

\* Types, as the runs check them: whatever handlers interleave, a row keeps a status of its
\* board and no average of ratings leaves 0 to 5 (degerlendir rounds it anew each time).
THEOREM TypeCorrect == Spec => []TypeOK
<1>1. IInv => TypeOK
  <2> SUFFICES ASSUME IInv PROVE TypeOK
    OBVIOUS
  <2>1. ASSUME NEW i \in Ilanlar
        PROVE  /\ ilan[i].durum \in {"YOK"} \cup IlanDurum(ilan[i].tur)
               /\ ilan[i].sahip \in Users \cup {NoUser}
               /\ ilan[i].secili \in Teklifler \cup {NoTeklif}
    BY DEF IInv, Tutarli, IlanTutarli, IlanRow, YokIlan
  <2>2. ASSUME NEW t \in Teklifler
        PROVE  /\ teklif[t].durum \in {"YOK"} \cup TeklifDurum \cup EvTeklifDurum
               /\ teklif[t].el \in Nat /\ teklif[t].fiyat \in Nat /\ teklif[t].kesin \in Nat
    BY DEF IInv, Tutarli, TeklifRow, YokTeklif
  <2>3. ASSUME NEW u \in Users, NEW d \in {"genel", "ev"} PROVE puan[u][d].ort \in 0..500
    <3>1. puan \in [Users -> [Defterler -> [ort : 0..500, sayi : Nat]]]
      BY DEF IInv, Sayilir
    <3>2. puan[u] \in [Defterler -> [ort : 0..500, sayi : Nat]] /\ d \in Defterler
      BY <3>1 DEF Defterler
    <3> QED BY <3>2
  <2> QED BY <2>1, <2>2, <2>3 DEF TypeOK
<1> QED BY Invariant, <1>1, PTL

\* However invitations, surveys, acceptances and late offers interleave, a vehicle is matched
\* with one offer at most and a house move is locked to exactly the offer it names
\* (aracTeklifKabul, kesfeDavet, kesinFiyatKabul, onTeklifVer).
THEOREM OneWinner == Spec => []TekKazanan
<1>1. IInv => TekKazanan
  <2> SUFFICES ASSUME IInv, NEW i \in Ilanlar
               PROVE  /\ ilan[i].tur \in {"arac", "ev"} => Kabuller(i) \subseteq {ilan[i].secili}
                      /\ ilan[i].durum = "KILITLENDI" => Kabuller(i) = {ilan[i].secili}
    BY DEF TekKazanan
  <2>1. Tutarli(ilan, teklif)
    BY DEF IInv
  <2>2. ASSUME ilan[i].tur \in {"arac", "ev"}, NEW t \in Kabuller(i) PROVE t = ilan[i].secili
    <3>1. t \in Teklifler /\ teklif[t].ilan = i /\ teklif[t].durum = "KABUL"
      BY DEF Kabuller, TekliflerOf
    <3>2. teklif[t] # YokTeklif
      BY <3>1 DEF YokTeklif
    <3> QED BY <2>1, <2>2, <3>1, <3>2 DEF Tutarli, TeklifTutarli
  <2>3. ASSUME ilan[i].durum = "KILITLENDI"
        PROVE  ilan[i].tur = "ev" /\ ilan[i].secili \in Kabuller(i)
    <3>1. ilan[i] # YokIlan
      BY <2>3 DEF YokIlan
    <3>2. ilan[i].durum \in IlanDurum(ilan[i].tur) /\ ilan[i].tur \in {"yuk", "arac", "ev"}
      BY <2>1, <3>1 DEF Tutarli, IlanTutarli, IlanRow
    <3>3. ilan[i].tur = "ev"
      BY <2>3, <3>2, Durumlar DEF YukIlaniDurum, AracIlaniDurum
    <3>4. ilan[i].secili \in Teklifler /\ teklif[ilan[i].secili].ilan = i
          /\ teklif[ilan[i].secili].durum = "KABUL"
      BY <2>1, <2>3, <3>3, KilitliTeklif DEF Kilitli
    <3> QED BY <3>3, <3>4 DEF Kabuller, TekliflerOf
  <2> QED BY <2>2, <2>3
<1> QED BY Invariant, <1>1, PTL

\* From the lock on no later survey, offer, bid, clean-up or retry changes the offer a house
\* move is locked to: the price its commission is taken from is the price agreed on.
THEOREM LockIsFinal == Spec => EvKilitKesin
<1>1. IInv /\ [Next]_vars =>
        [\A i \in Ilanlar :
           ilan[i].tur = "ev" /\ ilan[i].durum \in {"KILITLENDI", "TAMAMLANDI"} =>
             /\ ilan'[i].secili = ilan[i].secili
             /\ teklif'[ilan[i].secili] = teklif[ilan[i].secili]]_vars
  <2> SUFFICES ASSUME IInv, [Next]_vars
               PROVE  \A i \in Ilanlar :
                        ilan[i].tur = "ev" /\ ilan[i].durum \in {"KILITLENDI", "TAMAMLANDI"} =>
                          /\ ilan'[i].secili = ilan[i].secili
                          /\ teklif'[ilan[i].secili] = teklif[ilan[i].secili]
    OBVIOUS
  <2>1. Sabit(ilan, teklif, ilan', teklif')
    BY NextAdim DEF Adim, TablolarGecer, Gecer
  <2> QED BY <2>1 DEF Sabit, Kilitli
<1> QED BY Invariant, <1>1, PTL DEF Spec, EvKilitKesin

\* Bargaining ends: an offer passes the limit only by the counter-offers already on their way
\* when it was reached (yukKarsiTeklif, aracKarsiTeklif check the count on a row read earlier).
THEOREM BargainingEnds == Spec => []PazarlikSinirli
<1>1. IInv => PazarlikSinirli
  <2> SUFFICES ASSUME IInv, NEW t \in Teklifler
               PROVE  teklif[t].el <= PAZARLIK_ELI + Cardinality(Requests) - 1
    BY DEF PazarlikSinirli
  <2>1. teklif[t].el \in Nat
    BY DEF IInv, Tutarli, TeklifRow, YokTeklif
  <2>2. teklif[t].el + Cardinality(Yolda(req, t)) <= PAZARLIK_ELI + Cardinality(Requests) - 1
    BY DEF IInv, Pazarlik
  <2> QED BY <2>1, <2>2, YoldaSonlu, LoadAssumption
<1> QED BY Invariant, <1>1, PTL

\* Ratings that lose one another's share of the average may count too little, but nobody's
\* count ever exceeds the jobs he was rated for (degerlendir).
THEOREM RatingsCountOnce == Spec => []PuanTek
<1>1. IInv => PuanTek
  <2> SUFFICES ASSUME IInv, NEW u \in Users
               PROVE  puan[u]["genel"].sayi + puan[u]["ev"].sayi
                        <= Cardinality({d \in degerler : d[1] # u /\ u \in
                             {ilan[d[2]].sahip} \cup {teklif[t].veren : t \in TekliflerOf(d[2])}})
    BY DEF PuanTek
  <2> DEFINE G == Oylar(ilan, teklif, degerler, u, "genel")
             E == Oylar(ilan, teklif, degerler, u, "ev")
             D == {d \in degerler : d[1] # u /\ u \in
                    {ilan[d[2]].sahip} \cup {teklif[t].veren : t \in TekliflerOf(d[2])}}
  <2>1. IsFiniteSet(degerler) /\ G \in SUBSET degerler /\ E \in SUBSET degerler
        /\ D \in SUBSET degerler
    BY DEF IInv, Degerler, Oylar
  <2>2. G \cap E = {}
    BY DEF Oylar
  <2>3. G \cup E \in SUBSET D
    BY DEF Oylar, IsinTarafi, TekliflerOf
  <2>4. /\ puan[u]["genel"].sayi \in Nat /\ puan[u]["ev"].sayi \in Nat
        /\ puan[u]["genel"].sayi <= Cardinality(G) /\ puan[u]["ev"].sayi <= Cardinality(E)
    BY DEF IInv, Sayilir, Defterler
  <2> HIDE DEF G, E, D
  <2>5. IsFiniteSet(G) /\ IsFiniteSet(E) /\ IsFiniteSet(D)
    BY <2>1, FS_Subset
  <2>6. Cardinality(G \cup E) = Cardinality(G) + Cardinality(E) - Cardinality(G \cap E)
    BY <2>5, FS_Union
  <2>7. Cardinality(G \cap E) = 0
    BY <2>2, FS_EmptySet
  <2>8. Cardinality(G \cup E) <= Cardinality(D)
    BY <2>3, <2>5, FS_Subset
  <2>9. Cardinality(G) \in Nat /\ Cardinality(E) \in Nat /\ Cardinality(D) \in Nat
        /\ Cardinality(G \cup E) \in Nat
    BY <2>3, <2>5, FS_Subset, FS_CardinalityType
  <2>10. puan[u]["genel"].sayi + puan[u]["ev"].sayi <= Cardinality(D)
    BY <2>4, <2>6, <2>7, <2>8, <2>9
  <2> QED BY <2>10 DEF D
<1> QED BY Invariant, <1>1, PTL
=============================================================================
