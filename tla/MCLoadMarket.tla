----------------------------- MODULE MCLoadMarket -----------------------------
(* Instances of LoadMarket: a firm, two carriers, a manager. *)
EXTENDS LoadMarket, TLC

CONSTANTS f, c1, c2, adm, i1, i2, t0, t1, t2, o1, b1

MCFirmalar == {f}
MCTasiyicilar == {c1, c2}
MCSozlesmeler == {<<c1, "TASIYICI">>}
MCBildirimler == {<<c1, 1>>}
MCYuklenenler == {<<c1, "EHLIYET">>}
None == [x \in {} |-> x]

YukOnay == {<<f, "YUK_VEREN">>, <<c1, "TASIYICI">>, <<c2, "TASIYICI">>}

Is(tur, u, durum, t) == [YokIlan EXCEPT !.tur = tur, !.sahip = u, !.durum = durum, !.secili = t]

Teklif(i, u, durum, taraf) ==
  [YokTeklif EXCEPT !.ilan = i, !.veren = u, !.durum = durum, !.taraf = taraf, !.fiyat = 20]

\* A load of the firm's that was cancelled, an offer on it refused.
Eski == Is("yuk", f, "IPTAL", NoTeklif)
EskiTeklif == Teklif(i2, c1, "RED", "FIRMA")

\* A listing may be made on any board, and one offer; the carriers have not accepted their
\* contract, and the first one may.
Pazar ==
  [ilan |-> (i1 :> YokIlan) @@ (i2 :> Eski),
   teklif |-> (t0 :> EskiTeklif) @@ (t1 :> YokTeklif) @@ (t2 :> EskiTeklif),
   odeme |-> None, belge |-> None, onay |-> {<<f, "YUK_VEREN">>}]

\* A vehicle two customers have bid for; both were countered.
Arac ==
  [ilan |-> (i1 :> Is("arac", c1, "MUSAIT", NoTeklif)) @@ (i2 :> Eski),
   teklif |-> (t0 :> EskiTeklif) @@ (t1 :> [Teklif(i1, f, "BEKLIYOR", "FIRMA") EXCEPT !.el = 1])
              @@ (t2 :> [Teklif(i1, c2, "BEKLIYOR", "FIRMA") EXCEPT !.el = 1]),
   odeme |-> None, belge |-> None, onay |-> YukOnay \cup {<<c2, "YUK_VEREN">>}]

\* A house move that was paid for, one offer made.
Ev ==
  [ilan |-> (i1 :> Is("ev", f, "ACIK", NoTeklif)) @@ (i2 :> Eski),
   teklif |-> (t0 :> EskiTeklif) @@ (t1 :> Teklif(i1, c1, "ON_TEKLIF", "YOK"))
              @@ (t2 :> YokTeklif),
   odeme |-> None, belge |-> (b1 :> YokBelge), onay |-> YukOnay]

\* Two jobs of the first carrier are done, nothing is paid, nobody is rated.
Hesap ==
  [ilan |-> (i1 :> [Is("arac", c1, "TAMAMLANDI", t1) EXCEPT !.beyan = TRUE, !.onay = TRUE])
            @@ (i2 :> Is("yuk", f, "TAMAMLANDI", t0)),
   teklif |-> (t0 :> [Teklif(i2, c1, "KABUL", "FIRMA") EXCEPT !.kesin = 20])
              @@ (t1 :> [Teklif(i1, f, "KABUL", "TASIYICI") EXCEPT !.kesin = 20])
              @@ (t2 :> Teklif(i2, c2, "RED", "FIRMA")),
   odeme |-> (o1 :> YokOdeme), belge |-> None, onay |-> YukOnay]

\* A load just listed.
Yuk ==
  [ilan |-> (i1 :> Is("yuk", f, "ACIK", NoTeklif)) @@ (i2 :> Eski),
   teklif |-> (t0 :> EskiTeklif) @@ (t1 :> YokTeklif) @@ (t2 :> YokTeklif),
   odeme |-> None, belge |-> None, onay |-> YukOnay]

MCYukOpenings == {Yuk}

MCOpenings == {Pazar, Arac, Ev, Hesap}
=============================================================================
