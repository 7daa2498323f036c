-------------------------------- MODULE Onay --------------------------------
(***************************************************************************)
(* Delivery zones of a store, and requests to change them (approval/ and   *)
(* market/).  The list of zones is replaced as a whole and carries a       *)
(* revision; the panel writes it directly, a change request is submitted,  *)
(* superseded by the next one, and approved or rejected by somebody who    *)
(* has nothing to do with the store.                                       *)
(*                                                                         *)
(* A zone is a member of Bolgeler; the platform serves those of kapsam.    *)
(* Transactions run at READ COMMITTED: a statement sees what is committed  *)
(* when it starts, and everything written appears at the commit.           *)
(***************************************************************************)
EXTENDS Kadro

CONSTANTS
  Listeler,         \* lists of zones (sets) somebody may ask for
  TALEP_SINIRI,     \* bound on the change requests
  REV_SINIRI        \* bound on revisions

ASSUME OnayAssumption == TALEP_SINIRI \in Nat /\ REV_SINIRI \in Nat

VARIABLES
  kapsam,    \* platform_hizmet_bolgeleri in use
  bolge,     \* stores.deliveryZoneRevision and magaza_teslimat_bolgeleri, by store
  talep      \* change_requests, oldest first

onayVars == <<kapsam, bolge, talep>>

ChangeRequestStatus == {"PENDING", "APPROVED", "REJECTED", "SUPERSEDED"}

\* teslimatBolgesiUygun: a store without zones delivers everywhere.
TeslimatBolgesiUygun(s, b) == bolge[s].liste = {} \/ b \in bolge[s].liste

Bekleyenler(s) == {k \in DOMAIN talep : talep[k].s = s /\ talep[k].durum = "PENDING"}

-----------------------------------------------------------------------------
(* teslimatBolgeleriYazTx: every zone must still be served, and the revision must be the *)
(* one expected; then the list is replaced and the revision goes up.                      *)

BolgelerDogru(liste) == liste \subseteq kapsam

\* Mistake: the zones are replaced whatever revision they have by now.
RevUygun_Any(s, beklenen) == TRUE

RevUygun(s, beklenen) == bolge[s].rev = beklenen

YazilirMi(s, liste, beklenen) == BolgelerDogru(liste) /\ RevUygun(s, beklenen)

BolgeYaz(s, liste) == bolge' = [bolge EXCEPT ![s] = [rev |-> @.rev + 1, liste |-> liste]]

\* The panel: the revision read and the conditional write are one transaction, but two
\* statements.
BolgeUclari == [teslimatBolgeleriGuncelle |-> "STORE_WRITE"]

BolgeGuncelleOku(r, u, s, liste) ==
  /\ Cagrilir("bolgeGuncelle")
  /\ PanelIzni(s, u, BolgeUclari.teslimatBolgeleriGuncelle)
  /\ Basla(r, [op |-> "bolgeGuncelle", s |-> s, liste |-> liste, rev |-> bolge[s].rev])
  /\ UNCHANGED <<kadroVars, onayVars>>

BolgeGuncelle(r) ==
  LET q == req[r]
  IN /\ Sira(r, "bolgeGuncelle")
     /\ bolge[q.s].rev < REV_SINIRI
     /\ IF YazilirMi(q.s, q.liste, q.rev) THEN BolgeYaz(q.s, q.liste) ELSE UNCHANGED bolge
     /\ Bitir(r)
     /\ UNCHANGED <<kadroVars, kapsam, talep>>

\* The platform opens or closes a zone.  The table is kept by scripts and migrations.
KapsamDegisir(b) ==
  /\ Cagrilir("kapsam")
  /\ kapsam' = IF b \in kapsam THEN kapsam \ {b} ELSE kapsam \cup {b}
  /\ UNCHANGED <<req, kadroVars, bolge, talep>>

-----------------------------------------------------------------------------
(* submit: the adapter checks the proposal and notes the revision; a transaction then     *)
(* looks for a waiting request, supersedes it and writes the new one with the state it is  *)
(* based on.                                                                               *)

SubmitDogrula(r, u, s, liste) ==
  /\ Cagrilir("submit")
  /\ Oturumlu(u) /\ Var(s)
  /\ BolgelerDogru(liste)
  /\ Basla(r, [op |-> "submitBul", by |-> u, s |-> s, liste |-> liste,
               beklenen |-> bolge[s].rev])
  /\ UNCHANGED <<kadroVars, onayVars>>

\* onceki: the waiting request, or 0.
SubmitBul(r) ==
  LET q == req[r]
  IN /\ Sira(r, "submitBul")
     /\ Gec(r, [op |-> "submitYaz", by |-> q.by, s |-> q.s, liste |-> q.liste,
                beklenen |-> q.beklenen,
                onceki |-> IF Bekleyenler(q.s) = {} THEN 0 ELSE Max(Bekleyenler(q.s))])
     /\ UNCHANGED <<kadroVars, onayVars>>

\* SUPERSEDED is written by id; then a second waiting request for the store would violate
\* the unique index, and all is rolled back.
SubmitYaz(r) ==
  LET q == req[r]
      yeni == [s |-> q.s, by |-> q.by, durum |-> "PENDING", liste |-> q.liste,
               beklenen |-> q.beklenen, taban |-> bolge[q.s]]
      eskisi == IF q.onceki = 0 THEN talep ELSE [talep EXCEPT ![q.onceki].durum = "SUPERSEDED"]
  IN /\ Sira(r, "submitYaz")
     /\ Len(talep) < TALEP_SINIRI
     /\ talep' = IF Bekleyenler(q.s) \subseteq {q.onceki} THEN Append(eskisi, yeni) ELSE talep
     /\ Bitir(r)
     /\ UNCHANGED <<kadroVars, kapsam, bolge>>

-----------------------------------------------------------------------------
(* approve and reject *)

\* incelemeBagimsizligiDogrula.
Bagimsiz(k, u) ==
  /\ talep[k].by # u
  /\ magaza[talep[k].s].sahip # u
  /\ uyelik[<<talep[k].s, u>>] # "AKTIF"

\* The state is still the one the request is based on.
ApproveOku(r, u, k) ==
  /\ Cagrilir("approve")
  /\ Oturumlu(u)
  /\ talep[k].durum = "PENDING"
  /\ Bagimsiz(k, u)
  /\ talep[k].taban = bolge[talep[k].s]
  /\ Basla(r, [op |-> "approve", k |-> k])
  /\ UNCHANGED <<kadroVars, onayVars>>

\* The conditional claim of the request.
Sahiplenir(k) == talep[k].durum = "PENDING"

\* Claim and zones are one transaction: if the zones cannot be written the claim is undone.
Approve(r) ==
  LET k == req[r].k
      s == talep[k].s
  IN /\ Sira(r, "approve")
     /\ bolge[s].rev < REV_SINIRI
     /\ IF Sahiplenir(k) /\ YazilirMi(s, talep[k].liste, talep[k].beklenen)
          THEN talep' = [talep EXCEPT ![k].durum = "APPROVED"] /\ BolgeYaz(s, talep[k].liste)
          ELSE UNCHANGED <<talep, bolge>>
     /\ Bitir(r)
     /\ UNCHANGED <<kadroVars, kapsam>>

RejectOku(r, u, k) ==
  /\ Cagrilir("reject")
  /\ Oturumlu(u)
  /\ talep[k].durum = "PENDING"
  /\ Bagimsiz(k, u)
  /\ Basla(r, [op |-> "reject", k |-> k])
  /\ UNCHANGED <<kadroVars, onayVars>>

Reject(r) ==
  LET k == req[r].k
  IN /\ Sira(r, "reject")
     /\ talep' = IF Sahiplenir(k) THEN [talep EXCEPT ![k].durum = "REJECTED"] ELSE talep
     /\ Bitir(r)
     /\ UNCHANGED <<kadroVars, kapsam, bolge>>

-----------------------------------------------------------------------------

OnayNext ==
  \/ \E r \in Requests, u \in Users, s \in DOMAIN bolge, liste \in Listeler :
       BolgeGuncelleOku(r, u, s, liste) \/ SubmitDogrula(r, u, s, liste)
  \/ \E r \in Requests :
       BolgeGuncelle(r) \/ SubmitBul(r) \/ SubmitYaz(r) \/ Approve(r) \/ Reject(r)
  \/ \E r \in Requests, u \in Users, k \in DOMAIN talep : ApproveOku(r, u, k) \/ RejectOku(r, u, k)
  \/ \E b \in UNION Listeler : KapsamDegisir(b)
=============================================================================
