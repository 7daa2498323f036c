-------------------------------- MODULE Kadro --------------------------------
(***************************************************************************)
(* A store's people (market/): its owner, its staff and their roles in the *)
(* store, and the question every handler of the panel asks first: may this *)
(* user work on this store.                                                *)
(*                                                                         *)
(* The header with the panel's business unit, which must be the store's,   *)
(* is taken to be right: a wrong one only adds a refusal.                  *)
(***************************************************************************)
EXTENDS Satici

VARIABLES uyelik     \* store_users: "YOK", "AKTIF" or "PASIF" for a <<store, user>>

ATANABILIR_MAGAZA_ROLLERI == {"STORE_KITCHEN", "STORE_CASHIER", "STORE_STOCK"}

\* Roles held in a store.
MAGAZA_ROLLERI == {"STORE_STAFF"} \cup ATANABILIR_MAGAZA_ROLLERI

kadroVars == <<kullaniciVars, saticilik, uyelik>>

-----------------------------------------------------------------------------
(* Access to a store *)

Var(s) == magaza[s] # YokMagaza

\* Some role in the store carries the permission, and it is one a store's role may carry.
\* Reading the panel asks for none: any role in the store will do.
MagazaIzniVar(s, u, izin) ==
  IF izin = "YOK"
    THEN RolleriOku(u, s) # {}
    ELSE /\ izin \in MAGAZA_ROLU_IZIN_BEYAZ_LISTESI
         /\ \E p \in RolleriOku(u, s) : <<p, izin>> \in IzinTablosu

\* erisebilir, as ownedOrAdmin and assertOwner ask it.
Erisebilir(s, u, izin) ==
  /\ Var(s)
  /\ PlatformYoneticisi(u) \/ magaza[s].sahip = u \/ MagazaIzniVar(s, u, izin)

\* Staff is the business of the owner and of administrators alone.
SahipVeyaYonetici(s, u) == Var(s) /\ (PlatformYoneticisi(u) \/ magaza[s].sahip = u)

\* Guard, then service: the same permission is asked twice, first of any role.
PanelIzni(s, u, izin) == Izinli(u, izin) /\ Erisebilir(s, u, izin)

-----------------------------------------------------------------------------
(* Staff *)

PersonelUclari ==
  [personelEkle |-> "STORE_WRITE", personelDurum |-> "STORE_WRITE",
   rolVer |-> "STORE_WRITE", rolAl |-> "STORE_WRITE"]

Kadrocu(u, s, ad) == Izinli(u, PersonelUclari[ad]) /\ SahipVeyaYonetici(s, u)

\* Membership and the role STORE_STAFF, in one transaction; a closed membership reopens.
PersonelAc(s, k) ==
  /\ uyelik' = [uyelik EXCEPT ![<<s, k>>] = "AKTIF"]
  /\ rol' = rol \cup {<<k, "STORE_STAFF", s>>}

PersonelEkle(u, s, k) ==
  /\ Cagrilir("personelEkle")
  /\ Kadrocu(u, s, "personelEkle")
  /\ kul[k] # "YOK" /\ magaza[s].sahip # k
  /\ PersonelAc(s, k)
  /\ UNCHANGED <<req, kul, girisVars, saticilik>>

\* Closing a membership takes every role the person has in the store.
PersonelDurum(u, s, k, aktif) ==
  /\ Cagrilir("personelDurum")
  /\ Kadrocu(u, s, "personelDurum")
  /\ uyelik[<<s, k>>] # "YOK"
  /\ IF aktif
       THEN PersonelAc(s, k)
       ELSE /\ uyelik' = [uyelik EXCEPT ![<<s, k>>] = "PASIF"]
            /\ rol' = {x \in rol : ~ (x[1] = k /\ x[3] = s)}
  /\ UNCHANGED <<req, kul, girisVars, saticilik>>

\* aktifUyelikDogrula reads the membership, rolVer writes the role some time later.
RolVerOku(r, u, s, k, p) ==
  /\ Cagrilir("rolVer")
  /\ Kadrocu(u, s, "rolVer")
  /\ uyelik[<<s, k>>] = "AKTIF"
  /\ <<k, p, s>> \notin rol
  /\ Basla(r, [op |-> "rolVer", u |-> k, s |-> s, p |-> p])
  /\ UNCHANGED kadroVars

RolVer(r) ==
  /\ Sira(r, "rolVer")
  /\ rol' = rol \cup {<<req[r].u, req[r].p, req[r].s>>}
  /\ Bitir(r)
  /\ UNCHANGED <<kul, girisVars, saticilik, uyelik>>

RolAl(u, s, k, p) ==
  /\ Cagrilir("rolAl")
  /\ Kadrocu(u, s, "rolAl")
  /\ rol' = rol \ {<<k, p, s>>}
  /\ UNCHANGED <<req, kul, girisVars, saticilik, uyelik>>

\* PATCH stores/:id; of its fields only isActive matters to anybody else.
MagazaUclari == [magazaGuncelle |-> "STORE_WRITE"]

MagazaGuncelle(u, s, aktif) ==
  /\ Cagrilir("magazaGuncelle")
  /\ PanelIzni(s, u, MagazaUclari.magazaGuncelle)
  /\ magaza' = [magaza EXCEPT ![s].aktif = aktif]
  /\ UNCHANGED <<req, kullaniciVars, saticiVars, uyelik>>

\* What the shop window shows, and what a customer may buy from.
Vitrinde(s) == Var(s) /\ magaza[s].aktif /\ satici[magaza[s].sahip].durum = "ACTIVE"

-----------------------------------------------------------------------------

PersonelNext ==
  \E u, k \in Users, s \in DOMAIN magaza :
    \/ PersonelEkle(u, s, k)
    \/ \E aktif \in BOOLEAN : PersonelDurum(u, s, k, aktif)
    \/ \E p \in ATANABILIR_MAGAZA_ROLLERI :
         RolAl(u, s, k, p) \/ \E r \in Requests : RolVerOku(r, u, s, k, p)

KadroNext ==
  \/ PersonelNext
  \/ \E r \in Requests : RolVer(r)
  \/ \E u \in Users, s \in DOMAIN magaza, aktif \in BOOLEAN : MagazaGuncelle(u, s, aktif)
=============================================================================
