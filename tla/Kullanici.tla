------------------------------ MODULE Kullanici ------------------------------
(***************************************************************************)
(* Users, their roles and their sessions (auth/, users/, common/rbac/):    *)
(* one-time codes sent by SMS, log-in step by step, refresh tokens, the    *)
(* hand-over of a session to another domain, sanctions by administrators,  *)
(* and the two gates every other handler stands behind: the account must   *)
(* not be closed and one of its roles must carry the permission.           *)
(*                                                                         *)
(* A user is his telephone number; a guest gets a number of his own.       *)
(***************************************************************************)
EXTENDS Istek, Naturals, Sequences, FiniteSets, FiniteSetsExt

CONSTANTS
  Users, Stores, NoStore,
  IzinTablosu,                 \* role_permissions: pairs <<role, permission>>
  SecilenRoller,               \* sets of roles a new user may ask for
  Yaptirimlar, RolAtamalari,   \* statuses and sets of roles administrators write
  MAX_ATTEMPTS,                \* wrong codes per OTP
  OTP_SINIRI, JETON_SINIRI, DEVIR_SINIRI    \* bounds on the rows of three tables

GIRIS_KAPALI == {"SUSPENDED", "BANNED", "DELETED"}

UserStatus == {"PENDING", "ACTIVE"} \cup GIRIS_KAPALI

Role ==
  {"CUSTOMER", "COURIER", "MERCHANT", "RESTAURANT", "MARKET_OPERATOR", "COFFEE_BRANCH",
   "DICLEFUL_OPERATOR", "DICLEFUL_DRIVER", "LOAD_CUSTOMER", "CARRIER", "ADMIN", "SUPER_ADMIN",
   "STORE_STAFF", "STORE_KITCHEN", "STORE_CASHIER", "STORE_STOCK"}

ASSUME KullaniciAssumption ==
  /\ IsFiniteSet(Requests) /\ Requests # {}
  /\ NoStore \notin Stores
  /\ MAX_ATTEMPTS \in Nat \ {0}
  /\ \A n \in {OTP_SINIRI, JETON_SINIRI, DEVIR_SINIRI} : n \in Nat
  /\ Yaptirimlar \subseteq UserStatus
  /\ {} \notin RolAtamalari /\ UNION RolAtamalari \subseteq Role

VARIABLES
  kul,      \* users.status, "YOK" while there is no such user
  rol,      \* user_roles: triples <<user, role, store or NoStore>>
  otp,      \* otp_requests, oldest first; .yas: in its cool-down, then open, then over
  jeton,    \* refresh_tokens; .kod: the transfer code the session came from, or 0
  devir     \* transfer_codes

girisVars == <<otp, jeton, devir>>
kullaniciVars == <<kul, rol, girisVars>>

-----------------------------------------------------------------------------
(* Roles and permissions *)

\* rolleriOku: platform roles, unless a store is named.
RolleriOku(u, kapsam) == {x[2] : x \in {y \in rol : y[1] = u /\ y[3] = kapsam}}

\* The final list of platform roles; roles held in a store are left alone.
RolleriYaz(u, roller) ==
  rol' = {x \in rol : ~ (x[1] = u /\ x[3] = NoStore)} \cup {<<u, p, NoStore>> : p \in roller}

PlatformYoneticisi(u) == RolleriOku(u, NoStore) \cap {"ADMIN", "SUPER_ADMIN"} # {}

\* JwtStrategy.validate: status and roles are read from the table at every request.
Oturumlu(u) == kul[u] \notin GIRIS_KAPALI \cup {"YOK"}

MAGAZA_ROLU_IZIN_BEYAZ_LISTESI == {"PRODUCT_WRITE", "CATEGORY_WRITE", "ORDER_MANAGE"}

\* PermissionsGuard: a role held in some store counts for the listed permissions only.
Izinli(u, izin) ==
  /\ Oturumlu(u)
  /\ \E x \in rol : /\ x[1] = u
                    /\ <<x[2], izin>> \in IzinTablosu
                    /\ x[3] = NoStore \/ izin \in MAGAZA_ROLU_IZIN_BEYAZ_LISTESI

-----------------------------------------------------------------------------
(* One-time codes *)

OtpSatirlari(u) == {k \in DOMAIN otp : otp[k].u = u}

\* findFirst of a row in its cool-down: none.
OtpIste(r, u) ==
  /\ Cagrilir("requestOtp")
  /\ \A k \in OtpSatirlari(u) : otp[k].yas # "yeni"
  /\ Basla(r, [op |-> "otpYaz", u |-> u])
  /\ UNCHANGED kullaniciVars

OtpYaz(r) ==
  /\ Sira(r, "otpYaz")
  /\ Len(otp) < OTP_SINIRI
  /\ otp' = Append(otp, [u |-> req[r].u, yas |-> "yeni", deneme |-> 0, tuketildi |-> FALSE])
  /\ Bitir(r)
  /\ UNCHANGED <<kul, rol, jeton, devir>>

\* Time passes, for older rows first.
OtpYaslan(k) ==
  /\ Cagrilir("otpYaslan")
  /\ otp[k].yas # "bitti"
  /\ \A j \in 1..(k - 1) : otp[j].yas = "bitti" \/ (otp[j].yas = "acik" /\ otp[k].yas = "yeni")
  /\ otp' = [otp EXCEPT ![k].yas = IF @ = "yeni" THEN "acik" ELSE "bitti"]
  /\ UNCHANGED <<req, kul, rol, jeton, devir>>

\* verify takes the newest row that may still be used; kod is the row whose code the
\* user types, 0 when it is the code of none.
OtpDogrula(r, u, kod) ==
  LET acik == {k \in OtpSatirlari(u) : otp[k].yas # "bitti" /\ ~ otp[k].tuketildi}
  IN /\ Cagrilir("verifyOtp")
     /\ acik # {}
     /\ otp[Max(acik)].deneme < MAX_ATTEMPTS
     /\ Basla(r, [op |-> IF kod = Max(acik) THEN "otpTuket" ELSE "otpYanlis",
                  u |-> u, satir |-> Max(acik)])
     /\ UNCHANGED kullaniciVars

OtpYanlis(r) ==
  /\ Sira(r, "otpYanlis")
  /\ otp' = [otp EXCEPT ![req[r].satir].deneme = @ + 1]
  /\ Bitir(r)
  /\ UNCHANGED <<kul, rol, jeton, devir>>

\* Consumed by id, whether or not somebody has consumed it in the meantime.
OtpTuket(r) ==
  /\ Sira(r, "otpTuket")
  /\ otp' = [otp EXCEPT ![req[r].satir].tuketildi = TRUE]
  /\ Gec(r, [op |-> "girisUpsert", u |-> req[r].u])
  /\ UNCHANGED <<kul, rol, jeton, devir>>

-----------------------------------------------------------------------------
(* Log-in, one statement at a time.  q.u logs in; q.kod is 0 or his transfer code. *)

GirisAdimi(op, u, kod) == [op |-> op, u |-> u, kod |-> kod]

\* girisKapisi: a closed account gets no further.
GirisKapisi(r, u, sonra) ==
  IF kul'[u] \in GIRIS_KAPALI THEN Bitir(r) ELSE Gec(r, GirisAdimi(sonra, u, 0))

\* user.upsert: an existing user keeps his status.
GirisUpsert(r) ==
  LET u == req[r].u
  IN /\ Sira(r, "girisUpsert")
     /\ kul' = IF kul[u] = "YOK" THEN [kul EXCEPT ![u] = "ACTIVE"] ELSE kul
     /\ GirisKapisi(r, u, IF kul'[u] = "PENDING" THEN "girisAktif" ELSE "girisRol")
     /\ UNCHANGED <<rol, girisVars>>

\* Mistake: the account is opened on the status that was read.
AktiflesirMi_AsRead(u) == TRUE

\* The conditional update of a PENDING user.
AktiflesirMi(u) == kul[u] = "PENDING"

GirisAktif(r) ==
  LET u == req[r].u
  IN /\ Sira(r, "girisAktif")
     /\ IF AktiflesirMi(u)
          THEN /\ kul' = [kul EXCEPT ![u] = "ACTIVE"]
               /\ Gec(r, GirisAdimi("girisRol", u, 0))
          ELSE /\ Gec(r, GirisAdimi("girisYeniden", u, 0))
               /\ UNCHANGED kul
     /\ UNCHANGED <<rol, girisVars>>

\* No row was updated: the status is read again and the gate applied again.
GirisYeniden(r) ==
  /\ Sira(r, "girisYeniden")
  /\ UNCHANGED kullaniciVars
  /\ GirisKapisi(r, req[r].u, "girisRol")

GirisRol(r) ==
  LET u == req[r].u
  IN /\ Sira(r, "girisRol")
     /\ Gec(r, GirisAdimi(IF RolleriOku(u, NoStore) = {} THEN "girisRolYaz" ELSE "girisJeton", u, 0))
     /\ UNCHANGED kullaniciVars

\* Only the two roles of the freight market may be asked for; else CUSTOMER.
GirisRolYaz(r, secilen) ==
  LET izinli == secilen \cap {"LOAD_CUSTOMER", "CARRIER"}
  IN /\ Sira(r, "girisRolYaz")
     /\ RolleriYaz(req[r].u, IF izinli = {} THEN {"CUSTOMER"} ELSE izinli)
     /\ Gec(r, GirisAdimi("girisJeton", req[r].u, 0))
     /\ UNCHANGED <<kul, girisVars>>

\* tokens.issueRefresh.
GirisJeton(r) ==
  /\ Sira(r, "girisJeton")
  /\ Len(jeton) < JETON_SINIRI
  /\ jeton' = Append(jeton, [u |-> req[r].u, durum |-> "gecerli", kod |-> req[r].kod])
  /\ Bitir(r)
  /\ UNCHANGED <<kul, rol, otp, devir>>

\* A guest is a new user without a role yet; he can ask for none.
GuestSession(r, u) ==
  /\ Cagrilir("guestSession")
  /\ kul[u] = "YOK"
  /\ kul' = [kul EXCEPT ![u] = "ACTIVE"]
  /\ Basla(r, GirisAdimi("misafirRol", u, 0))
  /\ UNCHANGED <<rol, girisVars>>

MisafirRol(r) ==
  /\ Sira(r, "misafirRol")
  /\ RolleriYaz(req[r].u, {"CUSTOMER"})
  /\ Gec(r, GirisAdimi("girisJeton", req[r].u, 0))
  /\ UNCHANGED <<kul, girisVars>>

-----------------------------------------------------------------------------
(* Refresh tokens and the hand-over to another domain *)

RefreshOku(r, j) ==
  /\ Cagrilir("refresh")
  /\ jeton[j].durum = "gecerli"
  /\ Basla(r, [op |-> "refreshIptal", u |-> jeton[j].u, satir |-> j])
  /\ UNCHANGED kullaniciVars

\* rotateRefresh revokes by id, then issues a new one.
RefreshIptal(r) ==
  /\ Sira(r, "refreshIptal")
  /\ jeton' = [jeton EXCEPT ![req[r].satir].durum = "iptal"]
  /\ Gec(r, GirisAdimi("girisJeton", req[r].u, 0))
  /\ UNCHANGED <<kul, rol, otp, devir>>

Logout(j) ==
  /\ Cagrilir("logout")
  /\ jeton[j].durum = "gecerli"
  /\ jeton' = [jeton EXCEPT ![j].durum = "iptal"]
  /\ UNCHANGED <<req, kul, rol, otp, devir>>

TransferKoduUret(u) ==
  /\ Cagrilir("transferKoduUret")
  /\ Oturumlu(u)
  /\ Len(devir) < DEVIR_SINIRI
  /\ devir' = Append(devir, [u |-> u, tuketildi |-> FALSE, bitti |-> FALSE])
  /\ UNCHANGED <<req, kul, rol, otp, jeton>>

\* Sixty seconds have passed.
DevirBiter(k) ==
  /\ Cagrilir("devirBiter")
  /\ ~ devir[k].bitti
  /\ devir' = [devir EXCEPT ![k].bitti = TRUE]
  /\ UNCHANGED <<req, kul, rol, otp, jeton>>

TransferKoduOku(r, k) ==
  /\ Cagrilir("transferKoduTuket")
  /\ ~ devir[k].tuketildi /\ ~ devir[k].bitti
  /\ Basla(r, [op |-> "devirTuket", satir |-> k])
  /\ UNCHANGED kullaniciVars

\* Mistake: the code is used up by id alone.
DevirKilidi_AsRead(k) == TRUE

\* The conditional update of consumeTransferCode.
DevirKilidi(k) == ~ devir[k].tuketildi

DevirTuket(r) ==
  LET k == req[r].satir
  IN /\ Sira(r, "devirTuket")
     /\ IF DevirKilidi(k)
          THEN /\ devir' = [devir EXCEPT ![k].tuketildi = TRUE]
               /\ Gec(r, [op |-> "devirSepet", satir |-> k])
          ELSE Bitir(r) /\ UNCHANGED devir
     /\ UNCHANGED <<kul, rol, otp, jeton>>

\* The target's own session has a full cart, and keeps it; or there is none.
DevirSepet(r, cakisma) ==
  LET k == req[r].satir
  IN /\ Sira(r, "devirSepet")
     /\ IF cakisma THEN Bitir(r) ELSE Gec(r, GirisAdimi("girisJeton", devir[k].u, k))
     /\ UNCHANGED kullaniciVars

-----------------------------------------------------------------------------
(* Administrators *)

SetStatus(a, u, durum) ==
  /\ Cagrilir("setStatus")
  /\ Izinli(a, "USER_SUSPEND")
  /\ kul[u] # "YOK"
  /\ kul' = [kul EXCEPT ![u] = durum]
  /\ UNCHANGED <<req, rol, girisVars>>

AssignRoles(a, u, roller) ==
  /\ Cagrilir("assignRoles")
  /\ Izinli(a, "USER_ROLE_ASSIGN")
  /\ kul[u] # "YOK"
  /\ RolleriYaz(u, roller)
  /\ UNCHANGED <<req, kul, girisVars>>

-----------------------------------------------------------------------------

OtpNext ==
  \/ \E r \in Requests, u \in Users : OtpIste(r, u) \/ GuestSession(r, u)
  \/ \E r \in Requests, u \in Users, kod \in 0..Len(otp) : OtpDogrula(r, u, kod)
  \/ \E r \in Requests : OtpYaz(r) \/ OtpYanlis(r) \/ OtpTuket(r)
  \/ \E k \in DOMAIN otp : OtpYaslan(k)

GirisNext ==
  \E r \in Requests :
    \/ GirisUpsert(r) \/ GirisAktif(r) \/ GirisYeniden(r) \/ GirisRol(r)
    \/ GirisJeton(r) \/ MisafirRol(r)
    \/ \E secilen \in SecilenRoller : GirisRolYaz(r, secilen)

OturumNext ==
  \/ \E r \in Requests, j \in DOMAIN jeton : RefreshOku(r, j)
  \/ \E r \in Requests : RefreshIptal(r) \/ DevirTuket(r)
  \/ \E r \in Requests, k \in DOMAIN devir : TransferKoduOku(r, k)
  \/ \E r \in Requests, cakisma \in BOOLEAN : DevirSepet(r, cakisma)
  \/ \E j \in DOMAIN jeton : Logout(j)
  \/ \E k \in DOMAIN devir : DevirBiter(k)
  \/ \E u \in Users : TransferKoduUret(u)

YonetimNext ==
  \/ \E a, u \in Users, durum \in Yaptirimlar : SetStatus(a, u, durum)
  \/ \E a, u \in Users, roller \in RolAtamalari : AssignRoles(a, u, roller)

KullaniciNext == OtpNext \/ GirisNext \/ OturumNext \/ YonetimNext
=============================================================================
