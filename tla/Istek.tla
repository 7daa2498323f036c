-------------------------------- MODULE Istek --------------------------------
(***************************************************************************)
(* Requests.  A handler of the server that reads before it writes is a    *)
(* request: req[r] says which statement it comes to next and holds what    *)
(* it has read and will use again.  Between two statements other requests  *)
(* run.  A handler of one statement is one step and needs no request.      *)
(*                                                                         *)
(* isler says which handlers clients call at all.  It never changes: each  *)
(* initial state opens a scene of the market place and says here who       *)
(* plays in it.                                                            *)
(***************************************************************************)
CONSTANTS Requests

VARIABLES req, isler

Bos == [op |-> "bos"]

\* A client calls the handler ad.
Cagrilir(ad) == ad \in isler

\* A free request has made its first reads and checks.
Basla(r, q) ==
  /\ req[r] = Bos
  /\ req' = [req EXCEPT ![r] = q]

\* The next statement of r is op.
Sira(r, op) == req[r].op = op

Gec(r, q) == req' = [req EXCEPT ![r] = q]

\* The handler returns, or throws.
Bitir(r) == Gec(r, Bos)
=============================================================================
