----------------------------- MODULE MCLedgerTx -----------------------------
(***************************************************************************)
(* An instance of LedgerTx for TLC: postings whose callers write their     *)
(* lines so that two wallets' rows would be locked in opposite orders.     *)
(***************************************************************************)
EXTENDS LedgerTx, TLC

CONSTANTS u1, u2

Dr(w, n) == [wallet |-> w, direction |-> "DEBIT", amount |-> n]
Cr(w, n) == [wallet |-> w, direction |-> "CREDIT", amount |-> n]

Payment == [ref |-> "payment", lines |-> <<Dr(u1, 3), Cr(Escrow, 3)>>]
\* u1 is both the seller and the courier: two lines on one wallet.
Settle == [ref |-> "settle",
           lines |-> <<Dr(Escrow, 3), Cr(u1, 1), Cr(Platform, 1), Cr(u1, 1)>>]
SendToU2 == [ref |-> "transfer", lines |-> <<Dr(u1, 2), Cr(u2, 2)>>]

\* As written by their callers, the payment locks u1 and then the escrow, and the
\* settlement the escrow and then u1.
OpposedPostings == {Payment, Settle, SendToU2}

\* The ids of the wallets put neither the users first nor the system wallets, and
\* the receiver of the transfer before its sender: the wallet that may be short comes
\* after one that is already written.
WalletRank == (u1 :> 2) @@ (Escrow :> 1) @@ (u2 :> 0) @@ (Platform :> 3)

\* u1 can pay or send, and both only when it has been paid in between.
Opening == (u1 :> 3) @@ (u2 :> 1) @@ (Escrow :> 0) @@ (Platform :> 0)
=============================================================================
