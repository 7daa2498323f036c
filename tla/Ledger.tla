------------------------------- MODULE Ledger -------------------------------
(***************************************************************************)
(* The double-entry ledger (finance/services/ledger.service.ts) as its     *)
(* callers rely on it: one posting is one atomic step that moves money     *)
(* between wallets, happens at most once per reference, and never leaves a *)
(* user's wallet overdrawn.  LedgerTx.tla models how the code gets there   *)
(* with one statement per wallet row under row locks, and is checked to    *)
(* implement LedgerSpec.                                                   *)
(*                                                                         *)
(* A posting is given as two functions from wallets to amounts, what each  *)
(* wallet is debited and what it is credited: the sum of the posting's     *)
(* lines on that wallet in that direction, 0 where there is no line.  A    *)
(* posting without a reference is one whose reference nobody else uses.    *)
(* External: that references sent by clients are not those the order       *)
(* system makes up (ClientRef).                                            *)
(*                                                                         *)
(* An operator marked Mistake is no part of the model: it is a definition  *)
(* as a plausible error would have it, for checking that a run notices.    *)
(***************************************************************************)
EXTENDS Integers, FiniteSets, Functions

CONSTANTS
  Users,        \* owners of a USER wallet; a wallet is named by its owner
  Escrow,       \* the one ESCROW system wallet
  Platform,     \* the one PLATFORM system wallet
  OpeningBalance,  \* the balances the system starts with
  ClientRefs,   \* references clients may send with finance requests
  Amounts       \* amounts clients may send

Wallets == Users \cup {Escrow, Platform}

ASSUME WalletsAssumption ==
  /\ IsFiniteSet(Users)
  /\ Escrow \notin Users
  /\ Platform \notin Users
  /\ Escrow # Platform
  /\ OpeningBalance \in [Wallets -> Int]
  /\ \A u \in Users : OpeningBalance[u] >= 0
  /\ Amounts \subseteq Nat \ {0}

VARIABLES
  balance,   \* wallets.balance
  posted     \* the references of the COMPLETED rows of the transaction table

ledgerVars == <<balance, posted>>

-----------------------------------------------------------------------------

NoLine == [w \in Wallets |-> 0]

\* One posting line, and two lines of one direction together.
Line(wallet, amount) == [w \in Wallets |-> IF w = wallet THEN amount ELSE 0]
Both(f, g) == [w \in Wallets |-> f[w] + g[w]]

\* Every amount is positive and the two sides agree, or the posting is refused.
Balanced(debit, credit) ==
  /\ \A w \in Wallets : debit[w] \in Nat /\ credit[w] \in Nat
  /\ \E w \in Wallets : debit[w] > 0
  /\ SumFunction(debit) = SumFunction(credit)

\* Mistake: the check made before the transaction is taken for enough.
Covered_AsRead(debit) == TRUE

\* Only a USER or MERCHANT wallet may not go below zero; escrow and platform may.
\* A debit comes before a credit on the same wallet (a transfer to oneself).
Covered(debit) == \A u \in Users : debit[u] > 0 => balance[u] >= debit[u]

\* postWithTx returns normally: the posting is new and covered, or it is a
\* repetition of a reference already posted, which changes nothing.
CanPost(ref, debit, credit) ==
  Balanced(debit, credit) /\ (ref \in posted \/ Covered(debit))

\* Mistake: of two lines on one wallet only the last one counts.
Post_LastLine(ref, debit, credit) ==
  IF ref \in posted
    THEN UNCHANGED ledgerVars
    ELSE /\ balance' = [w \in Wallets |->
              balance[w] + IF credit[w] > 0 THEN credit[w] ELSE -debit[w]]
         /\ posted' = posted \cup {ref}

Post(ref, debit, credit) ==
  IF ref \in posted
    THEN UNCHANGED ledgerVars
    ELSE /\ balance' = [w \in Wallets |-> balance[w] - debit[w] + credit[w]]
         /\ posted' = posted \cup {ref}

-----------------------------------------------------------------------------
(* finance.service: the wallet operations a user asks for directly. *)

ClientRef(ref) == [kind |-> "finance", of |-> {ref}]

ClientPost(ref, debit, credit) ==
  /\ CanPost(ClientRef(ref), debit, credit)
  /\ Post(ClientRef(ref), debit, credit)

Topup(u, amount, ref) == ClientPost(ref, Line(Platform, amount), Line(u, amount))

Withdraw(u, amount, ref) == ClientPost(ref, Line(u, amount), Line(Platform, amount))

Transfer(u, v, amount, ref) == ClientPost(ref, Line(u, amount), Line(v, amount))

FinanceNext ==
  \E u \in Users, amount \in Amounts, ref \in ClientRefs :
    \/ Topup(u, amount, ref)
    \/ Withdraw(u, amount, ref)
    \/ \E v \in Users : Transfer(u, v, amount, ref)

LedgerInit == balance = OpeningBalance /\ posted = {}

LedgerSpec == LedgerInit /\ [][FinanceNext]_ledgerVars

-----------------------------------------------------------------------------

\* The wallets together always hold what they held at the start: a posting
\* moves money between wallets and never makes or loses any.
MoneyConserved == SumFunction(balance) = SumFunction(OpeningBalance)

\* No sequence of payments, transfers and payouts overdraws a user's wallet.
NoOverdraft == \A u \in Users : balance[u] >= 0
=============================================================================
