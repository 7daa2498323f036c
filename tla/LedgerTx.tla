------------------------------ MODULE LedgerTx ------------------------------
(***************************************************************************)
(* How ledger.service.ts posts: postWithTx inside a database transaction,  *)
(* statement by statement, with the locks PostgreSQL takes for it at READ  *)
(* COMMITTED.  balance and posted are what is committed; what a            *)
(* transaction has written and not committed is in mine and log.           *)
(*                                                                         *)
(* An UPDATE of a wallet row takes the row's lock and an INSERT of a       *)
(* reference waits for an uncommitted insert of the same one; both are     *)
(* kept until the transaction ends.  External: PostgreSQL's locks and its  *)
(* rollback.  One transaction makes one posting: every caller does.        *)
(* Operators marked Mistake are no part of the model (see Ledger).         *)
(***************************************************************************)
EXTENDS Ledger, Sequences, FiniteSets

CONSTANTS
  Txs,        \* database transactions that may run at the same time
  Postings,   \* postings callers make: [ref, lines], lines as the caller wrote them
  Rank        \* the order of the wallets' ids

PostingLine == [wallet : Wallets, direction : {"DEBIT", "CREDIT"}, amount : Nat \ {0}]

\* Callers debit a user before they credit him (a transfer to oneself).
ASSUME LedgerTxAssumption ==
  /\ IsFiniteSet(Txs)
  /\ \A p \in Postings :
       /\ p.lines \in Seq(PostingLine)
       /\ Len(p.lines) >= 2
       /\ \A i, j \in DOMAIN p.lines :
            /\ i < j
            /\ p.lines[i].wallet = p.lines[j].wallet
            /\ p.lines[j].wallet \in Users
            /\ p.lines[j].direction = "DEBIT"
            => p.lines[i].direction = "DEBIT"
  /\ Rank \in [Wallets -> Nat]
  /\ \A v, w \in Wallets : Rank[v] = Rank[w] => v = w

VARIABLES
  pc,       \* where in postWithTx a transaction is
  job,      \* the posting it makes
  todo,     \* the lines it has not processed yet, by their index
  mine,     \* the wallet rows it has updated, and so locked, with their values
  log,      \* the ledger entries it has written, by wallet
  entries   \* the committed ledger entries of each wallet, oldest first

txVars == <<pc, job, todo, mine, log>>
vars == <<ledgerVars, txVars, entries>>

-----------------------------------------------------------------------------

\* What a posting debits and credits each wallet: the sums of its lines.
Side(p, direction) ==
  [w \in Wallets |-> SumFunction(
     [i \in {i \in DOMAIN p.lines :
               p.lines[i].wallet = w /\ p.lines[i].direction = direction}
        |-> p.lines[i].amount])]

Debit == [p \in Postings |-> Side(p, "DEBIT")]
Credit == [p \in Postings |-> Side(p, "CREDIT")]

\* The checks before the first statement: a posting that fails them is refused.
Accepted == {p \in Postings : Balanced(Debit[p], Credit[p])}

Signed(line) == IF line.direction = "CREDIT" THEN line.amount ELSE -line.amount

\* Mistake: the lines go in the order the caller wrote them.
Before_AsWritten(p, i, j) == i <= j

\* siraliSatirlar: lines go by ascending wallet id, and those of one wallet in the
\* order the caller gave them.
Before(p, i, j) ==
  \/ Rank[p.lines[i].wallet] < Rank[p.lines[j].wallet]
  \/ p.lines[i].wallet = p.lines[j].wallet /\ i <= j

NextLine(t) == CHOOSE i \in todo[t] : \A j \in todo[t] : Before(job[t], i, j)

InLoop(t) == pc[t] = "lines" /\ todo[t] # {}

\* What t's next line does to its wallet, as t sees the row once it has the lock.
NextWallet(t) == job[t].lines[NextLine(t)].wallet
Row(t, w) == IF w \in DOMAIN mine[t] THEN mine[t][w] ELSE balance[w]
NewBalance(t) == Row(t, NextWallet(t)) + Signed(job[t].lines[NextLine(t)])

\* Mistake: the row is read and written back without being locked.
WaitsFor_ReferenceOnly(t, u) ==
  t # u /\ pc[t] = "create" /\ pc[u] = "lines" /\ job[u].ref = job[t].ref

\* u holds what t needs next: the row of its next wallet, or its reference.
WaitsFor(t, u) ==
  /\ t # u
  /\ \/ InLoop(t) /\ NextWallet(t) \in DOMAIN mine[u]
     \/ pc[t] = "create" /\ pc[u] = "lines" /\ job[u].ref = job[t].ref

Waits(t) == \E u \in Txs : WaitsFor(t, u)

NoEntries == [w \in Wallets |-> << >>]

NoPosting == [ref |-> "none", lines |-> << >>]

\* Mistake: the rows of a transaction that has ended are kept.
End_KeepsRows(t, how) ==
  /\ pc' = [pc EXCEPT ![t] = how]
  /\ job' = [job EXCEPT ![t] = NoPosting]
  /\ todo' = [todo EXCEPT ![t] = {}]
  /\ log' = [log EXCEPT ![t] = NoEntries]
  /\ UNCHANGED mine

\* The transaction ends, and with it its locks and its rows not committed.
End(t, how) ==
  /\ pc' = [pc EXCEPT ![t] = how]
  /\ job' = [job EXCEPT ![t] = NoPosting]
  /\ todo' = [todo EXCEPT ![t] = {}]
  /\ mine' = [mine EXCEPT ![t] = << >>]
  /\ log' = [log EXCEPT ![t] = NoEntries]

Rollback(t) == End(t, "failed") /\ UNCHANGED <<ledgerVars, entries>>

-----------------------------------------------------------------------------

\* A client may ask for a posting again whatever became of it: it may not know.
Begin(t, p) ==
  /\ pc[t] \in {"idle", "done", "failed"}
  /\ pc' = [pc EXCEPT ![t] = "check"]
  /\ job' = [job EXCEPT ![t] = p]
  /\ UNCHANGED <<ledgerVars, todo, mine, log, entries>>

\* The reference is posted already: the existing transaction is the answer.
AlreadyPosted(t) ==
  /\ pc[t] = "check"
  /\ job[t].ref \in posted
  /\ End(t, "done")
  /\ UNCHANGED <<ledgerVars, entries>>

NotPosted(t) ==
  /\ pc[t] = "check"
  /\ job[t].ref \notin posted
  /\ pc' = [pc EXCEPT ![t] = "create"]
  /\ UNCHANGED <<ledgerVars, job, todo, mine, log, entries>>

CreateTransaction(t) ==
  /\ pc[t] = "create"
  /\ ~Waits(t)
  /\ job[t].ref \notin posted
  /\ pc' = [pc EXCEPT ![t] = "lines"]
  /\ todo' = [todo EXCEPT ![t] = DOMAIN job[t].lines]
  /\ UNCHANGED <<ledgerVars, job, mine, log, entries>>

\* Another transaction has committed the reference since the check.
ReferenceTaken(t) ==
  /\ pc[t] = "create"
  /\ ~Waits(t)
  /\ job[t].ref \in posted
  /\ Rollback(t)

Entry(t) == [change |-> Signed(job[t].lines[NextLine(t)]), balanceAfter |-> NewBalance(t)]

\* Mistake: the balance after a debit is not looked at.
Overdraws_Never(t) == FALSE

Overdraws(t) == NewBalance(t) < 0 /\ NextWallet(t) \in Users

UpdateWallet(t) ==
  /\ InLoop(t)
  /\ ~Waits(t)
  /\ ~Overdraws(t)
  /\ mine' = [mine EXCEPT ![t] =
       [w \in DOMAIN mine[t] \cup {NextWallet(t)} |->
          IF w = NextWallet(t) THEN NewBalance(t) ELSE mine[t][w]]]
  /\ log' = [log EXCEPT ![t][NextWallet(t)] = Append(@, Entry(t))]
  /\ todo' = [todo EXCEPT ![t] = @ \ {NextLine(t)}]
  /\ UNCHANGED <<ledgerVars, pc, job, entries>>

NotEnough(t) ==
  /\ InLoop(t)
  /\ ~Waits(t)
  /\ Overdraws(t)
  /\ Rollback(t)

Commit(t) ==
  /\ pc[t] = "lines"
  /\ todo[t] = {}
  /\ balance' = [w \in Wallets |-> Row(t, w)]
  /\ posted' = posted \cup {job[t].ref}
  /\ entries' = [w \in Wallets |-> entries[w] \o log[t][w]]
  /\ End(t, "done")

\* The process stops, the connection is lost or the transaction times out.
Abort(t) ==
  /\ pc[t] \in {"check", "create", "lines"}
  /\ Rollback(t)

Step(t) ==
  \/ AlreadyPosted(t) \/ NotPosted(t)
  \/ CreateTransaction(t) \/ ReferenceTaken(t)
  \/ UpdateWallet(t) \/ NotEnough(t)
  \/ Commit(t)

Init ==
  /\ LedgerInit
  /\ pc = [t \in Txs |-> "idle"]
  /\ job = [t \in Txs |-> NoPosting]
  /\ todo = [t \in Txs |-> {}]
  /\ mine = [t \in Txs |-> << >>]
  /\ log = [t \in Txs |-> NoEntries]
  /\ entries = NoEntries

Next ==
  \E t \in Txs :
    \/ \E p \in Accepted : Begin(t, p)
    \/ Step(t)
    \/ Abort(t)

Spec == Init /\ [][Next]_vars

\* Every transaction goes on; PostgreSQL serves those that wait for a row or an
\* index entry in the order they came, so none is passed over for ever.
FairSpec == Spec /\ \A t \in Txs : SF_vars(Step(t))

-----------------------------------------------------------------------------

TypeOK ==
  /\ balance \in [Wallets -> Int]
  /\ posted \subseteq {p.ref : p \in Postings}
  /\ pc \in [Txs -> {"idle", "check", "create", "lines", "done", "failed"}]
  /\ job \in [Txs -> Postings \cup {NoPosting}]
  /\ \A t \in Txs :
       /\ todo[t] \subseteq DOMAIN job[t].lines
       /\ mine[t] \in [DOMAIN mine[t] -> Int]
       /\ DOMAIN mine[t] \subseteq {job[t].lines[i].wallet : i \in DOMAIN job[t].lines}

\* "Cyclic waiting becomes mathematically impossible" (ledger.service.ts, above the
\* sort): no transactions wait for one another in a circle, whatever order their
\* callers wrote the lines in.
NoCircularWait ==
  \A S \in (SUBSET Txs) \ {{}} : \E t \in S : \A u \in S : ~WaitsFor(t, u)

\* Entry by entry, e leads from one balance to another.
Chain(opening, e, closing) ==
  LET after == [i \in 0..Len(e) |-> IF i = 0 THEN opening ELSE e[i].balanceAfter]
  IN /\ \A i \in 1..Len(e) : after[i] = after[i - 1] + e[i].change
     /\ closing = after[Len(e)]

\* The balanceAfter column is an unbroken chain: every committed entry of a wallet
\* continues from the one before it, and the last one is the balance of the wallet.
EntriesChain ==
  \A w \in Wallets : Chain(OpeningBalance[w], entries[w], balance[w])

\* Ledger's atomic posting, for these postings.
AtomicNext ==
  \E p \in Postings :
    /\ p.ref \notin posted
    /\ Post(p.ref, Debit[p], Credit[p])
    /\ CanPost(p.ref, Debit[p], Credit[p])

\* Interleaved statement by statement, aborted and repeated, postings have the effect
\* of Ledger's Post: all lines or none, once per reference, no user overdrawn.
PostsAtomically == LedgerInit /\ [][AtomicNext]_ledgerVars

\* Every posting that is begun is answered, with success or an error.
PostingsEnd ==
  \A t \in Txs :
    pc[t] \in {"check", "create", "lines"} ~> pc[t] \in {"done", "failed"}
=============================================================================
