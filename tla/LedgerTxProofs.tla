--------------------------- MODULE LedgerTxProofs ---------------------------
(***************************************************************************)
(* What LedgerTx promises, for any wallets, postings and number of         *)
(* transactions: postings are atomic (they implement Ledger's Post), no    *)
(* transactions wait for one another in a circle, and the entries of every *)
(* wallet form an unbroken chain of balances.                              *)
(***************************************************************************)
EXTENDS LedgerTx, SumLemmas, SequenceTheorems

USE DEF Wallets

-----------------------------------------------------------------------------
(* The operators of the model *)

Amount(p) == [i \in DOMAIN p.lines |-> p.lines[i].amount]

\* What the lines I of a posting move on a wallet in one direction.
On(p, I, w, direction) ==
  {i \in I : p.lines[i].wallet = w /\ p.lines[i].direction = direction}
Moved(p, I, w, direction) == SumFunctionOnSet(Amount(p), On(p, I, w, direction))

\* What the lines I make of the balance b of a wallet.
After(p, I, w, b) == b + Moved(p, I, w, "CREDIT") - Moved(p, I, w, "DEBIT")

LEMMA PostingIsLines ==
  ASSUME NEW p \in Postings
  PROVE  /\ DOMAIN p.lines \subseteq Nat
         /\ IsFiniteSet(DOMAIN p.lines)
         /\ \A i \in DOMAIN p.lines :
              /\ p.lines[i].wallet \in Wallets
              /\ p.lines[i].direction \in {"DEBIT", "CREDIT"}
              /\ p.lines[i].amount \in Nat /\ p.lines[i].amount # 0
<1>1. p.lines \in Seq(PostingLine)
  BY LedgerTxAssumption
<1>2. DOMAIN p.lines = 1..Len(p.lines) /\ Len(p.lines) \in Nat
  BY <1>1
<1>3. IsFiniteSet(DOMAIN p.lines)
  BY <1>2, FS_Interval
<1>4. \A i \in DOMAIN p.lines : p.lines[i] \in PostingLine
  BY <1>1
<1> QED BY <1>2, <1>3, <1>4 DEF PostingLine

LEMMA MovedIsNat ==
  ASSUME NEW p \in Postings, NEW I \in SUBSET DOMAIN p.lines, NEW w, NEW direction
  PROVE  Moved(p, I, w, direction) \in Nat
<1>1. IsFiniteSet(On(p, I, w, direction))
  BY PostingIsLines, FS_Subset DEF On
<1>2. \A i \in On(p, I, w, direction) : Amount(p)[i] \in Nat
  BY PostingIsLines DEF On, Amount
<1> QED BY <1>1, <1>2, SumIsNat DEF Moved

Part(p, n, w, direction) ==
  IF p.lines[n].wallet = w /\ p.lines[n].direction = direction THEN p.lines[n].amount ELSE 0

\* A line adds its amount to what is moved on its wallet in its direction.
LEMMA MovedAdds ==
  ASSUME NEW p \in Postings, NEW I \in SUBSET DOMAIN p.lines,
         NEW n \in DOMAIN p.lines, n \notin I, NEW w, NEW direction
  PROVE  Moved(p, I \cup {n}, w, direction)
           = Moved(p, I, w, direction) + Part(p, n, w, direction)
<1> DEFINE D == On(p, I, w, direction)
<1>1. IsFiniteSet(D) /\ n \notin D
  BY PostingIsLines, FS_Subset DEF On
<1>2. \A i \in D \cup {n} : Amount(p)[i] \in Int
  BY PostingIsLines DEF On, Amount
<1>3. CASE p.lines[n].wallet = w /\ p.lines[n].direction = direction
  <2>1. On(p, I \cup {n}, w, direction) = D \cup {n}
    BY <1>3 DEF On
  <2>2. SumFunctionOnSet(Amount(p), D \cup {n})
          = Amount(p)[n] + SumFunctionOnSet(Amount(p), D)
    <3> HIDE DEF D
    <3> QED BY <1>1, <1>2, SumAdds
  <2>3. Amount(p)[n] = p.lines[n].amount
    BY DEF Amount
  <2>4. Moved(p, I, w, direction) \in Nat /\ p.lines[n].amount \in Nat
    BY MovedIsNat, PostingIsLines
  <2>5. Moved(p, I \cup {n}, w, direction) = p.lines[n].amount + Moved(p, I, w, direction)
    BY <2>1, <2>2, <2>3 DEF Moved
  <2> HIDE DEF Moved
  <2> QED BY <1>3, <2>4, <2>5 DEF Part
<1>4. CASE ~ (p.lines[n].wallet = w /\ p.lines[n].direction = direction)
  <2>1. On(p, I \cup {n}, w, direction) = D
    BY <1>4 DEF On
  <2>2. Moved(p, I \cup {n}, w, direction) = Moved(p, I, w, direction)
    BY <2>1 DEF Moved
  <2> QED BY <1>4, <2>2, MovedIsNat DEF Part
<1> QED BY <1>3, <1>4

LEMMA MovedNowhere ==
  ASSUME NEW p \in Postings, NEW I \in SUBSET DOMAIN p.lines, NEW w, NEW direction,
         \A i \in I : p.lines[i].wallet = w => p.lines[i].direction # direction
  PROVE  Moved(p, I, w, direction) = 0
<1>1. On(p, I, w, direction) = {}
  BY DEF On
<1> QED BY <1>1, SumOfNothing DEF Moved

\* The sides of a posting are what all its lines move.
LEMMA SideIsMoved ==
  ASSUME NEW p \in Postings, NEW w \in Wallets, NEW direction
  PROVE  Side(p, direction)[w] = Moved(p, DOMAIN p.lines, w, direction)
<1> DEFINE D == On(p, DOMAIN p.lines, w, direction)
           f == [i \in D |-> p.lines[i].amount]
<1>1. Side(p, direction)[w] = SumFunction(f)
  BY DEF Side, On
<1>2. SumFunction(f) = SumFunctionOnSet(f, D)
  BY DEF SumFunction
<1>3. IsFiniteSet(D) /\ \A i \in D : f[i] = Amount(p)[i]
  BY PostingIsLines, FS_Subset DEF On, Amount
<1>4. SumFunctionOnSet(f, D) = SumFunctionOnSet(Amount(p), D)
  <2> HIDE DEF D, f
  <2> QED BY <1>3, SumAgrees
<1> QED BY <1>1, <1>2, <1>4 DEF Moved

\* Among any lines of a posting there is one that goes before the others.
LEMMA FirstLine ==
  ASSUME NEW p \in Postings, NEW I \in SUBSET DOMAIN p.lines, I # {}
  PROVE  \E i \in I : \A j \in I : Before(p, i, j)
<1>1. \A i \in I : i \in Nat /\ p.lines[i].wallet \in Wallets
  BY PostingIsLines
<1>2. \A w \in Wallets : Rank[w] \in Nat
  BY LedgerTxAssumption
<1> DEFINE rank(i) == Rank[p.lines[i].wallet]
           ranks == {rank(i) : i \in I}
<1>3. PICK r \in ranks : \A s \in ranks : r <= s
  <2>1. ranks \in SUBSET Nat /\ ranks # {}
    BY <1>1, <1>2
  <2> HIDE DEF ranks
  <2> QED BY <2>1, LeastNatural
<1> DEFINE lowest == {i \in I : rank(i) = r}
<1>4. PICK i \in lowest : \A j \in lowest : i <= j
  <2>1. lowest \in SUBSET Nat /\ lowest # {}
    BY <1>1, <1>3
  <2> HIDE DEF lowest
  <2> QED BY <2>1, LeastNatural
<1>5. ASSUME NEW j \in I PROVE Before(p, i, j)
  <2>1. rank(i) <= rank(j) /\ rank(i) \in Nat /\ rank(j) \in Nat
    BY <1>1, <1>2, <1>3, <1>4
  <2>2. CASE rank(i) = rank(j)
    BY <1>1, <1>4, <2>2, LedgerTxAssumption DEF Before
  <2>3. CASE rank(i) # rank(j)
    BY <2>1, <2>3 DEF Before
  <2> QED BY <2>2, <2>3
<1> QED BY <1>4, <1>5

-----------------------------------------------------------------------------
(* The inductive invariant *)

EntryRow == [change : Int, balanceAfter : Int]

\* The lines of its posting that a transaction has processed.
Finished(t) == DOMAIN job[t].lines \ todo[t]

Shapes ==
  /\ todo = [t \in Txs |-> todo[t]]
  /\ mine = [t \in Txs |-> mine[t]]
  /\ log \in [Txs -> [Wallets -> Seq(EntryRow)]]
  /\ entries \in [Wallets -> Seq(EntryRow)]

\* What a transaction has at each point of postWithTx.
Phase(t) ==
  /\ pc[t] \in {"idle", "done", "failed"} => job[t] = NoPosting
  /\ pc[t] \in {"check", "create", "lines"} => job[t] \in Accepted
  /\ pc[t] # "lines" => todo[t] = {} /\ mine[t] = << >> /\ log[t] = NoEntries
  /\ pc[t] = "lines" => job[t].ref \notin posted

\* No two transactions have updated one row, or are inserting one reference.
Exclusive(t, u) ==
  /\ DOMAIN mine[t] \cap DOMAIN mine[u] = {}
  /\ pc[t] = "lines" /\ pc[u] = "lines" => job[t].ref # job[u].ref

\* Lines are processed in their order, and a transaction has a row to itself from the
\* first line on it: what it sees there is the committed balance and its own lines.
Rows(t) ==
  /\ \A i \in Finished(t), j \in todo[t] : Before(job[t], i, j)
  /\ DOMAIN mine[t] = {job[t].lines[i].wallet : i \in Finished(t)}
  /\ \A w \in Wallets : Row(t, w) = After(job[t], Finished(t), w, balance[w])
  /\ \A u \in Users : Row(t, u) >= 0
  /\ \A u \in Users : balance[u] >= Moved(job[t], Finished(t), u, "DEBIT")

\* The entries a transaction has written lead from the committed balance to its row.
Log(t) ==
  \A w \in Wallets :
    /\ Chain(balance[w], log[t][w], Row(t, w))
    /\ w \notin DOMAIN mine[t] => log[t][w] = << >>

IInv ==
  /\ TypeOK
  /\ Shapes
  /\ NoOverdraft
  /\ EntriesChain
  /\ \A t \in Txs : Phase(t) /\ Log(t)
  /\ \A t \in Txs : pc[t] = "lines" => Rows(t)
  /\ \A t, u \in Txs : t # u => Exclusive(t, u)

-----------------------------------------------------------------------------
(* Chains of entries *)

LEMMA ChainMeans ==
  ASSUME NEW e \in Seq(EntryRow), NEW opening, NEW closing
  PROVE  Chain(opening, e, closing)
           <=> /\ \A i \in 1..Len(e) : e[i].balanceAfter
                    = (IF i = 1 THEN opening ELSE e[i - 1].balanceAfter) + e[i].change
               /\ closing = IF Len(e) = 0 THEN opening ELSE e[Len(e)].balanceAfter
<1> DEFINE after == [i \in 0..Len(e) |-> IF i = 0 THEN opening ELSE e[i].balanceAfter]
<1>1. /\ \A i \in 1..Len(e) : /\ after[i] = e[i].balanceAfter
                              /\ after[i - 1] = IF i = 1 THEN opening ELSE e[i - 1].balanceAfter
      /\ after[Len(e)] = IF Len(e) = 0 THEN opening ELSE e[Len(e)].balanceAfter
  OBVIOUS
<1>2. Chain(opening, e, closing)
        <=> /\ \A i \in 1..Len(e) : after[i] = after[i - 1] + e[i].change
            /\ closing = after[Len(e)]
  BY DEF Chain
<1> HIDE DEF after
<1> QED BY <1>1, <1>2

LEMMA ChainOfNothing ==
  ASSUME NEW b PROVE Chain(b, << >>, b)
<1> DEFINE e == << >>
<1>1. e \in Seq(EntryRow) /\ Len(e) = 0
  OBVIOUS
<1> HIDE DEF e
<1>2. 1..Len(e) = {} /\ b = IF Len(e) = 0 THEN b ELSE e[Len(e)].balanceAfter
  BY <1>1
<1>3. Chain(b, e, b)
  BY <1>1, <1>2, ChainMeans
<1> QED BY <1>3 DEF e

LEMMA ChainAppend ==
  ASSUME NEW e \in Seq(EntryRow), NEW opening, NEW closing, Chain(opening, e, closing),
         NEW x \in EntryRow, x.balanceAfter = closing + x.change
  PROVE  Chain(opening, Append(e, x), x.balanceAfter)
<1> DEFINE f == Append(e, x)
<1>1. /\ f \in Seq(EntryRow) /\ Len(f) = Len(e) + 1 /\ Len(e) \in Nat
      /\ f[Len(f)] = x
      /\ \A i \in 1..Len(e) : f[i] = e[i]
  OBVIOUS
<1> HIDE DEF f
<1>2. /\ \A i \in 1..Len(e) : e[i].balanceAfter
           = (IF i = 1 THEN opening ELSE e[i - 1].balanceAfter) + e[i].change
      /\ closing = IF Len(e) = 0 THEN opening ELSE e[Len(e)].balanceAfter
  BY ChainMeans
<1>3. ASSUME NEW i \in 1..Len(f)
      PROVE  f[i].balanceAfter
               = (IF i = 1 THEN opening ELSE f[i - 1].balanceAfter) + f[i].change
  <2>1. CASE i \in 1..Len(e)
    <3>1. i = 1 \/ i - 1 \in 1..Len(e)
      BY <1>1, <2>1
    <3> QED BY <1>1, <1>2, <2>1, <3>1
  <2>2. CASE i = Len(f)
    <3>1. Len(e) = 0 \/ Len(e) \in 1..Len(e)
      BY <1>1
    <3>2. closing = IF i = 1 THEN opening ELSE f[i - 1].balanceAfter
      BY <1>1, <1>2, <2>2, <3>1
    <3> QED BY <1>1, <2>2, <3>2
  <2> QED BY <1>1, <2>1, <2>2
<1>4. x.balanceAfter = IF Len(f) = 0 THEN opening ELSE f[Len(f)].balanceAfter
  BY <1>1
<1>5. Chain(opening, f, x.balanceAfter)
  BY <1>1, <1>3, <1>4, ChainMeans
<1> QED BY <1>5 DEF f

\* Two chains that meet are one.
LEMMA ChainConcat ==
  ASSUME NEW e \in Seq(EntryRow), NEW g \in Seq(EntryRow), NEW a, NEW b, NEW c,
         Chain(a, e, b), Chain(b, g, c)
  PROVE  Chain(a, e \o g, c)
<1> DEFINE f == e \o g
<1>1. /\ f \in Seq(EntryRow) /\ Len(f) = Len(e) + Len(g)
      /\ Len(e) \in Nat /\ Len(g) \in Nat
      /\ \A i \in 1..Len(e) : f[i] = e[i]
      /\ \A i \in 1..Len(g) : f[Len(e) + i] = g[i]
  OBVIOUS
<1> HIDE DEF f
<1>2. /\ \A i \in 1..Len(e) : e[i].balanceAfter
           = (IF i = 1 THEN a ELSE e[i - 1].balanceAfter) + e[i].change
      /\ b = IF Len(e) = 0 THEN a ELSE e[Len(e)].balanceAfter
  BY ChainMeans
<1>3. /\ \A i \in 1..Len(g) : g[i].balanceAfter
           = (IF i = 1 THEN b ELSE g[i - 1].balanceAfter) + g[i].change
      /\ c = IF Len(g) = 0 THEN b ELSE g[Len(g)].balanceAfter
  BY ChainMeans
<1>4. ASSUME NEW i \in 1..Len(f)
      PROVE  f[i].balanceAfter
               = (IF i = 1 THEN a ELSE f[i - 1].balanceAfter) + f[i].change
  <2>1. CASE i \in 1..Len(e)
    <3>1. i = 1 \/ i - 1 \in 1..Len(e)
      BY <1>1, <2>1
    <3> QED BY <1>1, <1>2, <2>1, <3>1
  <2>2. CASE i = Len(e) + 1
    <3>1. 1 \in 1..Len(g) /\ f[i] = g[1]
      BY <1>1, <2>2
    <3>2. b = IF i = 1 THEN a ELSE f[i - 1].balanceAfter
      BY <1>1, <1>2, <2>2
    <3> QED BY <1>3, <3>1, <3>2
  <2>3. CASE i > Len(e) + 1
    <3> DEFINE k == i - Len(e)
    <3>1. k \in 1..Len(g) /\ k # 1 /\ k - 1 \in 1..Len(g)
      BY <1>1, <2>3
    <3>2. f[Len(e) + k] = g[k] /\ f[Len(e) + (k - 1)] = g[k - 1]
      BY <1>1, <3>1
    <3>3. Len(e) + k = i /\ Len(e) + (k - 1) = i - 1 /\ i # 1
      BY <1>1, <2>3
    <3>4. g[k].balanceAfter = g[k - 1].balanceAfter + g[k].change
      BY <1>3, <3>1
    <3> QED BY <3>2, <3>3, <3>4
  <2>4. Len(e) \in Nat /\ i \in Nat /\ 1 <= i
    BY <1>1
  <2>5. i \in 1..Len(e) \/ i = Len(e) + 1 \/ i > Len(e) + 1
    BY <2>4
  <2> QED BY <2>1, <2>2, <2>3, <2>5
<1>5. c = IF Len(f) = 0 THEN a ELSE f[Len(f)].balanceAfter
  <2>1. CASE Len(g) = 0
    BY <1>1, <1>2, <1>3, <2>1
  <2>2. CASE Len(g) # 0
    <3>1. f[Len(e) + Len(g)] = g[Len(g)]
      BY <1>1, <2>2
    <3> QED BY <1>1, <1>3, <2>2, <3>1
  <2> QED BY <2>1, <2>2
<1>6. Chain(a, f, c)
  BY <1>1, <1>4, <1>5, ChainMeans
<1> QED BY <1>6 DEF f

-----------------------------------------------------------------------------
(* Facts of one state *)

LEMMA InitIInv == Init => IInv
<1> SUFFICES ASSUME Init PROVE IInv
  OBVIOUS
<1> USE DEF Init, LedgerInit
<1>1. TypeOK /\ Shapes
  <2>1. << >> \in Seq(EntryRow) /\ DOMAIN << >> = {}
    OBVIOUS
  <2>2. NoEntries \in [Wallets -> Seq(EntryRow)]
    BY <2>1 DEF NoEntries
  <2> QED BY <2>1, <2>2, WalletsAssumption DEF TypeOK, Shapes, NoPosting
<1>2. NoOverdraft
  BY WalletsAssumption DEF NoOverdraft
<1>3. EntriesChain
  BY ChainOfNothing DEF EntriesChain, NoEntries
<1>4. \A t \in Txs : Phase(t) /\ Log(t)
  <2>1. DOMAIN << >> = {}
    OBVIOUS
  <2> QED BY <2>1, ChainOfNothing DEF Phase, Log, Row, NoEntries
<1>5. \A t, u \in Txs : Exclusive(t, u)
  <2>1. DOMAIN << >> = {}
    OBVIOUS
  <2> QED BY <2>1 DEF Exclusive
<1> QED BY <1>1, <1>2, <1>3, <1>4, <1>5 DEF IInv

LEMMA InLines ==
  ASSUME IInv, NEW t \in Txs, pc[t] = "lines"
  PROVE  /\ job[t] \in Postings /\ job[t] \in Accepted
         /\ job[t].ref \notin posted
         /\ Finished(t) \in SUBSET DOMAIN job[t].lines
         /\ todo[t] \in SUBSET DOMAIN job[t].lines
         /\ Rows(t)
BY DEF IInv, TypeOK, Phase, Finished, Accepted

LEMMA NextLineIs ==
  ASSUME IInv, NEW t \in Txs, InLoop(t)
  PROVE  /\ NextLine(t) \in todo[t]
         /\ NextLine(t) \in DOMAIN job[t].lines
         /\ NextLine(t) \notin Finished(t)
         /\ NextWallet(t) \in Wallets
         /\ \A j \in todo[t] : Before(job[t], NextLine(t), j)
<1>1. job[t] \in Postings /\ todo[t] \in SUBSET DOMAIN job[t].lines /\ todo[t] # {}
  BY InLines DEF InLoop
<1>2. \E i \in todo[t] : \A j \in todo[t] : Before(job[t], i, j)
  BY <1>1, FirstLine
<1>3. NextLine(t) \in todo[t] /\ \A j \in todo[t] : Before(job[t], NextLine(t), j)
  BY <1>2 DEF NextLine
<1> QED BY <1>1, <1>3, PostingIsLines DEF Finished, NextWallet

LEMMA AfterAdds ==
  ASSUME NEW p \in Postings, NEW I \in SUBSET DOMAIN p.lines,
         NEW n \in DOMAIN p.lines, n \notin I, NEW w \in Wallets, NEW b \in Int
  PROVE  /\ After(p, I, w, b) \in Int
         /\ After(p, I \cup {n}, w, b)
              = After(p, I, w, b) + IF p.lines[n].wallet = w THEN Signed(p.lines[n]) ELSE 0
<1>1. /\ Moved(p, I, w, "CREDIT") \in Nat /\ Moved(p, I, w, "DEBIT") \in Nat
  BY MovedIsNat
<1>2. \A d : Moved(p, I \cup {n}, w, d) = Moved(p, I, w, d) + Part(p, n, w, d)
  BY MovedAdds
<1>3. p.lines[n].direction \in {"DEBIT", "CREDIT"} /\ p.lines[n].amount \in Nat
  BY PostingIsLines
<1> DEFINE cr == Moved(p, I, w, "CREDIT")
           dr == Moved(p, I, w, "DEBIT")
           cr2 == Moved(p, I \cup {n}, w, "CREDIT")
           dr2 == Moved(p, I \cup {n}, w, "DEBIT")
           a == p.lines[n].amount
<1>4. /\ cr \in Nat /\ dr \in Nat /\ a \in Nat
      /\ cr2 = cr + IF p.lines[n].wallet = w /\ p.lines[n].direction = "CREDIT" THEN a ELSE 0
      /\ dr2 = dr + IF p.lines[n].wallet = w /\ p.lines[n].direction = "DEBIT" THEN a ELSE 0
  BY <1>1, <1>2, <1>3 DEF Part
<1>5. After(p, I, w, b) = b + cr - dr /\ After(p, I \cup {n}, w, b) = b + cr2 - dr2
  BY DEF After
<1>6. Signed(p.lines[n]) = IF p.lines[n].direction = "CREDIT" THEN a ELSE -a
  BY DEF Signed
<1> HIDE DEF cr, dr, cr2, dr2, a
<1> QED BY <1>3, <1>4, <1>5, <1>6

\* Nothing happens to a wallet that none of the lines is on.
LEMMA AfterNothing ==
  ASSUME NEW p \in Postings, NEW I \in SUBSET DOMAIN p.lines, NEW w \in Wallets, NEW b \in Int,
         \A i \in I : p.lines[i].wallet # w
  PROVE  After(p, I, w, b) = b
<1>1. Moved(p, I, w, "CREDIT") = 0 /\ Moved(p, I, w, "DEBIT") = 0
  BY MovedNowhere
<1> HIDE DEF Moved
<1> QED BY <1>1 DEF After

\* A posting that has processed its lines has done to the wallets what Ledger's Post does.
LEMMA WhatIsPosted ==
  ASSUME IInv, NEW t \in Txs, pc[t] = "lines", todo[t] = {}
  PROVE  /\ \A w \in Wallets : Row(t, w) = balance[w] - Debit[job[t]][w] + Credit[job[t]][w]
         /\ Covered(Debit[job[t]])
<1> DEFINE p == job[t]
<1>1. p \in Postings /\ Finished(t) = DOMAIN p.lines /\ Rows(t)
  BY InLines DEF Finished
<1>2. ASSUME NEW w \in Wallets
      PROVE  /\ Debit[p][w] = Moved(p, DOMAIN p.lines, w, "DEBIT")
             /\ Credit[p][w] = Moved(p, DOMAIN p.lines, w, "CREDIT")
             /\ Debit[p][w] \in Nat /\ Credit[p][w] \in Nat
  <2>1. Debit[p] = Side(p, "DEBIT") /\ Credit[p] = Side(p, "CREDIT")
    BY <1>1 DEF Debit, Credit
  <2> HIDE DEF p
  <2> QED BY <1>1, <1>2, <2>1, SideIsMoved, MovedIsNat
<1>3. \A w \in Wallets : balance[w] \in Int
  BY DEF IInv, TypeOK
<1> HIDE DEF Moved
<1>4. ASSUME NEW w \in Wallets
      PROVE  Row(t, w) = balance[w] - Debit[p][w] + Credit[p][w]
  <2>1. Row(t, w) = balance[w] + Credit[p][w] - Debit[p][w]
    BY <1>1, <1>2, <1>4 DEF Rows, After
  <2> QED BY <1>2, <1>3, <1>4, <2>1
<1>5. \A u \in Users : balance[u] >= Debit[p][u]
  BY <1>1, <1>2 DEF Rows
<1> QED BY <1>4, <1>5 DEF Covered

-----------------------------------------------------------------------------
(* The invariant is kept *)

\* What the step of another transaction leaves to u.
Untouched(u) ==
  /\ pc'[u] = pc[u] /\ job'[u] = job[u]
  /\ todo'[u] = todo[u] /\ mine'[u] = mine[u] /\ log'[u] = log[u]
  /\ \A w \in DOMAIN mine[u] : balance'[w] = balance[w]
  /\ pc[u] = "lines" => job[u].ref \notin posted'

LEMMA OthersKeep ==
  ASSUME IInv, NEW u \in Txs, Untouched(u), balance' \in [Wallets -> Int], NoOverdraft'
  PROVE  Phase(u)' /\ Log(u)' /\ (pc[u] = "lines" => Rows(u)')
<1>1. Phase(u)'
  BY DEF IInv, Phase, Untouched
<1>2. ASSUME NEW w \in Wallets
      PROVE  Row(u, w)' = IF w \in DOMAIN mine[u] THEN Row(u, w) ELSE balance'[w]
  BY DEF Row, Untouched
<1>3. Log(u)'
  <2> SUFFICES ASSUME NEW w \in Wallets
               PROVE  /\ Chain(balance'[w], log'[u][w], Row(u, w)')
                      /\ w \notin DOMAIN mine'[u] => log'[u][w] = << >>
    BY DEF Log
  <2>1. /\ Chain(balance[w], log[u][w], Row(u, w))
        /\ w \notin DOMAIN mine[u] => log[u][w] = << >>
    BY DEF IInv, Log
  <2>2. CASE w \in DOMAIN mine[u]
    BY <1>2, <2>1, <2>2 DEF Untouched
  <2>3. CASE w \notin DOMAIN mine[u]
    BY <1>2, <2>1, <2>3, ChainOfNothing DEF Untouched
  <2> QED BY <2>2, <2>3
<1>4. ASSUME pc[u] = "lines" PROVE Rows(u)'
  <2> DEFINE p == job[u]
             I == Finished(u)
  <2>1. Finished(u)' = I /\ p \in Postings /\ I \in SUBSET DOMAIN p.lines /\ Rows(u)
    BY <1>4, InLines DEF Finished, Untouched
  <2>2. /\ \A i \in Finished(u)', j \in todo'[u] : Before(job'[u], i, j)
        /\ DOMAIN mine'[u] = {job'[u].lines[i].wallet : i \in Finished(u)'}
    BY <2>1 DEF Rows, Untouched
  <2>3. ASSUME NEW w \in Wallets, w \notin DOMAIN mine[u]
        PROVE  \A i \in I : p.lines[i].wallet # w
    BY <2>1, <2>3 DEF Rows
  <2>4. ASSUME NEW w \in Wallets PROVE Row(u, w)' = After(p, I, w, balance'[w])
    <3>1. CASE w \in DOMAIN mine[u]
      BY <1>2, <2>1, <3>1 DEF Rows, Untouched
    <3>2. CASE w \notin DOMAIN mine[u]
      <4>1. After(p, I, w, balance'[w]) = balance'[w]
        <5> HIDE DEF p, I
        <5> QED BY <2>1, <2>3, <3>2, AfterNothing
      <4> QED BY <1>2, <3>2, <4>1
    <3> QED BY <3>1, <3>2
  <2>5. \A w \in Users : Row(u, w)' >= 0
    BY <1>2, <2>1 DEF Rows, NoOverdraft
  <2>6. ASSUME NEW w \in Users PROVE balance'[w] >= Moved(p, I, w, "DEBIT")
    <3>1. CASE w \in DOMAIN mine[u]
      BY <2>1, <3>1 DEF Rows, Untouched
    <3>2. CASE w \notin DOMAIN mine[u]
      <4>1. Moved(p, I, w, "DEBIT") = 0
        BY <2>1, <2>3, <3>2, MovedNowhere
      <4> QED BY <4>1 DEF NoOverdraft
    <3> QED BY <3>1, <3>2
  <2>7. p = job'[u]
    BY DEF Untouched
  <2> QED BY <2>1, <2>2, <2>4, <2>5, <2>6, <2>7 DEF Rows
<1> QED BY <1>1, <1>3, <1>4

\* What is left to show of a step of t.
LEMMA StepBy ==
  ASSUME IInv, NEW t \in Txs, TypeOK', Shapes', NoOverdraft', EntriesChain',
         \A u \in Txs \ {t} : Untouched(u) /\ Exclusive(t, u)',
         Phase(t)', Log(t)', pc'[t] = "lines" => Rows(t)'
  PROVE  IInv'
<1>1. ASSUME NEW u \in Txs \ {t}
      PROVE  Phase(u)' /\ Log(u)' /\ (pc'[u] = "lines" => Rows(u)')
  <2>1. Untouched(u) /\ balance' \in [Wallets -> Int]
    BY <1>1 DEF TypeOK
  <2> QED BY <1>1, <2>1, OthersKeep DEF Untouched
<1>2. ASSUME NEW u \in Txs, NEW v \in Txs, u # v PROVE Exclusive(u, v)'
  <2>1. CASE u = t
    BY <1>2, <2>1
  <2>2. CASE v = t
    BY <1>2, <2>2 DEF Exclusive
  <2>3. CASE u # t /\ v # t
    <3>1. Exclusive(u, v) /\ Untouched(u) /\ Untouched(v)
      BY <1>2, <2>3 DEF IInv
    <3> QED BY <3>1 DEF Exclusive, Untouched
  <2> QED BY <2>1, <2>2, <2>3
<1>3. \A u \in Txs : Phase(u)' /\ Log(u)' /\ (pc'[u] = "lines" => Rows(u)')
  BY <1>1
<1> HIDE DEF Wallets
<1> QED BY <1>2, <1>3 DEF IInv

\* A transaction that ends holds nothing.
LEMMA EndKeeps ==
  ASSUME IInv, NEW t \in Txs, NEW how \in {"done", "failed"}, End(t, how),
         balance' \in [Wallets -> Int], NoOverdraft',
         posted' \subseteq {p.ref : p \in Postings},
         entries' \in [Wallets -> Seq(EntryRow)], EntriesChain',
         \A u \in Txs \ {t} :
           /\ \A w \in DOMAIN mine[u] : balance'[w] = balance[w]
           /\ pc[u] = "lines" => job[u].ref \notin posted'
  PROVE  IInv'
<1>0. << >> \in Seq(EntryRow) /\ DOMAIN << >> = {}
  OBVIOUS
<1>1. TypeOK
  BY DEF IInv
<1>2. /\ pc'[t] = how /\ job'[t] = NoPosting /\ todo'[t] = {}
      /\ mine'[t] = << >> /\ log'[t] = NoEntries
      /\ \A u \in Txs \ {t} : /\ pc'[u] = pc[u] /\ job'[u] = job[u] /\ todo'[u] = todo[u]
                              /\ mine'[u] = mine[u] /\ log'[u] = log[u]
      /\ Shapes'
  <2>1. NoEntries \in [Wallets -> Seq(EntryRow)]
    BY <1>0 DEF NoEntries
  <2> QED BY <1>1, <2>1 DEF End, IInv, Shapes, TypeOK
<1>3. TypeOK'
  BY <1>0, <1>1, <1>2 DEF TypeOK, End
<1>4. \A u \in Txs \ {t} : Untouched(u) /\ Exclusive(t, u)'
  BY <1>0, <1>2 DEF Untouched, Exclusive
<1>5. Phase(t)' /\ pc'[t] # "lines"
  BY <1>2 DEF Phase
<1>6. Log(t)'
  BY <1>0, <1>2, ChainOfNothing DEF Log, Row, NoEntries
<1> QED BY <1>2, <1>3, <1>4, <1>5, <1>6, StepBy

LEMMA RollbackKeeps ==
  ASSUME IInv, NEW t \in Txs, NEW how \in {"done", "failed"}, End(t, how),
         UNCHANGED <<ledgerVars, entries>>
  PROVE  IInv'
<1>1. /\ balance' = balance /\ posted' = posted /\ entries' = entries
      /\ balance \in [Wallets -> Int] /\ posted \subseteq {p.ref : p \in Postings}
      /\ entries \in [Wallets -> Seq(EntryRow)]
  BY DEF ledgerVars, IInv, TypeOK, Shapes
<1>2. NoOverdraft' /\ EntriesChain'
  BY <1>1 DEF IInv, NoOverdraft, EntriesChain
<1>3. \A u \in Txs : pc[u] = "lines" => job[u].ref \notin posted'
  BY <1>1 DEF IInv, Phase
<1> QED BY <1>1, <1>2, <1>3, EndKeeps

LEMMA BeginKeeps ==
  ASSUME IInv, NEW t \in Txs, NEW p \in Accepted, Begin(t, p)
  PROVE  IInv'
<1>0. DOMAIN << >> = {} /\ p \in Postings
  BY DEF Accepted
<1>1. /\ TypeOK /\ Shapes /\ Phase(t)
      /\ pc[t] # "lines"
      /\ todo[t] = {} /\ mine[t] = << >> /\ log[t] = NoEntries
      /\ UNCHANGED <<balance, posted, todo, mine, log, entries>>
  BY DEF IInv, Begin, Phase, ledgerVars
<1>2. /\ pc'[t] = "check" /\ job'[t] = p
      /\ \A u \in Txs \ {t} : pc'[u] = pc[u] /\ job'[u] = job[u]
  BY <1>1 DEF Begin, TypeOK
<1>3. TypeOK'
  BY <1>0, <1>1, <1>2 DEF TypeOK, Begin
<1>4. Shapes' /\ NoOverdraft' /\ EntriesChain'
  BY <1>1 DEF IInv, Shapes, NoOverdraft, EntriesChain
<1>5. \A u \in Txs \ {t} : Untouched(u) /\ Exclusive(t, u)'
  BY <1>0, <1>1, <1>2 DEF IInv, Untouched, Exclusive, Phase
<1>6. Phase(t)' /\ pc'[t] # "lines"
  BY <1>1, <1>2 DEF Phase
<1>7. Log(t)'
  BY <1>1 DEF IInv, Log, Row
<1> QED BY <1>3, <1>4, <1>5, <1>6, <1>7, StepBy

LEMMA NotPostedKeeps ==
  ASSUME IInv, NEW t \in Txs, NotPosted(t)
  PROVE  IInv'
<1>1. /\ TypeOK /\ Shapes /\ Phase(t)
      /\ pc[t] = "check"
      /\ UNCHANGED <<balance, posted, job, todo, mine, log, entries>>
  BY DEF IInv, NotPosted, ledgerVars
<1>2. pc'[t] = "create" /\ \A u \in Txs \ {t} : pc'[u] = pc[u]
  BY <1>1 DEF NotPosted, TypeOK
<1>3. TypeOK'
  BY <1>1, <1>2 DEF TypeOK, NotPosted
<1>4. Shapes' /\ NoOverdraft' /\ EntriesChain'
  BY <1>1 DEF IInv, Shapes, NoOverdraft, EntriesChain
<1>5. \A u \in Txs \ {t} : Untouched(u) /\ Exclusive(t, u)'
  BY <1>1, <1>2 DEF IInv, Untouched, Exclusive, Phase
<1>6. Phase(t)' /\ pc'[t] # "lines"
  BY <1>1, <1>2 DEF Phase
<1>7. Log(t)'
  BY <1>1 DEF IInv, Log, Row
<1> QED BY <1>3, <1>4, <1>5, <1>6, <1>7, StepBy

LEMMA CreateKeeps ==
  ASSUME IInv, NEW t \in Txs, CreateTransaction(t)
  PROVE  IInv'
<1>0. DOMAIN << >> = {}
  OBVIOUS
<1>1. /\ TypeOK /\ Shapes /\ Phase(t)
      /\ pc[t] = "create" /\ job[t] \in Accepted /\ job[t] \in Postings
      /\ todo[t] = {} /\ mine[t] = << >> /\ log[t] = NoEntries
      /\ job[t].ref \notin posted
      /\ UNCHANGED <<balance, posted, job, mine, log, entries>>
  BY DEF IInv, CreateTransaction, Phase, Accepted, ledgerVars
<1>2. /\ pc'[t] = "lines" /\ todo'[t] = DOMAIN job[t].lines
      /\ \A u \in Txs \ {t} : pc'[u] = pc[u] /\ todo'[u] = todo[u]
  BY <1>1 DEF CreateTransaction, TypeOK, Shapes
<1>3. TypeOK'
  BY <1>1, <1>2 DEF TypeOK, CreateTransaction
<1>4. Shapes' /\ NoOverdraft' /\ EntriesChain'
  BY <1>1 DEF IInv, Shapes, NoOverdraft, EntriesChain, CreateTransaction
<1>5. \A u \in Txs \ {t} : Untouched(u) /\ Exclusive(t, u)'
  <2>1. \A u \in Txs \ {t} : pc[u] = "lines" => job[u].ref # job[t].ref
    BY <1>1 DEF CreateTransaction, Waits, WaitsFor
  <2> QED BY <1>0, <1>1, <1>2, <2>1 DEF IInv, Untouched, Exclusive, Phase
<1>6. Phase(t)'
  BY <1>1, <1>2 DEF Phase
<1>7. Log(t)'
  BY <1>1 DEF IInv, Log, Row
<1>8. Rows(t)'
  <2> DEFINE p == job[t]
  <2>1. Finished(t)' = {} /\ p \in Postings /\ {} \in SUBSET DOMAIN p.lines /\ job'[t] = p
    BY <1>1, <1>2 DEF Finished
  <2>2. ASSUME NEW w \in Wallets
        PROVE  After(p, {}, w, balance[w]) = balance[w] /\ Moved(p, {}, w, "DEBIT") = 0
    <3>1. balance[w] \in Int
      BY <1>1 DEF TypeOK
    <3> HIDE DEF p
    <3> QED BY <2>1, <3>1, AfterNothing, MovedNowhere
  <2>3. \A w \in Wallets : Row(t, w)' = balance[w]
    BY <1>0, <1>1 DEF Row
  <2>4. \A u \in Users : balance[u] >= 0
    BY DEF IInv, NoOverdraft
  <2> HIDE DEF p
  <2> QED BY <1>0, <1>1, <2>1, <2>2, <2>3, <2>4 DEF Rows
<1> QED BY <1>3, <1>4, <1>5, <1>6, <1>7, <1>8, StepBy

\* A user's debits come before his credits, so before a debit there is none of them.
LEMMA DebitsFirst ==
  ASSUME IInv, NEW t \in Txs, InLoop(t), NextWallet(t) \in Users,
         job[t].lines[NextLine(t)].direction = "DEBIT"
  PROVE  Moved(job[t], Finished(t), NextWallet(t), "CREDIT") = 0
<1> DEFINE p == job[t]
           n == NextLine(t)
           w == NextWallet(t)
<1>1. /\ p \in Postings /\ Finished(t) \in SUBSET DOMAIN p.lines /\ Rows(t)
      /\ n \in todo[t] /\ n \in DOMAIN p.lines /\ n \notin Finished(t)
      /\ w = p.lines[n].wallet
  BY InLines, NextLineIs DEF InLoop, NextWallet
<1>2. ASSUME NEW i \in Finished(t), p.lines[i].wallet = w
      PROVE  p.lines[i].direction = "DEBIT"
  <2>1. Before(p, i, n)
    BY <1>1 DEF Rows
  <2>2. i \in DOMAIN p.lines /\ i # n /\ i \in Nat /\ n \in Nat
    BY <1>1, PostingIsLines
  <2>3. Rank[w] \in Nat
    BY LedgerTxAssumption
  <2>4. i < n
    BY <1>1, <1>2, <2>1, <2>2, <2>3 DEF Before
  <2> QED BY <1>1, <1>2, <2>2, <2>4, LedgerTxAssumption
<1>3. \A i \in Finished(t) : p.lines[i].wallet = w => p.lines[i].direction # "CREDIT"
  BY <1>2
<1> HIDE DEF p, w
<1>4. Moved(p, Finished(t), w, "CREDIT") = 0
  BY <1>1, <1>3, MovedNowhere
<1> QED BY <1>4 DEF p, w

LEMMA UpdateKeeps ==
  ASSUME IInv, NEW t \in Txs, UpdateWallet(t)
  PROVE  IInv'
<1> DEFINE p == job[t]
           n == NextLine(t)
           w == NextWallet(t)
           I == Finished(t)
           new == NewBalance(t)
<1>1. /\ TypeOK /\ Shapes /\ Phase(t) /\ Log(t)
      /\ pc[t] = "lines" /\ InLoop(t) /\ ~Waits(t) /\ ~Overdraws(t)
      /\ UNCHANGED <<balance, posted, pc, job, entries>>
  BY DEF IInv, UpdateWallet, ledgerVars, InLoop
<1>2. /\ p \in Postings /\ I \in SUBSET DOMAIN p.lines /\ Rows(t)
      /\ n \in todo[t] /\ n \in DOMAIN p.lines /\ n \notin I
      /\ w = p.lines[n].wallet /\ w \in Wallets
      /\ \A j \in todo[t] : Before(p, n, j)
  BY <1>1, InLines, NextLineIs DEF NextWallet
<1>3. /\ balance \in [Wallets -> Int]
      /\ \A v \in Wallets : Row(t, v) = After(p, I, v, balance[v]) /\ Row(t, v) \in Int
  <2>1. balance \in [Wallets -> Int]
    BY <1>1 DEF TypeOK
  <2>2. \A v \in Wallets : Row(t, v) = After(p, I, v, balance[v])
    BY <1>2 DEF Rows
  <2>3. \A v \in Wallets : After(p, I, v, balance[v]) \in Int
    <3> HIDE DEF p, n, I
    <3> QED BY <1>2, <2>1, AfterAdds
  <2> QED BY <2>1, <2>2, <2>3
<1>4. Signed(p.lines[n]) \in Int /\ new = Row(t, w) + Signed(p.lines[n]) /\ new \in Int
  <2>1. Signed(p.lines[n]) \in Int
    BY <1>2, PostingIsLines DEF Signed
  <2> QED BY <1>2, <1>3, <2>1 DEF NewBalance
<1>5. /\ DOMAIN mine'[t] = DOMAIN mine[t] \cup {w}
      /\ mine'[t] = [v \in DOMAIN mine[t] \cup {w} |-> IF v = w THEN new ELSE mine[t][v]]
      /\ todo'[t] = todo[t] \ {n}
      /\ log'[t] = [log[t] EXCEPT ![w] = Append(log[t][w], Entry(t))]
      /\ \A u \in Txs \ {t} : mine'[u] = mine[u] /\ todo'[u] = todo[u] /\ log'[u] = log[u]
      /\ mine' = [u \in Txs |-> mine'[u]] /\ todo' = [u \in Txs |-> todo'[u]]
      /\ log' = [u \in Txs |-> log'[u]]
  BY <1>1 DEF UpdateWallet, Shapes
<1>6. Finished(t)' = I \cup {n}
  BY <1>1, <1>2, <1>5 DEF Finished
<1>7. \A v \in Wallets : Row(t, v)' = IF v = w THEN new ELSE Row(t, v)
  BY <1>1, <1>5 DEF Row
<1>8. /\ Entry(t) \in EntryRow /\ Entry(t).balanceAfter = new
      /\ Entry(t).balanceAfter = Row(t, w) + Entry(t).change
  BY <1>4 DEF Entry, EntryRow
<1>9. TypeOK'
  <2>1. mine'[t] \in [DOMAIN mine'[t] -> Int]
    BY <1>1, <1>4, <1>5 DEF TypeOK
  <2>2. DOMAIN mine'[t] \subseteq {job'[t].lines[i].wallet : i \in DOMAIN job'[t].lines}
    <3>1. DOMAIN mine[t] \subseteq {p.lines[i].wallet : i \in DOMAIN p.lines}
      BY <1>1 DEF TypeOK
    <3>2. w \in {p.lines[i].wallet : i \in DOMAIN p.lines}
      BY <1>2
    <3> QED BY <1>1, <1>5, <3>1, <3>2
  <2>3. todo'[t] \subseteq DOMAIN job'[t].lines
    BY <1>1, <1>5 DEF TypeOK
  <2>4. \A u \in Txs \ {t} :
          /\ todo'[u] \subseteq DOMAIN job'[u].lines
          /\ mine'[u] \in [DOMAIN mine'[u] -> Int]
          /\ DOMAIN mine'[u] \subseteq {job'[u].lines[i].wallet : i \in DOMAIN job'[u].lines}
    BY <1>1, <1>5 DEF TypeOK
  <2>5. /\ balance' \in [Wallets -> Int]
        /\ posted' \subseteq {q.ref : q \in Postings}
        /\ pc' \in [Txs -> {"idle", "check", "create", "lines", "done", "failed"}]
        /\ job' \in [Txs -> Postings \cup {NoPosting}]
    BY <1>1 DEF TypeOK
  <2> HIDE DEF Wallets
  <2> QED BY <2>1, <2>2, <2>3, <2>4, <2>5 DEF TypeOK
<1>10. Shapes'
  <2>1. log[t] \in [Wallets -> Seq(EntryRow)] /\ log[t][w] \in Seq(EntryRow)
    BY <1>1, <1>2 DEF Shapes
  <2>2. Append(log[t][w], Entry(t)) \in Seq(EntryRow)
    BY <1>8, <2>1
  <2>3. log'[t] \in [Wallets -> Seq(EntryRow)]
    BY <1>5, <2>1, <2>2
  <2>4. log' \in [Txs -> [Wallets -> Seq(EntryRow)]]
    BY <1>1, <1>5, <2>3 DEF Shapes
  <2> QED BY <1>1, <1>5, <2>4 DEF Shapes
<1>11. NoOverdraft' /\ EntriesChain'
  BY <1>1 DEF IInv, NoOverdraft, EntriesChain
<1>12. ASSUME NEW u \in Txs \ {t} PROVE Untouched(u) /\ Exclusive(t, u)'
  <2>1. w \notin DOMAIN mine[u]
    BY <1>1 DEF Waits, WaitsFor
  <2>2. Exclusive(t, u) /\ Phase(u)
    BY DEF IInv
  <2> QED BY <1>1, <1>5, <2>1, <2>2 DEF Untouched, Exclusive, Phase
<1>13. Phase(t)'
  BY <1>1 DEF Phase
<1>14. Log(t)'
  <2> SUFFICES ASSUME NEW v \in Wallets
               PROVE  /\ Chain(balance'[v], log'[t][v], Row(t, v)')
                      /\ v \notin DOMAIN mine'[t] => log'[t][v] = << >>
    BY DEF Log
  <2>0. log[t] \in [Wallets -> Seq(EntryRow)]
    BY <1>1 DEF Shapes
  <2>1. /\ Chain(balance[v], log[t][v], Row(t, v))
        /\ v \notin DOMAIN mine[t] => log[t][v] = << >>
    BY <1>1 DEF Log
  <2>2. CASE v = w
    <3>1. log[t][w] \in Seq(EntryRow) /\ log'[t][w] = Append(log[t][w], Entry(t))
      BY <1>2, <1>5, <2>0
    <3>2. Chain(balance[w], Append(log[t][w], Entry(t)), Entry(t).balanceAfter)
      BY <1>8, <2>1, <2>2, <3>1, ChainAppend
    <3>3. Row(t, v)' = Entry(t).balanceAfter /\ v \in DOMAIN mine'[t] /\ balance' = balance
      BY <1>1, <1>2, <1>5, <1>7, <1>8, <2>2
    <3> QED BY <2>2, <3>1, <3>2, <3>3
  <2>3. CASE v # w
    <3>1. log'[t][v] = log[t][v]
      BY <1>5, <2>0, <2>3
    <3> QED BY <1>1, <1>5, <1>7, <2>1, <2>3, <3>1
  <2> QED BY <2>2, <2>3
<1>15. Rows(t)'
  <2>1. ASSUME NEW i \in Finished(t)', NEW j \in todo'[t] PROVE Before(p, i, j)
    BY ZenonT(30), <1>2, <1>5, <1>6 DEF Rows
  <2>2. DOMAIN mine'[t] = {p.lines[i].wallet : i \in Finished(t)'}
    <3>1. DOMAIN mine[t] = {p.lines[i].wallet : i \in I}
      BY <1>2 DEF Rows
    <3>2. w = p.lines[n].wallet
      BY <1>2 DEF NextWallet
    <3>3. DOMAIN mine'[t] = DOMAIN mine[t] \cup {w} /\ Finished(t)' = I \cup {n}
      BY <1>5, <1>6
    <3> HIDE DEF p, n, w, I
    <3> QED BY <3>1, <3>2, <3>3
  <2>3. ASSUME NEW v \in Wallets PROVE Row(t, v)' = After(p, I \cup {n}, v, balance[v])
    <3>1. After(p, I \cup {n}, v, balance[v])
            = After(p, I, v, balance[v]) + IF p.lines[n].wallet = v THEN Signed(p.lines[n]) ELSE 0
      <4> HIDE DEF p, n, I
      <4> QED BY <1>2, <1>3, AfterAdds
    <3> HIDE DEF p, n, I, w, new
    <3> QED BY <1>2, <1>3, <1>4, <1>7, <3>1
  <2>4. \A u \in Users : Row(t, u)' >= 0
    BY <1>1, <1>2, <1>4, <1>7 DEF Rows, Overdraws
  <2>5. ASSUME NEW u \in Users PROVE balance[u] >= Moved(p, I \cup {n}, u, "DEBIT")
    <3>1. Moved(p, I \cup {n}, u, "DEBIT") = Moved(p, I, u, "DEBIT") + Part(p, n, u, "DEBIT")
      <4> HIDE DEF p, n, I
      <4> QED BY <1>2, MovedAdds
    <3>2. balance[u] >= Moved(p, I, u, "DEBIT")
      BY <1>2 DEF Rows
    <3>3. Moved(p, I, u, "DEBIT") \in Nat /\ balance[u] \in Int
      <4> HIDE DEF p, I
      <4> QED BY <1>2, <1>3, MovedIsNat
    <3>4. CASE u = w /\ p.lines[n].direction = "DEBIT"
      <4>1. Moved(p, I, u, "CREDIT") = 0
        BY <1>1, <3>4, DebitsFirst
      <4>2. new >= 0
        BY <1>1, <1>4, <3>4 DEF Overdraws
      <4> DEFINE dr == Moved(p, I, u, "DEBIT")
                 a == p.lines[n].amount
      <4>3. Row(t, w) = balance[u] + 0 - dr
        BY <1>3, <3>4, <4>1 DEF After
      <4>4. Signed(p.lines[n]) = -a /\ a \in Nat
        BY <1>2, <3>4, PostingIsLines DEF Signed
      <4>5. Part(p, n, u, "DEBIT") = a
        BY <1>2, <3>4 DEF Part
      <4> HIDE DEF dr, a, new, p, n, I, w
      <4>6. balance[u] >= dr + a
        BY <1>4, <3>3, <4>2, <4>3, <4>4 DEF dr
      <4> QED BY <3>1, <4>5, <4>6 DEF dr
    <3>5. CASE ~ (u = w /\ p.lines[n].direction = "DEBIT")
      <4>1. Part(p, n, u, "DEBIT") = 0
        BY <1>2, <3>5 DEF Part
      <4> HIDE DEF Moved
      <4> QED BY <3>1, <3>2, <3>3, <4>1
    <3> QED BY <3>4, <3>5
  <2> QED BY <1>1, <1>6, <2>1, <2>2, <2>3, <2>4, <2>5 DEF Rows
<1> QED BY <1>9, <1>10, <1>11, <1>12, <1>13, <1>14, <1>15, StepBy

\* A commit makes the transaction's rows the committed ones, and its entries too.
LEMMA CommitKeeps ==
  ASSUME IInv, NEW t \in Txs, Commit(t)
  PROVE  IInv'
<1>1. /\ TypeOK /\ Shapes /\ Log(t) /\ pc[t] = "lines" /\ todo[t] = {} /\ End(t, "done")
      /\ balance' = [w \in Wallets |-> Row(t, w)]
      /\ posted' = posted \cup {job[t].ref}
      /\ entries' = [w \in Wallets |-> entries[w] \o log[t][w]]
  BY DEF IInv, Commit
<1>2. job[t] \in Postings /\ Rows(t)
  BY <1>1, InLines
<1>3. balance' \in [Wallets -> Int]
  <2>1. \A w \in Wallets : Row(t, w) \in Int
    BY <1>1 DEF TypeOK, Row
  <2> QED BY <1>1, <2>1
<1>4. NoOverdraft'
  BY <1>1, <1>2 DEF NoOverdraft, Rows
<1>5. posted' \subseteq {p.ref : p \in Postings}
  BY <1>1, <1>2 DEF TypeOK
<1>6. entries' \in [Wallets -> Seq(EntryRow)]
  <2>1. ASSUME NEW w \in Wallets PROVE entries[w] \o log[t][w] \in Seq(EntryRow)
    <3>1. entries[w] \in Seq(EntryRow) /\ log[t][w] \in Seq(EntryRow)
      BY <1>1 DEF Shapes
    <3> QED BY <3>1
  <2> QED BY <1>1, <2>1
<1>7. EntriesChain'
  <2> SUFFICES ASSUME NEW w \in Wallets
               PROVE  Chain(OpeningBalance[w], entries[w] \o log[t][w], Row(t, w))
    BY <1>1 DEF EntriesChain
  <2>1. /\ Chain(OpeningBalance[w], entries[w], balance[w])
        /\ Chain(balance[w], log[t][w], Row(t, w))
    BY <1>1 DEF IInv, EntriesChain, Log
  <2>2. entries[w] \in Seq(EntryRow) /\ log[t][w] \in Seq(EntryRow)
    BY <1>1 DEF Shapes
  <2> QED BY <2>1, <2>2, ChainConcat
<1>8. ASSUME NEW u \in Txs \ {t}
      PROVE  /\ \A w \in DOMAIN mine[u] : balance'[w] = balance[w]
             /\ pc[u] = "lines" => job[u].ref \notin posted'
  <2>1. Exclusive(t, u) /\ Phase(u)
    BY DEF IInv
  <2>2. DOMAIN mine[u] \subseteq Wallets
    <3>1. CASE pc[u] = "lines"
      <4>1. job[u] \in Postings /\ Rows(u) /\ Finished(u) \in SUBSET DOMAIN job[u].lines
        BY <3>1, InLines
      <4> QED BY <4>1, PostingIsLines DEF Rows
    <3>2. CASE pc[u] # "lines"
      BY <2>1, <3>2 DEF Phase
    <3> QED BY <3>1, <3>2
  <2> QED BY <1>1, <2>1, <2>2 DEF Exclusive, Phase, Row
<1> QED BY <1>1, <1>3, <1>4, <1>5, <1>6, <1>7, <1>8, EndKeeps

LEMMA NextIInv == IInv /\ [Next]_vars => IInv'
<1> SUFFICES ASSUME IInv, [Next]_vars PROVE IInv'
  OBVIOUS
<1>1. CASE UNCHANGED vars
  <2>1. UNCHANGED <<balance, posted, pc, job, todo, mine, log, entries>>
    BY <1>1 DEF vars, ledgerVars, txVars
  <2>2. (TypeOK /\ Shapes /\ NoOverdraft /\ EntriesChain)'
    BY <2>1 DEF IInv, TypeOK, Shapes, NoOverdraft, EntriesChain
  <2>3. ASSUME NEW t \in Txs
        PROVE  (Phase(t) /\ Log(t))' /\ (pc[t] = "lines" => Rows(t)')
    <3>1. Untouched(t)
      BY <2>1 DEF IInv, Phase, Untouched
    <3>2. balance' \in [Wallets -> Int]
      BY <2>2 DEF TypeOK
    <3> QED BY <2>2, <3>1, <3>2, OthersKeep
  <2>4. \A t \in Txs : (pc[t] = "lines" => Rows(t))'
    BY <2>1, <2>3
  <2>5. \A t, u \in Txs : (t # u => Exclusive(t, u))'
    BY <2>1 DEF IInv, Exclusive
  <2> QED BY <2>2, <2>3, <2>4, <2>5 DEF IInv
<1>2. ASSUME NEW t \in Txs, NEW p \in Accepted, Begin(t, p) PROVE IInv'
  BY <1>2, BeginKeeps
<1>3. ASSUME NEW t \in Txs, AlreadyPosted(t) PROVE IInv'
  BY <1>3, RollbackKeeps DEF AlreadyPosted
<1>4. ASSUME NEW t \in Txs, NotPosted(t) PROVE IInv'
  BY <1>4, NotPostedKeeps
<1>5. ASSUME NEW t \in Txs, CreateTransaction(t) PROVE IInv'
  BY <1>5, CreateKeeps
<1>6. ASSUME NEW t \in Txs, ReferenceTaken(t) \/ NotEnough(t) \/ Abort(t) PROVE IInv'
  BY <1>6, RollbackKeeps DEF ReferenceTaken, NotEnough, Abort, Rollback
<1>7. ASSUME NEW t \in Txs, UpdateWallet(t) PROVE IInv'
  BY <1>7, UpdateKeeps
<1>8. ASSUME NEW t \in Txs, Commit(t) PROVE IInv'
  BY <1>8, CommitKeeps
<1> QED BY <1>1, <1>2, <1>3, <1>4, <1>5, <1>6, <1>7, <1>8 DEF Next, Step

LEMMA Invariant == Spec => []IInv
BY InitIInv, NextIInv, PTL DEF Spec

-----------------------------------------------------------------------------
(* What the postings promise *)

\* Every variable keeps its type, and the rows a transaction has updated are those of
\* its own posting.
THEOREM TypeCorrect == Spec => []TypeOK
<1>1. IInv => TypeOK
  BY DEF IInv
<1> QED BY <1>1, Invariant, PTL

\* Every committed entry of a wallet continues from the balance the entry before it left,
\* and the last one is the balance of the wallet, however postings interleave.
THEOREM ChainUnbroken == Spec => []EntriesChain
<1>1. IInv => EntriesChain
  BY DEF IInv
<1> QED BY <1>1, Invariant, PTL

\* Only a transaction in its lines holds rows, and those it holds do not rank above the
\* row it needs next.
LEMMA HeldIsBelow ==
  ASSUME IInv, NEW u \in Txs, NEW w \in DOMAIN mine[u]
  PROVE  /\ pc[u] = "lines"
         /\ InLoop(u) => Rank[w] < Rank[NextWallet(u)] \/ w = NextWallet(u)
<1>1. pc[u] = "lines"
  BY DEF IInv, Phase
<1>2. ASSUME InLoop(u) PROVE Rank[w] < Rank[NextWallet(u)] \/ w = NextWallet(u)
  <2>0. DOMAIN mine[u] = {job[u].lines[i].wallet : i \in Finished(u)}
    BY <1>1 DEF IInv, Rows
  <2>1. PICK i \in Finished(u) : w = job[u].lines[i].wallet
    BY <2>0
  <2>2. Before(job[u], i, NextLine(u))
    BY <1>1, <1>2, InLines, NextLineIs DEF Rows
  <2> QED BY <2>1, <2>2 DEF Before, NextWallet
<1> QED BY <1>1, <1>2

\* The claim above the sort in ledger.service.ts.  Of the transactions in their lines,
\* those whose next wallet ranks highest wait at most for each other; the one of them
\* that holds that wallet, if there is one, waits for nobody.
LEMMA SomeoneGoesOn ==
  ASSUME IInv, NEW S \in SUBSET Txs, S # {}
  PROVE  \E t \in S : \A u \in S : ~WaitsFor(t, u)
<1>1. CASE \E t \in S : pc[t] = "lines" /\ todo[t] = {}
  <2>1. PICK t \in S : pc[t] = "lines" /\ todo[t] = {}
    BY <1>1
  <2>2. \A u \in S : ~WaitsFor(t, u)
    BY <2>1 DEF WaitsFor, InLoop
  <2> QED BY <2>2
<1>2. CASE \A t \in S : pc[t] # "lines"
  <2>1. \A t, u \in S : ~WaitsFor(t, u)
    BY <1>2, HeldIsBelow DEF WaitsFor
  <2> QED BY <2>1
<1>3. CASE /\ \E t \in S : pc[t] = "lines"
           /\ \A t \in S : pc[t] = "lines" => todo[t] # {}
  <2> DEFINE D == {t \in S : InLoop(t)}
             rank == [t \in D |-> Rank[NextWallet(t)]]
  <2>1. \A t \in S : pc[t] = "lines" => t \in D
    BY <1>3 DEF InLoop
  <2>2. \A t \in D : NextWallet(t) \in Wallets /\ rank[t] \in Nat /\ rank[t] = Rank[NextWallet(t)]
    BY NextLineIs, LedgerTxAssumption
  <2>3. PICK t \in D : \A u \in D : rank[u] <= rank[t]
    <3>1. IsFiniteSet(D) /\ D # {}
      BY <1>3, <2>1, LedgerTxAssumption, FS_Subset
    <3>2. \A u \in D : rank[u] \in Nat
      BY <2>2
    <3> HIDE DEF D, rank
    <3> QED BY <3>1, <3>2, GreatestRank
  <2> DEFINE w == NextWallet(t)
  <2>4. CASE \E u \in D : NextWallet(u) = w /\ w \in DOMAIN mine[u]
    <3>1. PICK u \in D : NextWallet(u) = w /\ w \in DOMAIN mine[u]
      BY <2>4
    <3>2. \A v \in S : ~WaitsFor(u, v)
      BY <3>1 DEF WaitsFor, InLoop, IInv, Exclusive
    <3> QED BY <3>2
  <2>5. CASE ~ \E u \in D : NextWallet(u) = w /\ w \in DOMAIN mine[u]
    <3>1. ASSUME NEW v \in S, WaitsFor(t, v) PROVE FALSE
      <4>1. w \in DOMAIN mine[v]
        BY <3>1 DEF WaitsFor, InLoop
      <4>2. v \in D
        BY <2>1, <4>1, HeldIsBelow
      <4>3. Rank[w] < Rank[NextWallet(v)] \/ w = NextWallet(v)
        BY <4>1, <4>2, HeldIsBelow
      <4>4. rank[v] <= rank[t] /\ rank[v] = Rank[NextWallet(v)] /\ rank[t] = Rank[w]
            /\ rank[v] \in Nat /\ rank[t] \in Nat
        BY <2>2, <2>3, <4>2
      <4> QED BY <2>5, <4>1, <4>2, <4>3, <4>4
    <3> QED BY <3>1
  <2> QED BY <2>4, <2>5
<1> QED BY <1>1, <1>2, <1>3

\* No transactions wait for one another in a circle, whatever wallets their postings
\* name and in whatever order: the wait that the sort by wallet id is there to prevent.
THEOREM CircularWaitImpossible == Spec => []NoCircularWait
<1>1. IInv => NoCircularWait
  BY SomeoneGoesOn DEF NoCircularWait
<1> QED BY <1>1, Invariant, PTL

\* A commit is Ledger's Post of the transaction's posting, and nothing else touches the
\* committed balances.
LEMMA StepPosts ==
  ASSUME IInv, [Next]_vars
  PROVE  [AtomicNext]_ledgerVars
<1>1. ASSUME NEW t \in Txs, Commit(t) PROVE AtomicNext
  <2>1. /\ pc[t] = "lines" /\ todo[t] = {}
        /\ balance' = [w \in Wallets |-> Row(t, w)]
        /\ posted' = posted \cup {job[t].ref}
    BY <1>1 DEF Commit
  <2>2. /\ job[t] \in Postings /\ job[t] \in Accepted /\ job[t].ref \notin posted
        /\ \A w \in Wallets : Row(t, w) = balance[w] - Debit[job[t]][w] + Credit[job[t]][w]
        /\ Covered(Debit[job[t]])
    BY <2>1, InLines, WhatIsPosted
  <2>3. Post(job[t].ref, Debit[job[t]], Credit[job[t]])
    BY <2>1, <2>2 DEF Post
  <2>4. CanPost(job[t].ref, Debit[job[t]], Credit[job[t]])
    BY <2>2 DEF CanPost, Accepted
  <2> QED BY <2>2, <2>3, <2>4 DEF AtomicNext
<1>2. ASSUME NEW t \in Txs, Step(t), ~Commit(t) PROVE UNCHANGED ledgerVars
  BY <1>2 DEF Step, AlreadyPosted, NotPosted, CreateTransaction, ReferenceTaken, UpdateWallet,
              NotEnough, Rollback
<1>3. ASSUME NEW t \in Txs, NEW p \in Accepted, Begin(t, p) PROVE UNCHANGED ledgerVars
  BY <1>3 DEF Begin
<1>4. ASSUME NEW t \in Txs, Abort(t) PROVE UNCHANGED ledgerVars
  BY <1>4 DEF Abort, Rollback
<1>5. CASE UNCHANGED vars
  BY <1>5 DEF vars
<1> QED BY <1>1, <1>2, <1>3, <1>4, <1>5 DEF Next

\* Postings made statement by statement, interleaved, aborted and asked for again, are
\* the atomic postings of Ledger: once per reference, all lines or none, never leaving a
\* user overdrawn.
THEOREM Atomicity == Spec => PostsAtomically
<1>1. Init => LedgerInit
  BY DEF Init
<1>2. IInv /\ [Next]_vars => [AtomicNext]_ledgerVars
  BY StepPosts
<1> QED BY <1>1, <1>2, Invariant, PTL DEF Spec, PostsAtomically
=============================================================================
