# A model of bani-backend

TLA+ modules for the core of bani-backend, the NestJS/Prisma/PostgreSQL backend of
a marketplace: orders and their money, deliveries, the double-entry ledger, the job queue,
the freight market, and the market place around the orders (accounts and sessions, sellers,
stores, staff, delivery zones, catalogue, carts). Paths below are relative to the repository; the application's own code
is in `src/`.

## 1. The system

Every HTTP request is a handler in a service class; the state is in PostgreSQL;
several processes may serve requests, and the cron rounds run in each of them.
Handlers share no state in memory (a Redis cache holds answers of the public catalogue
only), so all concurrency is between handlers that read and write the same rows. The pattern of nearly every handler is:
read rows, check, then open a transaction whose first write is conditional
(`updateMany` with the expected status, `count === 0` means somebody was faster).
Whatever is checked only on the early read may be stale in the transaction.

| Part | State | Operations | Hard behaviour | What makes it correct |
|---|---|---|---|---|
| ledger, wallets (`finance/`) | `wallets.balance`, `transactions` (unique reference), `ledger_entries` | `post`, `postWithTx`; `topup`, `withdraw`, `transfer` | row locks in several orders, repeated requests, overdraft found after the write | all lines or none, once per reference, no overdraft, unbroken `balanceAfter` chain, no deadlock |
| orders (`orders/`) | `orders` (status, paymentStatus), `order_groups`, cart, stock | `checkout`, `checkoutCarsiMultiStore`, `updateStatus`, `cancel` | stale balance and stock, cancel against delivery, one payment for several orders | escrow holds the open orders, no overselling, paid out once |
| delivery (`delivery/`) | `deliveries` (status, courier, yontem, code, attempts) | `claim`, `pickup`, `deliver`, `aracikurumaVer` | couriers race; two tables move together but each transaction checks one | tables agree, courier kept, fee to the holder, code confirmed |
| job queue (`kuyruk/`) | `is_kuyrugu` | `ekle`, `isle` = rescue, claim, run, record | overlapping rounds, lost workers, stale attempt counts | one worker per job, given up only when tried, every job ends |
| catalog and stock (`catalog/`) | products, variants, option groups, options, media, categories | seller edits, `updateProduct`'s compare-and-set, approval | edits against sales; a return to another row than the sale's; prices stored in parts; changed content after approval | no edit of a product overwrites a sale, every price is the sum of its parts |
| pricing (`delivery/pricing.ts`, `common/domain/varyant.ts`) | none | freight table, commission, VAT, rounding, surcharges | integer rounding, parts stored with the product and distributed much later | the parts add up |
| cart (`cart/`) | carts, items, chosen options | `addItem`, `updateItem`, `removeItem`, `clear` | statement by statement, two windows | a line's price can be paid out |
| approval (`approval/`), delivery zones (`market/`) | change requests with base and proposal, `deliveryZoneRevision`, zones, the platform's service areas | submit, approve, reject; replace by the panel | supersession against approval, stale base | approved is what the reviewer saw |
| sellers, stores, staff (`market/`) | sellers (status, verification), documents, stores, memberships, store roles | application, review, sanctions, first store, staff and roles | administrators, the seller and documents change one row | transitions follow `NEXT_STATUS`, granted only if verified, one first store |
| auth (`auth/`, `users/`, `common/rbac/`) | users (status), roles, OTP requests, refresh tokens, transfer codes | `requestOtp`, `verifyOtp`, `guestSession`, `refresh`, `logout`, session transfer, `setStatus`, `assignRoles` | single use under repetition, sanction against log-in | a sanction holds, a code opens one session |
| freight market, house moving (`load/`) | loads, vehicles, house moves, their offers, commission payments, documents, ratings | offers, counter-offers, acceptance, survey and lock, start, completion, ratings, hourly clean-up | acceptance races, writes by id on stale reads, a clean-up without a transaction | one winner, no change after a lock, ratings count once, the clean-up wins |
| response cache (`common/cache/`) | catalogue answers in Redis | clear after a write | a read stored after the clear | stale for a time to live at most |
| notifications, insurance, holding, superadmin, addresses, newsletter, partner | single rows | CRUD, one external SMS call | none of their own | not modelled |

The parts meet as follows. Checkout and cancel and deliver call `postWithTx` inside
their own transaction, so an order and its money commit together; `gecis` of
`order-status.service` is the conditional status write that delivery and orders
share; the SMS with the delivery code is sent after the commit and its failure is
swallowed; the queue calls the notification and insurance services as job handlers. Every
handler stands behind two gates that read the database anew: `JwtStrategy.validate` (the
account is not closed) and `PermissionsGuard` (one of its roles carries the permission);
handlers of a store's panel then ask `assertOwner`, which knows owner, staff and
administrators. A seller's status decides whether his goods can be bought; checkout takes
what the cart holds and the stock the catalogue edits.

## 2. Modules

| Module | Models | Extends |
|---|---|---|
| `Ledger` | a posting as one atomic step, and the three finance operations | – |
| `LedgerTx` | `postWithTx` statement by statement under PostgreSQL's row locks | `Ledger` |
| `EscrowPromise` | abstract: the money of an order is taken as a whole and paid out at most once | – |
| `OrderFlow` | orders and delivery over the atomic ledger | `Ledger`; instantiates `EscrowPromise` |
| `Kuyruk` | the job queue | – |
| `LoadHesap` | freight market: the tables, and the gates (debt, contract, documents), payments and documents all boards share | – |
| `YukPazari`, `AracPazari`, `EvdenEve` | the boards: loads, vehicles, house moves | in this order, from `LoadHesap` |
| `LoadMarket` | the boards together, ratings, the hourly clean-up, crashes, properties | `EvdenEve` |
| `Istek` | what a request is: a handler between two statements | – |
| `Kullanici` | accounts, roles, permissions, OTP, sessions, transfer, sanctions | `Istek` |
| `Satici` | sellers, documents, review, the first store | `Kullanici` |
| `Kadro` | staff, roles in a store, who may use its panel | `Satici` |
| `Onay` | delivery zones and change requests | `Kadro` |
| `Fiyat` | the price calculator, as operators | – |
| `Katalog` | products, variants, options, pictures, categories, stock | `Kadro`, `Fiyat` |
| `Sepet` | carts | `Katalog` |
| `Pazaryeri` | all of these over one database, crashes, properties | `Onay`, `Sepet` |
| `SumLemmas` | lemmas: induction over finite sets, and what a change does to a sum | – |
| `OrderFlowProofs` | proofs: the tables of an order, its payment, the refinement; then the sums and counters of an order (money, escrow, stock, wrong codes) | `OrderFlow`, `SumLemmas` |
| `LedgerTxProofs` | proofs: locks, entry chains, atomicity | `LedgerTx`, `SumLemmas` |
| `KuyrukProofs` | proofs about the queue | `Kuyruk` |
| `LoadMarketProofs` | proofs about the freight market | `LoadMarket`, `SumLemmas` |
| `PazaryeriProofs` | proofs about people: the seller's status, the first store, sanctions | `Pazaryeri` |
| `PazaryeriRecords` | proofs about records read in one statement and written in another: change requests, transfer codes, stock | `PazaryeriProofs` |
| `PazaryeriGoods` | proofs about prices and their parts, and about the rows of all tables of the market place | `PazaryeriRecords`, `SumLemmas` |
| `MCOrderFlow`, `MCLedgerTx`, `MCKuyruk`, `MCLoadMarket`, `MCPazaryeri` | instances for TLC | their module |

`Ledger` is what the order system relies on; `LedgerTx` is how the code gets there.
The property `PostsAtomically` (run `ledger_tx`) ties them: under it, what
`LedgerTx` commits is a behaviour of `Ledger`'s `Post`, which justifies that
`OrderFlow` treats a posting as part of one step. `OrderFlow` in turn implements
`EscrowPromise` (`KeepsPromise`), with the money of an order read off the references
posted in the ledger.

Operators marked *Mistake* are not part of the model. Each is a definition as a
plausible error would have it (a check made before the transaction and not again, a
lock forgotten, a count off by one). Put in the place of the real one it must make a
property fail; `PROJECT.json` pairs them with the properties.

### OrderFlow and the code

A handler is two actions. `...Read` is everything up to the transaction: it fails
silently when the handler would answer an error (a refused request changes nothing),
and remembers in `req[r]` what the handler keeps using. `...Commit` is the
transaction, which checks only what the code checks again there. `Refused` is the
transaction that throws and rolls back. Between the two, any other handler may
commit. A transaction is one step because it runs at READ COMMITTED with its
conditional write on a row that every competitor must also write, and that row stays
locked until the commit.

| Model | Code |
|---|---|
| `orders[o].status`, `.pay` | `orders.status`, `orders.paymentStatus` |
| `deliveries[o]` | the order's row in `deliveries`: status, courierId, yontem, teslimKodDeneme, `dogrulandi` = teslimKodDogrulandiAt is set |
| `stock`, `cart`, `accepts` | `products.stock`; the cart's items by store; "the store passes checkout's gates" |
| `CheckoutRead` / `CheckoutCommit` | `checkout`, and `checkoutCarsiMultiStore` for carts with several stores |
| `UpdateStatus` | `updateStatus` (one transaction) |
| `CancelRead` / `CancelCommit` | `cancel` |
| `ClaimRead` / `ClaimCommit`, `PickupRead` / `PickupCommit` | `claim`, `pickup` |
| `DeliverRead` / `DeliverCommit` / `WrongCodeCommit` | `deliver`; the code itself is abstracted to right or wrong |
| `AraciRead` / `AraciCommit` | `aracikurumaVer` |
| `ToggleStore` | a seller suspended or reinstated, a shop opened or closed |
| `Finance` | `topup`, `withdraw`, `transfer` |

Amounts are integers of kurus, as the code's `BigInt`s; the split of a price
(commission by integer division, the rest to the seller, freight free above a
threshold) is the code's, so that `Balanced` is a real check and not an assumption.
`status = "REFUNDED"` and the delivery's `PENDING` order status exist in the schema and
are never written by a handler; they stay in the types.

### LedgerTx and the code

`pc` is the place in `postWithTx`: `check` (findUnique on the reference), `create`
(insert of the transaction row, where the unique index makes a competitor wait),
`lines` (one UPDATE and one ledger entry per line, in the order of wallet ids),
then commit. `mine[t]` are the rows t has updated and so locked, `log[t][w]` the entries it has
written for wallet w. `Abort` rolls back
anywhere: a lost connection, a time-out, a crash. PostgreSQL's locks, its waiting for
an uncommitted unique key and its rollback are external and modelled from how the
code relies on them. A client may `Begin` a posting again whatever came of it. What a posting
is comes from the callers: at least two lines, positive amounts (`post` refuses the rest), and
the debit of a user before a credit to the same user, which only `transfer` to oneself has. An
overdraft is checked on the row after each debit, so with the credit first the check would be
passed on money the posting itself brings.

### Kuyruk and the code

A round (`isle`) is `KilitleriKurtar`, then up to `TurBoyu` times `Pick` (findFirst),
`Claim` (updateMany), `Calistir` (the handler), `Tamam` or `Basarisiz`. `seen` is the
`denemeSayisi` of the row that was read, which the catch block later writes plus one.
`CutOff` is a process that stops or a round that ends on a database error. Time is
two flags: `due` (calistirZamani has passed) and `old` (updatedAt is older than
KILIT_ZAMAN_ASIMI_DK). `old` is set only on jobs no round is running: a live handler
is assumed to end within those ten minutes.

### LoadMarket and the code

`ilan` and `teklif` stand for the three pairs of tables (`yuk_ilanlari`, `arac_ilanlari`,
`ev_ilanlari` and their offers); `.tur` says which. A handler with a read and a later write
is `...Oku` and `...Yaz`; `req[r]` keeps what it has read. A write by id alone has no guard in
`...Yaz`, a conditional one has the code's condition and `Cakisma` when it fails.
`KomisyonBorcu` computes the debt from the finished jobs and the approved payments on every
call, as `komisyonBorcu` does; nothing stores it. `GunGecer` lets a listing pass the limit of
days, `OtomatikTemizlik(r, k)` is the k-th of the four statements of the cron job (two boards,
listings and then offers), and `Durur` cuts any handler, the cron job included, off between
two of them. Profiles, lists and return trips (`donusVer`, `donusDavet`) are left out.

### Pazaryeri and the code

| Model | Code |
|---|---|
| `kul`, `rol` | `users.status`; `user_roles` as triples of user, role and store |
| `otp`, `jeton`, `devir` | `otp_requests`, `refresh_tokens`, `transfer_codes`, a row per entry |
| `satici`, `belge`, `imza`, `magaza` | `sellers`, `satici_belgeleri`, accepted contracts, `stores` |
| `uyelik`, `kapsam`, `bolge`, `talep` | memberships, `platform_hizmet_bolgeleri`, a store's zones with their revision, `change_requests` |
| `urun`, `varyant`, `grup`, `secenek`, `bag`, `medya`, `resim`, `kategori` | the catalogue's tables; nullable columns are sequences of at most one value |
| `sepet`, `kalem` | `carts.storeId`, `cart_items` with their chosen options |
| `satis` | the order items: what checkout took from the shelf and cancel may return. `yer` and `iade` are no columns: the row (product or variant) the piece was taken from, and the one it was given back to |
| `defter` | no table: the stock a product began with and what its editors meant to add. Orders do not write it, so that `SatisEzilmez` compares the shelf with two accounts kept apart |
| `req`, `isler` | no tables: the handlers under way; the handlers clients call in a scene |

`Basla` is a handler up to its first await after which it uses what it has read, `Gec` a later
statement, `Bitir` its answer. A handler whose condition and write are one statement, or whose
transaction locks the row it reads (`create`, the first store), is a step with the code's
condition. Constants are the bodies of requests (`YeniUrunler`, `UrunDegisiklikleri`, ...),
records of the fields given, so that `Ustune(dto, row)` is an update. What the rows of a scene
may be is stated beside the row sets (`SaticiRow`, `DevirRow`, ...) as assumptions:
`SaticiSahneleri`, `MagazaSahneleri` (a store has an owner, no user has two), `OturumSahneleri`
(roles have their scope, no code has been tried too often), `TalepSahneleri` (one request waits in
a store), `RafSahneleri` (goods belong to stores, a BaniCarsi price is the sum of its parts,
categories are one level deep); `RafGovdeleri` says that the numbers in the bodies of requests
are natural, as the DTOs' validation has it (a weight is the desi it is rounded up to). `IzinTablosu` is the content
of `role_permissions`; every endpoint names its permission in a `...Uclari` record and asks
`Izinli` or `PanelIzni`. Reading the roles and the first read of the handler are one step.
Where a handler only reads, in several statements, before it first writes, and its write does not
depend on all of them being of one moment, they are one step too: the reads of profile, documents
and contracts in `saticiOnayaGonder` (its write asks for the status again), and those of product,
variant, options and cart in `addItem` (the line keeps what was read, and no property needs them
to agree with each other). Checkout chooses
between the variant's stock and the product's by the cart it has read before its transaction; here
the choice and the taking are one step.

Abstractions: a user is his telephone number, a code or token is its row, the keywords of the
VAT rules are rule names, names and slugs are unique because rows are, the business unit a
client sends in `X-Bani-Dikey` is the store's. `commissionRate` is a constant: no code of the
repository changes it. It is 850 (a rate in basis points) in the run and `KomisyonOran` cuts it
down to 8 per cent, as the code does. `ApprovalService` is called by no controller yet;
the model lets clients call its three operations with the arguments its types admit.

## 3. Runs

| Run | Instance | Shows |
|---|---|---|
| `order_flow` | 2 customers, 2 orders, 2 handlers at a time, 1 store with 2 units (baskets of 1 and 2), 2 couriers, 1 super administrator, one wrong code allowed | all safety properties of an order's life, and the refinement of `EscrowPromise` |
| `carsi_checkout` | 1 customer, a cart of 2 CARSI stores, up to 3 orders, finance requests with one reference, one store that stops and resumes | one payment for several orders, no overdraft whatever is moved between check and posting |
| `order_pays_out` | 1 order, 2 handlers, 2 wrong codes allowed | liveness |
| `ledger_tx` | 3 transactions, 3 postings: two whose callers write their lines in opposite orders, one of them with two lines on one wallet, one that can be short of money after it has written another wallet | no circular wait, unbroken entry chains, atomicity, termination |
| `kuyruk` | 2 rounds, 2 jobs, 2 attempts, 2 rounds cut off | one worker per job, no early giving up, final outcomes, every job ends |
| `load_market` | 1 firm, 2 carriers, 1 manager, 2 listings, 3 offers, 2 handlers, 1 counter-offer allowed; four openings: an empty market of all three boards, a vehicle with two countered offers, a paid house move with an offer, two finished jobs | one winner, nothing changes after a lock, bounded bargaining, ratings, the clean-up |
| `pazaryeri` | 3 users (merchant, second person, super administrator), 2 stores, 2 handlers at a time, fifteen scenes | sanctions, transfer codes, the seller's life, the first store, zones and approvals, stock, prices |
| `araci_race`, `araci_stuck`, `kuyruk_stale`, `kuyruk_loop`, `load_kabul` | the smallest of the above | violations, section 6 |

Why the bounds are enough to be interesting. Two handlers at a time give every pair
race between a stale read and a commit, and every safety property the runs check is
proved for any number (section 5). Two orders compete for stock; in
`carsi_checkout` they also share one payment. One basket is under the free-delivery
threshold and one at it, so settlements with and without a courier's line occur; the commission
on the first (19999 at 15 per cent) is cut down to a whole kurus. In
`ledger_tx` two transactions can wait for each other while a third takes their rows in
between. In `kuyruk` two
cut-offs let a job use up its attempts by rescues alone. Orders are created and never
deleted, so the number of orders bounds the run and the system stops when all are used:
those runs do not check for deadlock. `ledger_tx` and `kuyruk` do.

`load_market` starts in four states in which a race is about to happen, so that each of them
can be taken to its end with two handlers in between; `i2` is an old job, there to make the
commission debt and the second rating real. Both locks are
switches of the environment: the one for unpaid commission is on here and the one for
documents off. A carrier without the contract and one with an
unpaid job are both refused in it. In `pazaryeri` a scene limits who calls what: the modules
share one database, but a race needs two handlers on the same rows, and the scenes
put together the handlers that write a common row (zones with requests and the platform's areas,
documents with decisions and sanctions, the first store with sanctions and profile edits,
stock with sales and approval, cart with surcharges and prices). Two requests are
interchangeable, so the run uses symmetry over them; it checks no liveness. Requests, rows
and revisions are bounded, so both runs may stop: they do not check for deadlock.

Properties, by hazard:

- *Money.* `EscrowHoldsOpenOrders`: escrow is exactly the sum of the paid and still
  open orders. `PayoutMatchesOrder`: the references posted are what paymentStatus
  says. `KeepsPromise`: taken as a whole, paid out at most once. `NoOverdraft`,
  `MoneyConserved` (also for a transfer to oneself, two lines on one wallet).
- *Stock.* `StockAccounted`: shelf plus live orders is what there was; `TypeOK` adds
  that the shelf never goes below zero.
- *Two tables, one checked.* `DeliveryFollowsOrder`, `TerminalForGood`, `CourierKept`,
  `FeeToHolder` (the whole fee to one entitled user, and no other balance of a user moves but
  the store owner's).
- *Stale counter.* `AttemptsBounded`: overlapping wrong codes can pass the limit, each
  handler by at most one. The bound says exactly by how much.
- *Posting.* `NoCircularWait`, `EntriesChain`, `PostsAtomically`, `PostingsEnd`.
- *Freight.* `TekKazanan` (two rows decide an acceptance together), `EvKilitKesin` (whatever
  survey, offer or retry is late), `PazarlikSinirli` and `PuanTek` (a limit and an average
  written on stale reads: off by at most one per handler, never double), `TemizlikYetisir`.
- *Accounts.* `YaptirimKalir` (a log-in under way against a sanction), `DevirTek`.
- *Sellers.* `SaticiGecisleri`, `TekIlkMagaza`.
- *Zones.* `OnayTaban`: the base a request was submitted on is the base it is applied to.
- *Catalogue.* `SatisEzilmez` (absolute edits of a product's stock against what orders take from
  it and give to it; whether they choose the right row is section 6's subject), `DagitimTutar`
  (after any sequence of edits to product, variant, options and cart, a price is the sum of
  the parts that checkout will distribute).
- *Queue.* `OneWorkerPerJob`, `GivenUpOnlyWhenTried`, `OutcomeForGood`, `JobsEnd`.

## 4. Fairness

- `OrderFlow`: a handler that has begun its transaction ends it (weak, `Commit`); a store with
  an order works on it (weak, `UpdateStatus`); couriers keep asking for what they may take,
  pick up or deliver (strong: their request may find all of `Requests` busy, which is a bound
  of the model and none of the server). Nobody is obliged to cancel, to enter a wrong
  code, or to hand over to a carrier firm, so `OrderPaysOut` names the two dead ends the code has.
- `LedgerTx`: every transaction goes on (strong, because it may have to wait for a row
  more than once): PostgreSQL queues those who wait for a lock.
- `Kuyruk`: the cron starts rounds every minute and rounds go on (weak); time passes
  (weak). Handlers may fail for ever. Cut-offs are bounded; with unboundedly many of them
  `JobsEnd` would be false, which is what `kuyruk_loop` is about.
- `LoadMarket`: a handler that has read goes on to write or its process stops (weak); each
  statement of the clean-up is reached again and again (strong: the cron job runs every hour in
  every process, and may find `Requests` busy or be cut off, but not at the same place for ever).
  No user is obliged to do anything.
- `Pazaryeri`: none; no property of it needs any.

## 5. Proofs

The theorems hold for any number of users, orders, wallets, transactions, jobs, rounds, listings,
offers and requests under way, and for every value of the other constants that satisfies the
named assumptions. TLC evaluates each assumption in the runs.

| Assumption | Says | Because |
|---|---|---|
| `WalletsAssumption` | finitely many users; users, escrow and platform have different wallets; no user starts overdrawn | unique keys of `wallets`; a wallet is created with balance 0 |
| `LedgerTxAssumption` | finitely many transactions; postings as described in section 2; ids order the wallets | the checks of `postWithTx` and its callers; ids are unique |
| `FiniteAssumption`, `PeopleAssumption`, `GoodsAssumption`, `CartsAssumption`, `RatesAssumption`, `LimitsAssumption` | finite tables; roles are users; a basket holds the products of its store, a cart one basket of each store; the commission is at most 10000 basis points; fees and limits are natural numbers | foreign keys; `checkout` groups the cart by store; constants of the code |
| `KuyrukAssumption` | jobs have numbers, the limits are positive | autoincrement id; constants of the code |
| `LoadAssumption`, `OpeningsAssumption` | firms and carriers are users, prices natural, stars 1 to 5; a run starts from tables that agree (`Tutarli`) | the DTOs' validation; the empty market agrees |
| `KullaniciAssumption`, `SaticiAssumption` | finitely many requests under way, at least one; a limit of tries above zero; sanctions are statuses, assigned roles are roles; "no user" and "no store" are none | the DTOs' enums and validation; constants of the code |
| the `...Sahneleri` of `Pazaryeri` | a scene's rows are rows of their tables, a store has one owner and nobody two stores, no session came from a transfer code, a pending request is the only one of its store and based on the zones as they are, goods belong to stores and lines of carts to goods, prices in BaniCarsi are the sums of their parts | the empty database satisfies them all |
| `RafGovdeleri`, `FiyatAssumption` | prices, weights, rates, stocks and surcharges in requests are natural numbers; the freight table has no holes; the commission rate is at most 10000 | the DTOs' `@Min(0)` and `@IsInt`; constants of the code |

None of the properties is inductive: the tables can be as the property wants them in a state in
which a handler remembers something that will break them. Every `IInv` below adds what a
handler between two statements still knows of what it has read. TLC checked
each part on the runs' instances before it was proved.

**Sums** (`SumLemmas`). The library states induction for an operator, which the provers cannot
instantiate. `SumLemmas` takes the set of the things that satisfy the claim instead, and a
minimal element of its complement under a well-founded order (`WFMin`); so finite sets, their
folds and hence `SumFunctionOnSet` can be reasoned about: the sum of nothing, of one element more,
of two functions that agree, of a function changed at one point or at several.

**OrderFlow** (`OrderFlowProofs`). `IInv` adds

- `RowsOK`: each order with its delivery is in one of six joint stages (`Fresh`,
  `Preparing`, `ReadyToGo`, `OnTheWay`, `Delivered`, `Cancelled`), which is what the handlers
  silently rely on when they check one table only;
- `PostedOK`: which references are posted for an order, given its payment status;
- `RequestsOK`: the part of what a handler has read that stays true until its
  transaction: the order it read exists, and a delivery read as ASSIGNED has a courier, which is
  why `pickup` may write the delivery by id alone.

`Invariant` is proved by a lemma per action (`CheckoutStep` for the one action that
writes several orders, `OneOrderStep` for the others). From it follow `TypeCorrect`,
`PayoutsAgree`, `TablesAgree`, and, as steps, `TerminalStays` and `CourierStays`.
`NeverOverdrawn` needs only that every step that changes balances is one accepted posting
(`StepPosts`). `PromiseKept` is the refinement: `MoneyIsPay` shows that the references say
what the payment status says, so a checkout is `Take`, a delivery `Release`, a
cancellation `Refund`, and every other step a stutter.

**The books of OrderFlow** (`OrderFlowProofs`, second half). `Books` says that all wallets together hold what
they were opened with, escrow holds the totals of the paid orders (`EscrowBook`), every piece is
on the shelf or in a live order (`StockBook`), and the wrong codes counted plus those on their
way stay within the bound (`AttemptsBook`). Its inductive part is `HandlersKnow`: a checkout still
has one basket of each store, a cancellation returns the basket of its own order, and who has
been let through `deliver` is a super administrator or the courier who still holds the delivery.
The hard step is the checkout of several stores, which adds several terms to each sum with one
posting. `MoneyIsConserved`, `EscrowAccounted`, `StockIsAccounted`, `AttemptsAreBounded` and
`FeeReachesHolder` follow; the last one needs that whoever is still in `deliver` holds the
delivery (`HandlersKnow`), and that the settlement was not posted before (`PostedOK`), so that each
user's balance moves by his lines of it and by nothing else.

**LedgerTx** (`LedgerTxProofs`). `IInv` adds where each transaction is (`Phase`), that no two have
written the same row or insert the same reference (`Exclusive`), and, for a transaction
in its lines, that it has done a prefix of the order of ids and that its copy of a row is the
committed balance plus what its own lines moved (`Rows`), with entries that lead from one to the
other (`Log`). `TypeCorrect` and `ChainUnbroken` (`EntriesChain`) follow. `CircularWaitImpossible`: whoever waits
for a row holds rows of lower rank only, so in a circle the row of `GreatestRank` would be waited
for by nobody. `Atomicity` is the refinement `PostsAtomically`: the commit is `Post` of
`Ledger`, since at the end the copies are the balances after all lines (`SideIsMoved`) and no user is
below zero; every other statement is a stutter.

**Kuyruk** (`KuyrukProofs`). `IInv` adds `JobsOK` (the count never exceeds the runs; the flags fit the
state), `WorkersOK` (the count a round remembers is at most the runs so far, and below them
once it runs) and `OldIsLost` (only a job nobody runs grows old), the fact that makes
the rescue safe. `TypeCorrect`, `OneAtATime`, `TriedBeforeGivenUp` and `OutcomeStays` follow.

**LoadMarket** (`LoadMarketProofs`). `IInv` is `Tutarli` (per listing and offer, how the two tables
agree: a matched vehicle or a locked house move has its one accepted offer), `Istekler` (what a
handler has read that no other handler can change), `Pazarlik` (the rounds of an offer plus the
counter-offers on their way to it), and `Degerler` and `Sayilir` (every count of ratings, written or
about to be, is at most the ratings that exist). Most steps are alike to most of these; the lemmas
sort them into those that only move the tables forward, those that bargain and those that rate.
`TypeCorrect`, `OneWinner`, `LockIsFinal`, `BargainingEnds` and `RatingsCountOnce` follow.

**Pazaryeri** (`PazaryeriProofs`, `PazaryeriRecords`, `PazaryeriGoods`). The module has seven parts and one invariant
for all of them would be unreadable. The frame lemmas say, part by part, what its
steps leave alone (`...Korur`) and which statements its requests come to (`...Surer`); an
invariant is then shown only for the parts that write its tables.

- `SaticiInv`: rows are rows, and what a review or an edit has read of the seller. `StatusMovesOn`
  shows that whichever of the writers goes first, the status takes a step of `NEXT_STATUS`, and
  an application is granted only with the verification and the role in the same statement.
- `MagazaInv`: a request that has come to the creation of the first store holds its owner's row
  locked, so there is one such request per owner and no store of his. `OneFirstStore` follows.
- `SanctionsHold`: every write of `users.status` by a log-in is conditional on what it overwrites.
- `TalepInv`: two states of a store's zones with the same revision are the same zones
  (`TabanDogru`). It is why `approve` may compare numbers: `ApprovedAsSeen`.
- `DevirInv`: a used transfer code is held by at most one request or has opened one
  session, and an unused one neither (`TekTasiyan`). `OneSessionPerCode` follows.
- `StokInv`: only the conditional write brings a stock to a product, and after each statement a
  product's stock is `defter` plus the pieces given back to it less those taken from it
  (`Oynayan`, counted over `satis`). An edit moves shelf and `defter` by the same difference because
  the stock it overwrites is the one expected; a sale or a return moves shelf and count
  (`SatisAdim`, `IadeAdim`). `NoSaleOverwritten` follows. It speaks of the stock of products: a
  variant's is written without a condition.
- `MalInv`: goods. A product, a variant's own price and a line of a cart in BaniCarsi carry parts
  that add up to the price (`Dagitilir`), each belongs to a store or product that exists and never
  goes elsewhere, and a request between two of its statements holds the same of what it is about
  to write (`MalBilir`): all of a price with its parts or none of it. The step is one lemma for what
  any write may do (`MalAdimi`) and one per statement of `Katalog`, `Sepet` and the orders'
  part. Two things carry it: `PricePaysItsParts`, that `VitrinFiyatHesapla` splits every price
  without remainder, whatever integer division and rounding do; and that a price is copied whole,
  for a product's parts are recomputed from the row as merged with the body and an option's
  surcharge is split when the line is made. `PartsPayThePrice` follows, with `ToplamEsit` for the
  sum over the chosen options.
- `RowInv`: the rows of all tables, for `RowsStayRight`. Its parts need each other: a role is given
  in a store that exists (`Sahipli` of `MalInv`), the code a session names was used (`DevirInv`).
  New in it are `OtpInv`, `RolInv`, `UyelikInv`, `KategoriInv` and `TekBekleyen`. `OtpInv` counts: the
  wrong tries recorded for a code plus the requests that have found one wrong and not recorded
  it are at most `MAX_ATTEMPTS + Cardinality(Requests) - 1`, because a request compares only
  while fewer than `MAX_ATTEMPTS` are recorded, each request holds at most one wrong try, and
  recording it leaves the sum as it is. The bound of `TypeOK` alone is not inductive.
  `TekBekleyen` holds since `submit` marks the waiting request it read SUPERSEDED in the
  transaction that inserts, and the unique index refuses the insert when another one waits.

**Only model-checked.** Liveness under fairness (`OrderPaysOut`, `PostingsEnd`, `JobsEnd`,
`TemizlikYetisir`): the provers have no rule for `ENABLED`. Every invariant and every action property
of the passing runs is stated by a theorem.

## 6. Where code and comments disagree

1. `araci_race`: the comment above `deliver`'s ARACI check says a courier cannot complete
   a delivery handed to a carrier firm. The check is on the row read before the
   transaction; a hand-over that commits in between is not noticed, and the courier
   is paid the delivery fee.
2. `araci_stuck`: the same comment says such a delivery is confirmed over its tracking
   number. No handler does; the order stays ON_THE_WAY and its money in escrow. This
   is also the only way a CARSI order leaves READY, so `deliver`'s CARSI branch is never reached.
3. `kuyruk_stale`: the header of the queue says a job is given up after maxDeneme. The claim
   checks only `durum` of a row read earlier, and the failure writes that old count plus
   one; with two overlapping rounds and no crash a job runs more often.
4. `kuyruk_loop`: the comment above the rescue says the count goes up so that there is
   no endless loop. Nothing compares the count when the job is rescued or claimed.
5. `load_kabul`: the comment at `load.service.ts:509` calls the conditional write of the
   listing the lock against accepting twice. `teklifVer` goes around it: having read the load
   ACIK it writes TEKLIF_ALINDI by id, which takes a load matched meanwhile back, and a second
   offer is accepted. `TekKazanan` is therefore stated for vehicles and house moves only.
6. No run is about this one, but `Pazaryeri` has it: the comment at `orders.service.ts:778` says
   that restoring the stock mirrors the decrement, "else stock silently swells or is lost".
   `cancel` looks at what the variant holds *now*: a variant without a stock of its own is sold
   from the product, then `varyantGuncelle` gives it one, then the order is cancelled, and the
   piece goes to the variant. The product has lost it, and `satis` ends with `yer = "urun"`,
   `iade = "varyant"`. `SatisEzilmez` is therefore stated for what the edits overwrite only.

The models also show the following; no comment promises otherwise, so no run is about
them, and the properties are stated for what the code does protect.

- Freight: an offer inserted after its listing was matched stays BEKLIYOR until the clean-up;
  late `teklifReddet`, `teklifGeriCek`, `ilanIptal` and `aracIlaniKapat` overwrite a KABUL, a
  TAMAMLANDI or a listing whose commission is due, and the debt goes with it; a late
  counter-offer changes the price of an accepted one; two ratings of one user lose one share of
  the average; `kesinFiyatKabul` writes its contracts after its commit.
- Accounts: an OTP and a refresh token can each be used by two concurrent requests;
  two first log-ins write the roles twice; `assignRoles` deletes a MERCHANT added meanwhile.
- Sellers: `saticiGuncelle` decides on a stale status and may change a profile under review; a
  tax number changed after verification drops it to BEKLIYOR, and the next document
  recomputes ONAYLANDI from the old tax plate; a suspended seller can be reinstated with
  a verification that has lapsed; a role given while a membership is closed stays.
- Approvals: the zones' check of `submit` and its insert see different bases only if the
  panel commits in between, and then the request can never be approved; a later `submit`
  marks a request SUPERSEDED that was decided meanwhile.
- Catalogue: `varyantGuncelle` overwrites sales of the variant; approval publishes content changed
  since it was read; a picture made primary is shown without approval, and two of them at
  once leave none primary; a group can end up mandatory with a minimum of 0.
- Cart: two `addItem` of one user can leave two stores in a cart, two lines of one product, or
  one piece of two.

## 7. Not modelled, and the plan

Left out of `OrderFlow` on purpose: minimum order, notes and addresses, the delivery-code SMS,
wallets created on first use, options and variants (their prices and stock are `Katalog`'s and
`Sepet`'s). The order of row locks *inside* an order transaction is not modelled: deadlocks
between them are resolved by PostgreSQL aborting one, which is `Refused` or a lost request
here. Client references are assumed never to equal the numbers the order system makes
up, and order numbers are fresh.

Left out of the market place: opening hours, bank details, commission tariffs, uploads, the
seller's and the public lists, substitutes of products, addresses, the edits of the
permission table by a super administrator and the caches (`izin-matrisi`, `onbellek`), audit rows.
Left out of the freight market: profiles, return trips, lists and statistics.

What a next step would be:

1. the hazards no property covers (`PROJECT.json`): most need a promise the code does not make today,
   so the property comes with the change that makes it, first a conditional write in
   `ilanIptal`, `teklifReddet` and `varyantGuncelle`, and a lock on the cart in `checkout`;
2. `OrderFlow`'s baskets with the options and variants of `Katalog`, which are now proved to be
   payable, so that checkout's refusal `dagitim !== subtotal` becomes a theorem that it never fires;
3. return trips of the freight market.
