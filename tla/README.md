# Specifications of the FamilyCotton backend

TLA+ modules for `familycotton-api`, the Go service that runs a clothes shop: it
sells, takes back, buys, counts and moves goods, keeps the debts of clients,
suppliers and creditors, and accounts for the money of each shift. The modules
follow the code under `src/familycotton-api/internal`; `PROJECT.json` names the
lines behind every definition.

The program has no tests, and what is hard in it can hardly be tested: every HTTP
request is a goroutine, most guards are `SELECT`s on the connection pool made
*before* the transaction that relies on them begins, and correctness hangs on
which rows the transaction locks afterwards, at PostgreSQL's READ COMMITTED
isolation level. So the models interleave requests one SQL statement at a time.

## 1. Inventory

| Component | State it keeps | Operations | What makes it correct |
|---|---|---|---|
| database (`repository/db.go`, `migrations/001_init.sql`) | committed rows, row locks and uncommitted versions of each transaction | statements on the pool or in a transaction, commit, rollback | READ COMMITTED as PostgreSQL defines it (external) |
| product stock, catalogue (`service/product.go`, `repository/product.go`) | `qty_shop`, `qty_warehouse`, `is_deleted` | `GetByIDForUpdate`, `UpdateStock`, Create, Update, SoftDelete | no quantity below zero, no movement lost, deleted rows final |
| sales (`service/sale.go`) | `sales`, `sale_items` | Create, Delete, GetByID, List | goods and debts change exactly with the sales that exist |
| shifts (`service/shift.go`) | `shifts`, entries in `safe_transactions` and `owner_debts` | Open, Close, GetCurrent, List | one open shift; its takings are booked once and cover its sales |
| sale returns (`service/sale_return.go`) | `sale_returns` | Create (full, exchange, exchange_diff), List | no more comes back than was sold; goods come back once |
| stock transfers (`service/stock_transfer.go`) | `stock_transfers` | Create, List | a transfer moves, it neither makes nor loses goods |
| purchase orders (`service/purchase_order.go`) | `purchase_orders`, `purchase_order_items` | Create, GetByID, List | arrivals, supplier debt and paid amount agree with the order |
| supplier payments, suppliers (`service/supplier_payment.go`, `service/supplier.go`) | `supplier_payments`, `suppliers` | Create (money, product_return); create, update, soft delete of suppliers | the debt is what orders left unpaid less the payments |
| inventory checks (`service/inventory_check.go`) | `inventory_checks`, `inventory_check_items` | Create, Update, GetByID, List | completing a check sets the stock to what was counted |
| safe, owner debts (`service/safe.go`) | `safe_transactions`, `owner_debts` | OwnerDeposit, GetBalance, lists | an owner debt is settled by one deposit |
| client and creditor debts (`service/client_payment.go`, `service/creditor_transaction.go`) | `clients.total_debt`, `creditors.total_debt` | payments, loans and repayments; catalogues | the running totals agree with the records |
| authentication (`service/auth.go`, `repository/token.go`, `middleware`) | `refresh_tokens` | Login, Refresh, Logout; the middleware | a token that is gone is never exchanged by a later request; what an access token claims of its user was true while the request ran |
| catalogues (`service/brand.go`, `service/user.go`) | `brands`, `users` | create, update, soft delete, pages | names and logins unique, deletions final, pages complete when the table is at rest |
| dashboard (`service/dashboard.go`) | none | reporting queries | no state |
| server (`cmd/api/main.go`, `router`, `config`, `handler/helpers.go`) | the pool of connections | start, stop, routing, JSON | every request ends; the exit cuts no transaction off |

The components interact through the database only. Sales, returns, transfers,
orders, supplier payments, checks and the catalogue all write the rows of
`products`; sales, returns and client payments write `clients.total_debt`; orders
and supplier payments write `suppliers.total_debt`; shifts, returns, orders,
payments and deposits append to `safe_transactions`; shifts make the owner debts
that deposits settle; sessions read the users that the catalogue updates. Besides the
database they share the pool of connections.

What is hard:

* guards read outside the transaction (open shift, existing sale, no returns,
  quantity already returned) are stale when they are used;
* `UpdateStock` writes absolute quantities, so it is only right under the lock
  that `GetByIDForUpdate` takes, and `ProductService.Update` takes none;
* checks that come after writes (the payment split of a sale, the paid amount of
  an order, the new product of an exchange) rely on the deferred `Rollback`;
* `UpdateDebt` of a soft-deleted row changes nothing and reports success;
* transactions lock products in the order of their bodies and can wait for each
  other in a circle;
* completing a check and settling owner debts ask the pool for a second connection
  while they hold one, which PostgreSQL's deadlock detection does not see, and
  `pool.Close` at the shutdown waits for every connection;
* amounts have up to six decimals and the columns two, so that a total and the records
  it sums are rounded apart; the share a return refunds divides by the total *after* the
  discount, which may be zero;
* refreshing a token is four statements on the pool, in no transaction, and the claims
  of an access token outlive what was read.

Every one of these is a hazard in `PROJECT.json`, at its line, with the properties
that would notice it going wrong.

## 2. Modules

```
ReadCommitted            tables, drafts, row locks, commit, rollback (PostgreSQL, external)
  Products               product rows, GetByIDForUpdate, UpdateStock
    Sales                SaleService and ShiftService          --implements--> Stock
      Sales_proofs       the theorems about Sales
      MCSales            a small shop for TLC
      Server             the pool, the nested statements and the shutdown, around Sales
        Server_proofs    the theorems about Server
        MCServer         a pool of two for TLC (extends MCSales too)
      SaleReturns        SaleReturnService, among the sales    --implements--> Stock
        SaleReturns_proofs  the theorems about SaleReturns (extends Sales_proofs too)
        MCSaleReturns    (extends MCSales too)
    Supply               transfers, orders, supplier payments, catalogue --implements--> Stock
      MCSupply           a small storehouse for TLC
      InventoryChecks    InventoryCheckService, among the movements of Supply --implements--> Stock
        MCInventoryChecks  a half-counted shop for TLC (extends MCSupply too)
        Supply_proofs    the theorems about Supply and InventoryChecks
  Debts                  client payments, loans, owner deposits, clients and creditors
    Debts_proofs         the theorems about Debts
    MCDebts              a small ledger for TLC
Catalogue                brands and users, and the pages of brands
  MCCatalogue            a small catalogue for TLC
  Sessions               AuthService, among the updates and deletions of users
    MCSessions           three sessions for TLC (extends MCCatalogue too)
    Catalogue_proofs     the theorems about Catalogue
      Sessions_proofs    the theorems about Sessions
Decimal                  amounts in parts, and what a column rounds (used by Supply and Debts)
Stock                    what every service that moves goods promises
Sums_proofs              sums over finite sets and rounding, for the proofs (extends Decimal)
```

**ReadCommitted.** `table` is the last committed version of every row, `draft[r]`
the versions that the open transaction of request `r` has written or locked. The
domain of a draft is the set of rows `r` has locked. A statement on the pool reads
`table`; one in a transaction also sees its own draft; one that must lock waits
until no other draft has the row (`Free`) and then works on the version committed
last (`Seen`): READ COMMITTED re-evaluates a `WHERE` on the row it waited for, and
that is why conditions such as `status = 'open'` are evaluated together with the
lock. `Autocommit` is an `INSERT` or `UPDATE` on the pool. Key locks of foreign keys
matter at two places only (the deletion of a sale, the insert of a return) and are
modelled there.

**Products.** The one row every stock-moving service reads under lock, and the
write of absolute quantities. `product[r]` is the Go variable `product`; `moved[r]`
is a history variable, the sum of what the updates of `r` add.

**Stock** is the abstract specification: quantities change only by `Move`, which
applies everything one request moves at one instant, as a delta, and leaves no
quantity negative. `Sales`, `SaleReturns`, `Supply` and `InventoryChecks` implement it with the
mapping *stock* = the stock columns of `table`, *moved* = `moved[r]` once `r` has
succeeded and no movement before (`MovesAtomically`).

**Sales.** A request is what its goroutine's stack holds: `pc` (the next
statement), `call` (the body), `shift`, `sale`, `totals` (local variables) and `todo`
(the rest of the loop over the items). One action is one SQL statement with the Go
code up to the next one:

| Code | Actions in order |
|---|---|
| `SaleService.Create` | `Receive`, `GetCurrentOpen`, (`LockItem`, `DeductItem`)*, `InsertSale`, `UpdateDebt`, `CommitTx` |
| `SaleService.Delete` | `Receive`, `GetSale`, `CheckStatus`, `CheckReturns`, `ReadItems`, (`LockItem`, `RestoreItem`)*, `UpdateDebt`, `RemoveSale`, `CommitTx` |
| `ShiftService.Open` | `Receive`, `GetCurrentOpen`, `OpenShift` |
| `ShiftService.Close` | `Receive`, `GetCurrentOpen`, `AggregateSales`, `CloseShift`, `CommitTx` |
| any error return, cancelled context or crash of the server | `Fail`, or the `Refuse` branch of the action |

**SaleReturns** adds `ReceiveReturn`, `GetReturnedSale`, `GetSaleItem`,
`CheckReturned`, (`LockItem`, `GiveBack` or `TakeNew`)*, `Refund`, `InsertReturn` for
`SaleReturnService.Create`, and runs them together with all of Sales. `Price` and
`Discount` give the sales their amounts: `DebtRefund` is the share of the debt that the
returned pieces have in `TotalAmount`, `Rounded` is what a column of two decimals makes of
it, and a sale with a total of zero makes `Refund` fail (the division panics).

**Server** puts Sales behind a pool of `MaxConns` connections and a process that can be
told to stop. `conns` are the requests that hold a connection for their transaction;
`server` is how far `main` has come.

| Code | Actions |
|---|---|
| `pool.Begin` | `Begin`, when a connection is `Available` |
| any other statement | `Query`: the next step of Sales, with the connection the request has, or one it borrows when the statement goes to the pool (`Nested`: inside a transaction) |
| `OwnerDeposit`, and `Update` that completes a check | `ReceiveNested`, `Deposit` or `ReadCounts`, `SetCounted`: their connections and locks only, the rest of them is in Debts and InventoryChecks |
| an error, or a cancelled context | `Abort`; `PoolClosed` when the pool refuses; `Victim` when PostgreSQL breaks a circle |
| the end of `main` | `Signal`, `ClosePool` (no request left or ten seconds over), `Exit` (`pool.Close` has every connection back) |

**Decimal.** `Validate` bounds no decimals, the columns are `DECIMAL(15,2)`. Amounts of
requests are counted in parts, `Parts` of which make a unit of a column. What is written to
a column is rounded, half away from zero (`Round`), and an `UPDATE` that adds to a column
rounds the sum and not what it adds (`Plus`). A running total and the records it sums can
therefore differ.

**Supply.** Every body is a sequence of movements (what each adds to the shop and
to the warehouse of a product), so that the three loops are one. The total and the paid
amount of an order, the amount of a payment and that of an entry in the safe are rounded
one by one (`InsertOrder`, `InsertPayment`); `UpdateDebt` and `UpdatePaidAmount` round the
sum. `Create` of an order compares the amounts, and computes the status and the debt,
before anything is rounded; `RecalcStatus` compares the two columns. So a new order may be
"partial" although the two amounts in its row are equal, until a payment names it.

| Code | Actions in order |
|---|---|
| `StockTransferService.Create` | `Receive`, `LockProduct`, `MoveGoods`, `InsertTransfer`, `CommitTx` |
| `PurchaseOrderService.Create` | `Receive`, (`LockProduct`, `MoveGoods`)*, `InsertOrder`, `UpdateDebt`, `CommitTx` |
| `SupplierPaymentService.Create` | `Receive`, (`LockProduct`, `MoveGoods` for goods), `UpdateDebt`, `PayOrder`, `InsertPayment`, `CommitTx` |
| `Create` of a product or a supplier | `Receive`, `CreateRow` |
| `ProductService.Update` | `Receive`, `GetProduct`, `PutProduct` |
| `SupplierService.Update` | `Receive`, `GetSupplier`, `PutSupplier` (name, phone and notes: the debt stays) |
| `SoftDelete` of a product or a supplier | `Receive`, `SoftDelete` |

**InventoryChecks** runs Create and Update of a check together with all of Supply. The
items of a check are rows of their own, named by check and product, since each has
its lock.

| Code | Actions in order |
|---|---|
| `InventoryCheckService.Create` | `ReceiveCheck`, `ListProducts` (pool), `InsertHeader` (pool), `InsertItems`, `CommitTx` |
| `InventoryCheckService.Update` | `ReceiveCheck`, `CountItem`*, and to complete: `ReadItems` (pool), (`LockCounted`, `SetStock`)*, `CompleteCheck`; `CommitTx` |

A body names items as the users can: a check and its items are known once the
request that created it has answered. `UpdateItemActualQty` goes by the item alone, so
a body may hold counts for items of another check. The order in which `ReadItems`
finds the items is any (the query has no `ORDER BY`).

**Debts** has two rows for a request: its record (payment or loan) and its entry in the
safe, which the code inserts in different orders. Both round the amount, `UpdateDebt`
rounds the sum of the debt and the amount (Decimal).

| Code | Actions in order |
|---|---|
| `ClientPaymentService.Create` | `Receive`, `FindPerson` (pool), `InsertPayment`, `UpdateDebt`, `BookSafe`, `CommitTx` |
| `CreditorTransactionService.Create` | `Receive`, `BookSafe`, `UpdateDebt`, `InsertLoan`, `CommitTx` |
| `SafeService.OwnerDeposit` | `Receive`, `BookSafe`, `ListUnsettled` (pool), `SettleNext`*, `SettledAll`, `CommitTx` |
| `Create` of a client or creditor | `Receive`, `CreatePerson` (pool) |
| `Update` of a client or creditor | `Receive`, `FindPerson` (pool), `PutPerson` (pool) |
| `SoftDelete` of a client or creditor | `Receive`, `PutPerson` (pool) |

**Catalogue** has no transactions: every statement goes to the pool and commits at once,
so it does without ReadCommitted. The row named after a request is the one it creates.
A key is a number, because brands are listed in the order of their names. An answer may
be lost after its statement has committed (`Answer`).

| Code | Actions in order |
|---|---|
| `Create` of a brand or a user | `Receive`, `CreateEntry` |
| `Update` of a brand or a user | `Receive`, `GetEntry`, `PutEntry` |
| `Delete` of a brand or a user | `Receive`, `RemoveEntry` |
| `BrandService.List`, page after page | `Receive`, (`CountBrands`, `ReadPage`)*, until a page is not full |

`start` and `since` are history variables: the brands there were when a reader began, and
what was done to brands since then and since his last count. `PageOf` picks the brands of a
page by their places in the order of the names, which no two brands share. The clients,
suppliers, creditors and products are listed by the same two statements.

**Sessions** adds the rows of `refresh_tokens` and the handlers of `AuthService` to
Catalogue. A hash is the name of its token; a request's own name is the token it
makes; an access token is what it claims, `holder` and the role in `found`.

| Code | Actions in order (each on the pool, for itself) |
|---|---|
| `AuthService.Login` | `ReceiveAuth`, `GetByLogin`, `CreateToken` |
| `AuthService.Refresh` | `ReceiveAuth`, `ExistsByHash`, `DeleteByHash`, `GetHolder`, `CreateToken` |
| `AuthService.Logout` | `ReceiveAuth`, `DeleteByHash` |
| `expires_at > NOW()` no longer holds | `Expire` |

A client sends a token that was given out before, or that a request which has answered
made (`Given`). `claimable` and `late` are history variables: what was true of the users
since a login or an exchange arrived, and whether its token was gone by then.

What the data is abstracted to: a request's own name stands for the row it inserts
(`uuid.New` gives each a name of its own), including the rows that hang on it (the
items of a sale or an order, its entries in the safe). A sale knows through which
channels it was paid and how much was left as debt; the totals of a shift are the
*set* of sales they sum, which shows double counting and omission and which
determines the sums, since sales never change. Whether the discount and the split
of a payment add up is the flag `exact` of the body. Prices of sold goods, discounts and
cost prices are constants of a model, since no request changes those of a sale that
exists; an order has a total. In Sales the part of a sale that is left as debt is a
number of whole units. `paid_debt` may have more decimals too, but of a debt that is not
negative the rounded sum is the sum of what is rounded: the two would differ only for a
client who has been paid too much. Numbers are unbounded (PostgreSQL rejects a quantity that
leaves 32 bits: that is a `Fail`). Passwords, signatures and hashes are not there: what a
wrong one causes is a `Fail`.

## 3. Runs

All runs have deadlock checking off because the system may stop: each request is
made once and ends. `Req` is symmetric in the safety runs.

| Run | Shows |
|---|---|
| `sales` | types; `NoOversell`; `StockReconciles`, `DebtReconciles`: shop + sales and debt − unpaid parts are constant; `BookedOnce`: the money of a shift is booked exactly once; `ClosedShiftFrozen`; `MovesAtomically` (Sales implements Stock) |
| `sales_live` | Server with fairness. `EveryRequestEnds`: no request waits for ever, for a row or a connection, and `ShutdownEnds`: after the signal the process exits; both unless all connections are `Exhausted` for ever. `ExitIsClean`: a transaction that has touched a row holds a connection, and the exit leaves none behind |
| `returns` | the same for returns and exchanges (`GoodsReconcile`, `DebtsReconcile`), `ForgivenIsOwed`: the returns of a sale forgive no more than the debt times value over total, though every refund is rounded; `ReturnsHaveItems`: no return outlives its sale, `NoOversell`, `MovesAtomically` |
| `goods` | Supply and InventoryChecks together. `NoOversell`, though a count may be negative; `StockReconciles`, `DebtReconciles`, `PaidReconciles` against the recorded transfers, orders and payments, for products and suppliers created meanwhile too (debts up to one unit for each request that is rounded apart in the debt and in the records): a check of the shop loses nothing in the warehouse, whatever moves meanwhile; `CompletedIsCounted`; `DeletedIsFinal`; `MovesAtomically` |
| `debts` | `DebtsReconcile`: running debts against the records, through creations and renamings too, up to one unit for each amount that ends in half a unit; `SafeAgrees`: money is booked exactly when its record is there, at the same rounded amount; `SettledIsPaid`: deposits settle no more than they bring; `DeletedIsFinal` |
| `catalogue` | `KeysUnique` against deleted entries too; `DeletedIsFinal`; `WalkMissesNothing` while brands are only created, `WalkRepeatsNothing` while they are only deleted, `TotalIsReached`: the count and the pages agree when nothing happened since; with sessions among it: `ClaimsAreCurrent`, what an access token says of its user was so at some moment since the request arrived, and `GoneIsGone`, a token exchanged or logged out is of no use to a later request |
| `two_open_shifts` | violated: two concurrent Opens both succeed |
| `uncounted_sale` | violated: a sale commits into a shift after its totals were taken |
| `double_delete` | violated: two deletions of one sale both put its goods back |
| `over_return` | violated: two returns of one item bring back more than was sold |
| `lost_update` | violated: an update of a product's price undoes a concurrent movement of its goods |
| `stale_count` | violated: a request that counts and completes sets the stock to the older counts |

Every property of a passing run has a mutant in `PROJECT.json`: a definition
commented "Mutation of X" is X with a plausible bug, and the property is violated when
it takes the place of X.

The six violations are the findings of `PROJECT.json`: each is a sentence of the
design, the README or a comment that the code does not keep, five of them when requests
interleave; `stale_count` needs one request only, whose own transaction the pool
does not see. What does hold next to them is stated with the exception named:
`StockReconciles` and `DebtReconciles` of Sales assume `DeletedOnce`; in `goods` they
leave out the products an update has overwritten, the place a check has corrected and
the suppliers who are deleted; a walk through the pages misses nothing or repeats
nothing only while brands are not deleted, or not created. What a check sets is not
reconciled with anything: the count wins over every movement since it was made, and
again when the check is completed again. What a discount does to a refund is not judged
either: `ForgivenIsOwed` bounds the refunds of a sale by what the code's own proportion gives,
value over discounted total, and so is about rounding and about several returns. `GoneIsGone` speaks of later requests: two
exchanges of one token that overlap may both succeed, since `DeleteByHash` does not look
at how many rows it deleted. And `EveryRequestEnds` has its exception because the code
has no bound on the wait for a connection: with the pool full of completions or deposits
that each want a second connection nothing moves until a client hangs up, and a shutdown
then waits as well, since `pool.Close` does.

Bounds. Three requests: two that race and a third that interferes (a closing between
a sale and a deletion, a sale between two exchanges); every hazard listed involves
two or three. Quantities are chosen so that the last piece is contested: `shirt` has
two pieces and a sale that names it twice, `sock` one. Two sales, and two orders,
name the products in opposite orders, so that circular waits occur. There is a
deleted product, a deleted client, a closed shift with its sale and its booking, a body that fails after its goods were
deducted, an order paid too much, a payment that names no existing order, a return that
names an item of another sale, and one of an item that has come back. The check
of `goods` has one item counted and one not, and requests that count the items in
either order, count below zero, write into items of another check, and complete it
twice. In `debts` a loan names no existing creditor, the owner's debts are 3, 1 (settled) and
2, and the deposits 2, 3, 4 and 6: too little for the newest, exactly it, a part of
both, and more than all. In `catalogue` a new brand comes before, between or after the
others or takes the name of a deleted one, and pages have one or two rows, so that a
last page is full or not. The user `pavel`, who is updated and deleted, has two sessions
and may log in, another session has expired, and the tokens made by the requests
themselves can be exchanged and logged out. In `returns` one sale has no discount, one is
discounted so that each returned piece forgives two of a debt of three, and one is
discounted to nothing. In `goods` and `debts` four parts make a unit,
so that amounts are whole or end in a quarter, a half or three quarters; in `goods` one order
is rounded apart from its debt, one payment in money ends in half a unit, and one order is
paid all but a quarter of a unit. In `goods` and `debts` a product, a supplier, a client and a
creditor are created while requests that name them are under way. `sales_live` has two
sales that lock the products in opposite orders, a completion, a deposit and a pool of
two connections: pgx makes the pool as large as the number of processors and at least
four, which with as many requests gives the same circles; it does without symmetry, which
is not sound for liveness. No counter needs a cap: every request acts once.

Fairness (`ServerFairSpec`). For each request weak fairness of
`Begin \/ Query \/ PoolClosed \/ Victim`: the Go scheduler runs every goroutine and
PostgreSQL answers every statement. A statement that waits for a row lock is disabled
until the lock is released; PostgreSQL queues the waiters, pgx serves those who wait for
a connection in turn, and each holder releases once, so weak fairness suffices. `Victim`:
when transactions wait in a circle for rows, PostgreSQL's deadlock detection fails one of
them (after `deadlock_timeout`), and the service returns the error through the deferred
`Rollback`. `ClosePool \/ Exit` is weakly fair: `Shutdown` returns after ten seconds at
the latest, and `pool.Close` once the connections are back. Nothing is assumed about
`Abort` (an error or a client that hangs up may come or not), `Arrive` and `Signal`.

## 4. Proofs

The theorems hold for any set of requests, products, clients, suppliers and so on, any
bodies that pass `Validate`, and any initial database that the code could have left. What
that means is in the named assumptions of the modules, which TLC evaluates on every run:
names are distinct and finitely many ids are used (`NamesAssumption`), bodies have the
shape that `Validate` lets through (`BodyAssumption`), rows have the types, the CHECK
constraints and the foreign keys of the schema (`InitRowAssumption`, `ReferencesAssumption`).
Where the initial rows are records of earlier requests, the assumption says of them what the
theorem says of all later ones: closed shifts have been booked once (`BookingAssumption`), completed checks
are counted (`CompletedAssumption`), the paid amount of an order is what the payments add
up to (`PaperAssumption`), recorded returns took their rounded part off the debt
(`RecordsAssumption`). What `Create` compares with the total of a sale is in `TotalsAssumption`
for the sales that are there and in `CreditAssumption` for the bodies it lets through.

### Sales

`Sales_proofs` proves

* `TypeCorrect`: `Spec => []TypeOK`;
* `LocksExclusive`: no row is in the drafts of two transactions;
* `NeverOversold`: `Spec => []NoOversell`;
* `MovesAreAtomic`: `Spec => MovesAtomically`, that is, Sales implements Stock;
* `StockAlwaysReconciles`, `DebtAlwaysReconciles`: goods and client debts agree with the sales;
* `ShiftsBookedOnce`: `Spec => []BookedOnce`;
* `ClosedShiftsStayFrozen`: `Spec => ClosedShiftFrozen`.

The first four rest on one inductive invariant, `Inv`: `TypeOK`, `Exclusive` (a row has at
most one draft), `NoOversell`, and for every request

* `Control`: at each `pc`, what the earlier statements established: which locals are
  set, that the product at the head of `todo` is locked and that `product[r]` is its
  current draft when it is about to be written;
* `Quiet`: a request outside its transaction holds no draft;
* `Ledger`: for a product that `r` has locked, its draft is the committed row plus
  `moved[r]`; for any other product `moved[r]` is zero unless `r` has succeeded.

`NoOversell` alone is not inductive: `DeductItem` writes the quantity of the local
`product[r]`, so one must know that it is still the row's (`Control`, which rests on
`Exclusive`: nobody else commits a locked row). `Ledger` is what the refinement needs:
at `CommitTx` the table changes by exactly `moved[r]`. `InvInit`, `InvStep` (one step
per action) and `Invariance` give `Spec => []Inv`; `MovesAreAtomic` maps `CommitTx` of
a request that moved something to `Move(r)` and every other step to a stutter.

The other four rest on a second one, `Books`, on top of `Inv`. A commit changes the sums by
what is in the draft, so for every statement one must know what a transaction has in its
draft and where that comes from:

* `Papers`: which sales, shifts and bookings a request has locked (`Created`, `Deleted` and
  `Closed` say what it has written into them), so that no commit changes another paper;
* `Carried`: what `r` has moved of a product and what is still in `todo` are together the
  quantities of its sale; `Credit`: the client in its draft has the committed debt and the
  amount of its sale, or was deleted;
* `Course`: which shift a request has found; a shift that was found stays a shift;
* `Unborn`, `Existed` and `Gone` tell a sale that is not inserted yet from one that another
  deletion has taken: a deletion that has read a sale finds it unchanged, or `Gone`, and
  then `DeletedOnce` will fail or the transaction will move nothing;
* `Claimed`: the sales a closing request has read into its totals, and those of every
  booking, are sales of that shift or deleted ones. Two shifts therefore never claim one
  sale, which `BookedOnce` does not say of the totals still in a local variable.

### SaleReturns

`SaleReturns_proofs` proves, of `ReturnsSpec`, in which all requests of Sales take part,

* `ReturnsTypeCorrect`: `ReturnsSpec => []ReturnsTypeOK`;
* `ReturnsNeverOversold`: `ReturnsSpec => []NoOversell`;
* `ReturnsMoveAtomically`: `ReturnsSpec => MovesAtomically`;
* `ReturnsKeepTheirItems`: `ReturnsSpec => []ReturnsHaveItems`;
* `ReturnsReconcileGoods`, `ReturnsReconcileDebts`: goods and client debts agree with the sales
  less their returns;
* `ReturnsForgiveWhatIsOwed`: `ReturnsSpec => []ForgivenIsOwed`.

The statements of Sales are not proved about again. The lemmas of `Sales_proofs` about one
statement assume of the system only `Typed` (which is `TypeOK` without the sets of statements and
bodies that SaleReturns enlarges), `Exclusive` and `NoOversell`, and of the requests only the
`Control`, `Quiet` and `Ledger` of the one that acts. So `ReturnsInv` can say of each request
`Conduct`: one that returns goods is where `ReturnControl` says, any other where `Control` does;
`ActCases` splits a step accordingly, and `ActIsLocal` says that it changes nothing else of the
others. What is new for types is the arithmetic of the refund: `RoundedType` and the sum of
`TotalType` make the part of the debt a natural number whatever was discounted.

`ReturnsHaveItems` is not inductive: a deletion that has found no returns may be about to
commit when a return is inserted. `Filed` adds what decides it. `Drafted`: what a transaction
has in its draft is the paper of its own name (and then, if it is a return, the one its body
names), a sale that no return refers to, or a shift. It is kept because the insert of a
return waits for the locks of its `Referents`, so a sale in somebody's draft gets no new
return. `Placed`: the item a return has found belongs to a row that has existed, so the name
is not used for another row later (`Unborn`), and the item is there for as long as its sale
is. `PapersChange` lists what any step may do to a paper. With only the foreign key to the
sale, and not that to the item, `DraftedStep` would fail where the body names an item of another
sale, as the mutant of this property does.

Goods and debts follow the argument of `Books`, one request at a time: `Reconciled` adds
`Reckoning` of every request, which is `Mine` of `Sales_proofs` for one that sells, deletes, opens
or closes, and `Account` for one that returns: what it has found of the sale and the item
(`Fetched`), which quantities and which part of the debt its draft carries and which are still
to do (`Moving`, `Carrying`), and what it will record of them (`Recorded`, `Forgiven`). The
lemmas of `Sales_proofs` about a commit ask for no more than `Sound`, `Mine` and `Spares`: that
the acting request is sound, its own account, and that the others spare what it changes. At
the commit of a return, `GoodsMove` and `DebtMove` say what becomes of the sums. The debt is
where the code is not exact: the column keeps the rounded rest of the subtraction, the
record the rounded subtrahend, and `RefundRounds` shows that they differ by one unit when the
refund lies halfway and agree otherwise. `HalvesGrow` counts those returns, which is the bound
in `DebtsReconcile`.

`ForgivenIsOwed` needs one more invariant, `Priced`: no existing or drafted sale owes more than
its total (`Covered`), and every recorded return is `WithinPart`, its own value over the total
times the debt and half a unit (`RoundedWithin`). Both are kept step by step because a sale
never changes after it is inserted and, by `ReturnsHaveItems`, does not go before its returns.
The rest is arithmetic over a state: the values of the returns are added up item by item
(`SumGrouped`), no item has come back more often than it was sold, so they stay within the
value of the sale, and `SumWithin` multiplies out. That the code checks no return against the
others is therefore harmless for the debt, on the two conditions that the property names.

### Sums

A sum over rows is a `SumFunction` of the community modules, a fold, and induction schemas
cannot be instantiated by the provers. `Sums_proofs` does without: were a claim false of
some subset of a finite set, it would be false of a smallest one (`SmallestSubset`, from the
well-foundedness of strict inclusion), and taking out the element the fold picks first
gives a smaller one. This way it proves that a sum exists and obeys its equation
(`SumPick`), does not depend on the order (`SumSplit`), changes by the difference of one term
(`SumChange`), and that the sum over a sequence is its first term and the sum over its tail
(`SumTail`). Every proof about the books cites `SumChange` once for the one row that a commit
adds, changes or deletes. Lemmas for sums that are scaled, extended by zeros, constant or taken
group by group serve the refunds, and so do those on `\div`: the quotient is the one number whose
multiple leaves less than the divisor (`Quotient`).

The lemmas on rounding are here too, since Debts and Supply share them. `PlusIs`: whole units
can be added before rounding or after it, so that rounding `total + delta` and rounding
`delta` differ by one unit at most, and only if `delta` ends in half a unit, where a negative
sum is rounded down and a positive one up; of naturals they never differ (`PlusNat`). It is
proved from `Quotient`, for odd and even `Parts` alike. `RoundNear` and `PlusDifference`: the
difference of two amounts, rounded, and the difference of the two rounded amounts are also
one unit apart at most. `RoundCovers`: what an amount covers in parts it covers once rounded.

### Supply and InventoryChecks

`Supply_proofs` proves, of the specification `CheckSpec` that the run checks (its `SupplyIsCovered`
shows that `Spec` of Supply allows nothing more):

* `TypeCorrect`, `LocksExclusive`, `NeverOversold`, `CompletedStaysCounted`, `DeletionIsFinal`,
  `MovesAreAtomic`, from `Inv`;
* `StockAlwaysReconciles`, `DebtAlwaysReconciles`, `PaidAlwaysReconciles`, from `Accounts` on top
  of it (`BooksAreKept`).

`Inv` says of each request what its earlier statements have established (`Course`), which rows
its transaction has written and in what form (`Drafts`), and, as in Sales, that its drafts
differ from the table by what it has `moved` (`Ledger`). Two parts are peculiar to this
component. `Unborn` and `Distinct`: a row named after a request or chosen for a creation is
made by that request only, so that a plain `INSERT` never replaces a row. `Items`: an item
belongs to a check that is there and of a product that is there, and the items of a check
that somebody can name (`Known`) are all in. That is why a completion which has read the
items, on the pool, has read all there will ever be, and the counts it found can be replaced
but not removed: `CompletedIsCounted` is inductive with it and not alone.

`Accounts` follows the amounts. `Papers`: what `r` has written into the row of its own name is
the paper of its body, and into the order that it pays, or the check that it completes, the
committed row with exactly its change. `Credit`: the supplier in its draft has the sum, rounded,
of the committed debt and the delta of `r`, and is locked whenever he is alive and the
statement has passed.
`Carried`: what is moved and what is still to move are together the movements of the body; a
completion moves only products that its check lists, at the place of the check, which is the
exception `StockReconciles` makes. `Foreign` and `Found` say that what papers name is there, so
that the sums of a product or a supplier created later start from nothing.

`DebtReconciles` is not an equation, because the code does not keep one: a payment of 0.005 on
a debt of 1.00 is recorded as 0.01 and the debt stays 1.00. `CreditNear` proves that
the change of a debt and what the record makes of it differ by a unit at most, and only if
the request is `Apart` (a payment by `MinusIs`; an order by `PlusDifference`, for its total and
its paid amount are rounded one by one), and `InexactStep` that the commit of such a request
adds it to `Inexact`, the set whose size is the bound.
The paid amount of an order needs no bound: it is a natural number, and so is every payment,
so that `PlusNat` makes `PaidReconciles` exact. Its status is that of the row from the first
payment on; `PaymentsStep` says which steps add a payment, and `FirstStatusKept` that before it
the status is the one `Create` has computed.

### Debts

`Debts_proofs` proves, for any number of `Parts`,

* `TypeCorrect` (with it, that no deposit settles below zero);
* `SafeAgreement`: `Spec => []SafeAgrees`;
* `DeletionIsFinal`: `Spec => DeletedIsFinal`;
* `DebtsAlwaysReconcile`: `Spec => []DebtsReconcile`;
* `SettledAlwaysPaid`: `Spec => []SettledIsPaid`.

The record and its entry in the safe are inserted in different orders; `Drafts` says at which
statements of which operation each is in the draft, and that it is then the record, or the
entry, of the body; `Committed` that the table has both or neither.
`LiveHeld` (a person whose row is locked is alive in the table) is why a commit never writes
a deleted one; `Unborn`, as above, is why a creation does not either.

`Accounts` is the invariant of the sums. `Credit`: past the `UPDATE` of a debt the draft has the
committed row with exactly the change of its body, or there was nobody alive to change.
`Known`: nobody is asked to change the debt of a person who is still to be created, so that the
sums of a new person start from nothing. `Settling`: the debts that the draft of a deposit
settles, in parts, and what remains of it come to no more than the deposit; together they
could come to less, because a debt that another deposit settled meanwhile is subtracted too.

The arithmetic is that of `Sums_proofs`: `PlusIs` for the debts, where each amount that ends in
half a unit may cost one unit, and `RoundCovers` for the deposits.

### The others

`Server_proofs` proves `ExitStaysClean`, `ServerSpec => []ExitIsClean`, for any size of the
pool. Its invariant says of every request that it holds a connection when its draft is not
empty, and that who holds a connection is at a statement of a transaction (`Held`): so a
request that ends, the only one to leave `conns`, ends with its draft empty, and `AllReturned` means
that no draft is left. The steps of Sales enter through `OneStep`, what a step does to the `pc`
and the draft of the one request that takes it.

`Catalogue_proofs` proves, for any requests, any bodies that pass `Validate` and any
initial entries with unique keys (it is written over Sessions, whose next-state relation
includes that of Catalogue, so that its lemmas serve both):

* `KeysStayUnique`: `Spec => []KeysUnique`;
* `DeletionsAreFinal`: `Spec => DeletedIsFinal`;
* `WalksMissNothing`, `WalksRepeatNothing`, `TotalsAreReached`: `WalkMissesNothing`,
  `WalkRepeatsNothing` and `TotalIsReached` in every state of `Spec`.

Its `Inv` adds to `KeysUnique` the types of the entries and of the locals of a writer, and
`Control`: a request that has not inserted its entry yet has none (so an insert never
replaces a deleted one), and what an update has read is of the kind it was asked for (so
the key it writes was compared with the keys of its own table). It leaves the
readers out, as nothing they hold has influence on the entries.

The readers have an invariant of their own on top of it, `Walkers`. It speaks of the
place of a brand in the order of the list (`Place`). Keys differ, so places do
(`PlacesDiffer`); a map from `n` brands to the `n` places that leaves no two together
leaves no place empty (`EveryPlace`); so a page is exactly the brands whose places lie
between its offset and its end (`PageHas`). Then, for every reader between two pages:

* `Paged`: what he has been shown is as long as the offset of his next page;
* `Complete`: while brands are only created, those he began with and has not been shown
  yet are still listed, at places beyond that offset;
* `Distinct`: while brands are only deleted, those he has been shown and are still listed
  have places up to that offset, and no two entries of what he was shown are the same;
* `Totalled`: the total is the number of brands, if nothing has happened since the count.

A creation moves places up and never down (`PlaceGrows`), a deletion down and never up
(`PlaceShrinks`); an update of the name can do either, and after one neither promise is
claimed. `OtherWalks` carries a reader over the steps of all others, and `PageStep` is
the step of his own.

`Sessions_proofs` proves, for any users, tokens and bodies:

* `ClaimsStayCurrent`: `SessionsSpec => []ClaimsAreCurrent`;
* `GoneStaysGone`: `SessionsSpec => []GoneIsGone`;
* `KeysStayUniqueInSessions`, `DeletionsAreFinalInSessions`: the two properties above in the
  specification that the run checks;
* `WalksMissNothingInSessions`, `WalksRepeatNothingInSessions`, `TotalsAreReachedInSessions`:
  those of the pages in the same specification;
* `SessionsTypeCorrect`: `SessionsSpec => []SessionsTypeOK`.

`SessionsInv` adds to that `Inv` the types of the tokens and `Secured`: for each statement
of a login, an exchange or a logout, what the earlier ones established. Two facts carry
it. The row of the user is read within the request, so the claim is in `claimable` from
then on. And a token that is gone stays gone (`OtherKept`): only the request it is named
after inserts it, and that request has ended before a client can send the token. The
types of the readers are in `Walkers`, which holds besides `SessionsInv`: no step of a login,
an exchange or a logout touches the entries (`AuthWalks`).

### What is only model-checked

* liveness (`EveryRequestEnds`, `ShutdownEnds`): fairness and `ENABLED` are out of the prover's
  reach;
* that the six `violation` runs find what they find: each is one behaviour, which TLC prints.

Every other property of a passing run, its invariants and its action properties, is
stated by a theorem.

## 5. Not modelled

Not modelled:

* the dashboard, and the lists other than that of brands: they change nothing, each is
  one query or a few that nobody relies on later;
* the start of the server: configuration, migrations, routing, logging, JSON, validation
  of bodies and formatting of decimals are I/O or pure functions of one request. (Bodies
  in the models are those that pass `Validate`.)
* signatures of access tokens and the role checks of the middleware, which depend on one
  request and on no state;
* `DeleteAllForUser` and `CleanExpired` of the tokens, which nothing calls: a user who is
  deleted, or whose password changes, keeps the rows of `refresh_tokens`, and `GetHolder` is
  what stops a deleted one;
* a crash of PostgreSQL: transactions are rolled back as in `Fail`, and what has
  committed stays, which is external.
