# Verification of the restaurant back end

TLA+ models of the NestJS/TypeORM server under `src/`: orders and their kitchen
tickets, the till, the stock, purchases and returns, the cashbook, attendance
and wages, the catalogue and the reports over all of them, checked by TLC on
small instances and, but for liveness, proved by TLAPS for all instances.

Paths below are relative to `src/src/modules/` unless they start with `src/`.

## 1. Inventory

The server is one Node process in front of PostgreSQL. Handlers are `async`
methods; most wrap their writes in `DataSource.transaction`, at PostgreSQL's
default READ COMMITTED. Only merging and splitting orders lock rows that they
read (`order.service.ts:899, 911, 1075, 1114`). So there are two kinds of
interleaving: between the statements of two transactions (the second sees what
the first committed in between), and between a transaction and the repository
calls, or the transactions of other services, that a handler makes outside it.
`app.module.ts:105` runs TypeORM with `synchronize`, so the entities' columns,
CHECKs, foreign keys and unique indexes are the schema, and several handlers
rely on nothing else. TypeORM's `save(entity)` selects the row again and writes
the columns that differ, cascades included.

| component | state | operations that change it | correct when |
|---|---|---|---|
| orders (`order/`) | orders.status, order_items | create, addItems, removeItem, setItemQty, updateStatus, cancel, mergeOrders, splitOrder, updateMeta | the status agrees with the lines; closed orders stay closed; stock follows the lines; no portion is lost or charged twice |
| order items (`orderitems/`) | order_items.status, quantity | updateStatusBulk, cancelItems, cancelPartial, moveOne; recomputeOrderStatus is called by all | lines follow the transition map; cancelled portions give stock back once |
| kitchen (`kitchen/`) | kitchen_tickets | notifyItems, updateStatusBulk, voidTicketsByMenu, voidAllByOrder, cancelFromKitchen, delete | a ticket belongs to the order and dish of its row |
| invoices (`invoice/`) | invoices.status, total, discount, final | createFromOrder, addPayment, markPaid, applyPromotions, removePromotion | the price is fixed before money is taken; paid means covered |
| payments (`payments/`) | payments, PayOS links | manual, mock, create-link, webhook | a transfer counts once, nothing is taken beyond what is due |
| promotions (`promotions/`) | promotions, invoice_promotions | create, update, activate, softDelete, restore; applied by invoices | the menu shows the discount the till grants |
| stock (`inventoryitems/`, `inventorytransaction/`) | inventory_items.quantity, avgCost | consumed and restored by orders, receipts, returns; create, update, remove, restore, hardDelete | never negative, never made up, no lost update, an average cost that was paid |
| purchase receipts (`purchasereceipt/`) | receipts, paid amounts, stock, average cost | createDraft, createAndPost, updateDraftOrPost, payReceipt, cancelReceipt | goods enter once, the receipt agrees with its vouchers |
| purchase returns (`purchasereturn/`) | returns, refunds, stock | createStandalone, createDraft, changeStatus, update, remove | goods leave once and come back once, refunds agree with the vouchers |
| cashbook (`cashbook/`) | cashbook_entries, cash types, other parties | posted by payments, receipts, returns, wages; entries by hand, their update; cash types; parties | the books agree with the documents |
| sales returns (`returns/`) | sales_returns, stock, cashbook | create | no more returned than sold, money and goods together |
| units (`units-of-measure/`, `uomconversion/`) | units, factors | create, update, remove, activate, deactivate; conversions | a quantity keeps its meaning; what is offered converts |
| menu, combos, categories (`menuitems/`, `menucomboitem/`, `category/`) | dishes, recipes, parts | create, update, remove | references stay valid |
| tables, areas, customers, suppliers and groups | records | create, update, deactivate, remove | references and unique names hold |
| users, attendance, schedules (`user/`, `profile/`) | accounts, shifts, schedules, attendance rows, rules | shifts; scheduling; the manager's sheet; the phone's check in and out; one-time codes | a row's status says what its times say |
| payroll (`payroll/`) | settings, payrolls, slips | upsertSalarySetting, createPayroll, payPayroll | a paid slip has a voucher; the payroll claims no more than its slips |
| reports (`report/`) | none, read-only | | the reports agree with each other and add up over days |
| waiter notifications (`waiter-notification/`) | notifications | create, mark as read | rows belong to a waiter who exists |
| sockets, ai, rag, face, core (authentication), orderstatushistory, mail, helper, scripts, seeder | none that other code decides on | | |

How they interact: orders consume and restore **stock** (ingredients of the
recipes); the **kitchen** gets tickets that point back at order rows;
**invoices** read the order's lines and write the order's status when they are
paid; cancelling an order reads and writes the invoice; **payments** call
`InvoicesService.addPayment`; a payment posts a **cashbook** receipt in the same
transaction; PayOS calls the webhook, more than once if it has to; **receipts**
and **purchase returns** move stock and vouchers in one transaction, while an
entry made by hand brings its document up to date in a second one; **sales
returns** read invoices and lines, put goods back and book a refund; **payroll**
reads attendance, orders and invoices, and pays through the cashbook's own
transaction; recipes, receipts and stock items hold quantities in **units**
that can be edited; **reports** join all of it.

The hard behaviours, each at its line in `PROJECT.json` under `hazards`:
transactions that lock in opposite orders or not at all; the same rows written
by several handlers with rules of their own; TypeORM's cascades, which write
back rows that a handler loaded and changed elsewhere; writes that survive a
transaction which fails; reads that are stale when they are used (remaining
amounts, stock, document status, return numbers, attendance rows); repeated and
late webhooks; crashes between two transactions; boundaries (the last portion,
the last coin, midnight, the end of a period).

## 2. Modules

| module | models | state |
|---|---|---|
| `OrderStatuses` | `enums.ts`, the two transition maps, `deriveOrderStatusFromItems` | none |
| `OrderDesk` | orders, order items, kitchen tickets, the stock they use, the status of the invoice; one request a step | `status`, `row`, `ticket`, `stock`, `invoice` |
| `OrderLocks` | addItems, split, merge and the closing payment overlapping, lock by lock | `portions`, `status`, `stock`, `session`, `locks`, `made` |
| `OpenOrders` | the abstract order desk: each request moves its portions in one step | `portions`, `status` |
| `Pricing` | the arithmetic of invoices: discounts, totals, what is to be paid | none |
| `Settlement` | one invoice: reopening, payments, PayOS, promotions, cancelling, overlapping | `order`, `bill`, `invoice`, `applied`, `payments`, `cashbook`, `link`, `transfer`, `call` |
| `Register` | the abstract till: price first, then money, never more than is due | `due`, `paid` |
| `Stockroom` | what purchasing shares: stock with average cost, its log, vouchers | `stock`, `moved`, `cashbook`, `drift`, `call` |
| `Purchasing` | purchase receipts and their totals | + `receipts` |
| `PurchaseReturns` | returns to suppliers | + `returns` |
| `Cashbook` | composes the two with entries made and edited by hand, and crashes | |
| `PurchaseReports` | five purchase reports | |
| `SalesReturns` | invoices as far as returns read them, and returns statement by statement | `today`, `sales`, `returns`, `stock`, `moves`, `vouchers`, `tx` |
| `SalesReports` | eleven sales reports, the dashboard, ranges of dates, the list of invoices, what is left to return, the cashbook's balances | |
| `Timesheets` | shifts, schedule, attendance by manager and phone, rules | `clock`, `shifts`, `schedules`, `attendance`, `rules`, `edits`, `req` |
| `Payroll` | salary settings, payrolls, slips and their payment, over `Timesheets` | + `settings`, `payrolls`, `vouchers`, `asked` |
| `Units` | units, conversions, chains of conversions, units offered for an item | `units`, `conv`, `removing`, `named`, `goods`, `recipes` |
| `Menu` | stock list, dishes and recipes, combos, categories | + `categories`, `dishes`, `parts`, `history`, `sold`, `billed`, `open` |
| `Promotions` | administration of promotions, the price the menu shows, the promotions the till offers | + `promos`, `now` |
| `Directory` | tables, areas, suppliers, groups, customers, cash types, other parties | `areas`, `tables`, `suppliers`, `groups`, `customers`, ... |
| `Accounts` | accounts, profiles, one-time codes, notifications | `users`, `notes` |
| `BackOffice` | composes the last five | + `desk`, `edits` |
| `MCOrderDesk`, `MCRaces`, `MCSettlement`, `MCSupply`, `MCRefunds`, `MCStaff`, `MCCatalogue` | values of the constants for TLC | |
| `SumTheorems` | what is true of sums over finite sets, for the proofs | |
| `OrderDesk_proofs`, `OrderLocks_proofs`, `Settlement_proofs`, `SalesReturns_proofs`, `Payroll_proofs`, `Purchases_proofs`, `BackOffice_proofs` | theorems | |

A definition whose comment begins "Seeded fault" is a variant of the one after
it with a plausible bug; it is there to show that the properties notice.

### OrderDesk

One action is one endpoint with everything its transaction does; a rejected
call is an action that is not enabled. `Endpoints` names the endpoints an
instance calls, so that a run asks one question. The modelled state is that of
the database:

- A row of `order_items` is `[order, menu, qty, status]`; notes are blank, so
  rows are grouped by dish where the code groups by dish and note. Ids are not
  reused while anything points at them (they are UUIDs).
- A ticket is `[order, menu, qty, status, item]`; `item` may dangle, since
  there is no foreign key. `FIFO`/`LIFO` order of tickets is abstracted to
  "whole tickets first, at most one of them cut": every order the code can
  choose is among the choices.
- `stock` is one figure per ingredient; the log of transactions is left out.
- Each request names one line (`create`, `addItems`, `splitOrder`,
  `notifyItems`); requests over sets of ids take every set.
- What TypeORM's cascade on `Order.items` does is part of the action
  (`CascadeSave`): the rows an order was loaded with are written back, or
  inserted again if they were deleted in between.
- `setItemQty` tries to insert a ticket without its quantity, which the column
  refuses; the savepoint is rolled back. So it makes no ticket.
- `CancelInterrupted`, `CancelPartialInterrupted`: the transaction fails after
  KitchenService has voided tickets through its own repository.

Requests do not overlap here; `OrderLocks` is where they do.

### OrderLocks

A session is a transaction with the list of row locks it will take (`plan`),
the locks it has and what it has read. An `UPDATE` locks its row to the end of
the transaction; inserting a line shares its order through the foreign key,
which only `FOR UPDATE` excludes; `mergeOrders` and `splitOrder` take both
orders FOR UPDATE, the merge in an order the query leaves to the database, and
load the lines once both are locked. `addItems` checks the order's status
without a lock, and reads the stock (`ReadStock`) before it writes it row by
row. At its end an addition recomputes the order's status in three steps: it
reads the order without a lock (`Recompute`; a PAID order is left alone), `save`
selects it again (`Reselect`) and, if the status differs by then, waits for the
order's row and writes PENDING over whatever was committed meanwhile
(`CommitAdd`), PAID included. A merge leaves the source with its portions under
the MERGED order, since the cascade of `save(from)` inserts the deleted lines
again (`CommitMerge`, and `CascadeSave` of `OrderDesk`). A session on a cycle of
waiting sessions is failed by the database (`Victim`). Orders have one dish, a
portion takes one unit of every ingredient; the changes a request makes become
visible together at its commit. The handlers `setItemQty` and `cancelPartial`
are left out.

`OrderLocks` implements `OpenOrders` with `portions` and `status` as they are.

### Settlement

Here interleaving is the question. Each of `Workers` serves one request;
`call[w]` is what it has read so far. A call has up to three steps, since
nothing is locked: it reads; TypeORM's `save` reads the row again (`Select`);
it writes the columns in which its object differs from that second read and
commits (`Saved`). A `webhook` has one more, since it compares the amount
outside of `addPayment`'s transaction. Reads of one handler that follow each
other directly are one step.

- `bill` is what the order's lines are worth, and how far they are below the
  prices the menu lists now (`hidden`, the "built-in" discount of
  `recomputeInvoiceTotals`). It changes while the order is open.
- `order` keeps OPEN, PAID and CANCELLED: settling tells no other apart. Two
  endpoints write it without looking at any payment: `markPaid` and `PATCH
  /orders/:id/status`, which takes an order from SERVED to PAID
  (`AskStatus`, `UpdateStatus`; `order.service.ts:52, 447-460`) or to CANCELLED,
  in two steps since the status it checks is read without a lock. The served
  order whose status is recomputed by a handler on its lines
  (`recomputeOrderStatus`) is in `OrderLocks`.
- `payments` are those with status SUCCESS; `link` is the one PENDING payment
  that carries a PayOS link. No code path turns it into a SUCCESS, so it is
  handed out forever, with its first amount.
- A `createFromOrder` that loaded the payments before another was stored fails,
  because its cascade would detach a payment whose `invoiceId` is NOT NULL
  (`Cascades`). The same cascade over promotions is left out: no run lets
  promotions and reopening run at the same time.
- Promotions are inside their time window; CATEGORY and ITEM promotions match
  every line; every promotion has a code (the column is not nullable), so none
  of scope ORDER is automatic.
- The VNPay handlers of `payments.service.ts` have no route and are left out.

`Settlement` with one worker implements `Register` under the mapping
`due <- ToPay(invoice)`, `paid <- Paid`.

### Stockroom, Purchasing, PurchaseReturns, Cashbook

One request at a time, each transaction one step; nothing here is locked, so
two at a time could move goods twice (`updateDraftOrPost` and a return's
`remove` check the status outside the transaction) or lose a payment
(`payReceipt`). An entry by hand is two transactions: the entry is stored, then
`syncReceiptDebt` or `syncReturnPaidAmount` recomputes the document; a crash may
fall between them. `drift` remembers which documents a step left apart from
their vouchers: a crash, an entry against a draft or a cancelled document, a
return posted with a payment recorded while it was a draft. The code's oddities
are kept: an edited PAYMENT is stored negative; synchronising turns a draft or
cancelled receipt into OWING or PAID without moving goods; posting a draft
return leaves its debt at 0. Amounts are whole, an average cost is in
hundredths. The lines of a return keep the refund they were given when it was
drafted (`each`); amending a posted return writes the header only
(`purchasereturn.service.ts:686`), so `amended` remembers that the two may
differ since. Entries against invoices or no document change nothing else here
and are left out; the cashbook is a bag, since the order of entries is of no
account.

### SalesReturns and SalesReports

Sales are single steps (order, invoice, payment). A return is one transaction
in steps: it reads the invoice and earlier returns, takes the next number of
its day, inserts (the unique index makes the second of two equal numbers wait,
and fail if the first commits), reads the stock, writes stock, log and voucher
and commits; it may fail at each. Totals are the code's: the invoice sums all
the lines of the order, cancelled ones included; a return may name an invoice of
any status, or one line twice; discounts are ignored when money is refunded.
The reports are operators over this state that keep every join of the code: one
that multiplies rows in SQL multiplies them here. Time is in whole days of the
restaurant's zone; hours, paging and the filters on areas, tables and texts are
left out. The list of invoices loads only the payments of the method it is
filtered by, and then shows the others as unpaid; `ReportsAgree` speaks of the
list without that filter. An invoice that costs nothing stays UNPAID and has
nothing remaining. The shares a promotion has in its lines (`Allocated`) are whole
units rounded down, where SQL divides exactly: `ReportsAgree` allows one unit a
share. `ReportsAssumption` has what the handlers ensure of the rows: a promotion is
only applied to goods of some value and takes off no more than they are worth.
The day changes only while no return is in flight. Numbers of a day stay below 9999, after which the code's string order of numbers breaks.

### Timesheets and Payroll

A handler that reads, decides and saves is two steps, `req[c]` is what it
has in hand. `Keys` are the unique person, day and shift of an attendance row.
A save of a row that exists is two steps more, as TypeORM makes it: `SheetSelect`
selects the row again, `SheetWrite` updates the columns in which the entity
differs from that. Two saves that overlap so may leave columns of both in one
row; `overlapped` marks a row that changed between the select and the update of
its last save. `asOf` keeps the shift's times a row's status was computed with.
Time is in
quarters of an hour; the deviation of a phone's clock is below three minutes and
its place is the set of rules it satisfies; the result of face recognition is an
input; windows of check in and out are the defaults. Making a payroll reads
hours, revenue and violations at different moments; paying one is a transaction
that reads the slips, then for each slip calls the cashbook (a transaction of
its own, committed at once) and finally saves slips and payroll from what it
read. It may be cut off anywhere and asked for again. Kept as they are: absent,
leave and missing rows count as shifts, a missing time is taken from the shift,
a slip may be negative and is then never paid, nothing prevents two payrolls for
one period.

### Units, Menu, Promotions, Directory, Accounts, BackOffice

One request is one step, except for the removal of a unit, whose two statements
have no transaction, and a dish whose recipe is refused after the dish was
stored. The four groups of services (`desk`) share no row on which another
decides, so a behaviour is made of the requests of one. What orders, receipts,
invoices and vouchers leave behind is what these services look at before they
delete: `named`, `history`, `sold`, `billed`, `open`, `seated`, `dealt`,
`entered`, sets that grow by steps of the environment. Foreign keys (RESTRICT,
CASCADE, SET NULL) and unique indexes are part of the actions. Kept as they are:
a unit's base items and chained conversions are not looked at before it is
removed or edited; the list of units for an item also has units that do not
convert to its base (`Related` against `Offered`); `isActive` of a unit is
checked nowhere; a combo's update answers 400 inside the transaction after its price was saved, which commits;
deleting a category or a combo takes it out of promotions and leaves the
promotion active with an empty list; promotions that are on are not validated
again when they are edited. Quantities of recipes are in thousandths, as their
columns hold them. Lines of one item in several units are merged while the
request is served, with an exact quotient (`Merged`, `per`), and rounded to the
nearest thousandth when they are stored (`Stored`, `Nearest`): one six and one can
are 1.167 sixes, 7.002 cans, where the dish takes 7. (The comment at
`menuitems.service.ts:232-234` has the chosen quantity emptied when units differ;
the code converts it, and so does the model.) Factors of conversions are whole
here; the seeded factors below one (a gram is 0.001 kilograms) would make the base
quantity round as well. Passwords, texts, images and profile fields are left out.

## 3. Runs

| run | question | bounds |
|---|---|---|
| `till` (234,000 states) | Do stock, status, lines and invoice stay consistent over the cashier's endpoints? `StatusDerived`, `StockConserved`, `CancelledHasNoLiveLines`, `PaidInvoiceClosesOrder` | two orders, three rows, two dishes of which one uses stock, five units of stock for portions of two (so stock runs out), quantities up to 2 |
| `floor` (195,000) | With merging, splitting, removing and cancelling by status: do closed orders stay closed (`ClosedStaysClosed`) and do lines follow the map (`ItemStatusSteps`)? | two orders, three rows, one dish, no stock, quantities up to 2 |
| `kitchen` (65,000) | Do tickets stay with their rows (`TicketFollowsItem`), is nothing stored with quantity zero (`TypeOK`)? | two orders, three rows, two tickets, quantities up to 2 (a ticket can be cut) |
| `races` (91,000) | Overlapping requests on orders: do they add up to requests served one by one (`DeskSpec`, refinement of `OpenOrders`), is what additions took from the stock on the bill of an order that is not merged away (`TakenIsBilled`), does every request end (`EveryRequestEnds`)? `TypeOK` | three sessions, three requests, two orders, two ingredients: opposite splits and merges, crosswise stock rows and a third request that waits for both, a payment or a merge between an addition's read of the status and its save |
| `oversold` | finding: `NeverOversold` | two sessions, one unit of each ingredient |
| `checkout` (104,000) | One request at a time, `markPaid` and `updateStatus` among them: does the till implement `Register` (`RegisterSpec`)? `TypeOK` | one worker, three bills, two promotions, amounts 1 and 4, four payments |
| `counter` (3,115,000) | Two requests at a time, `cancel`, `markPaid` and `updateStatus` among them: `BooksBalance`, `TransferCountedOnce`, `PaidMeansCovered` | two workers, two bills (one of them worth nothing), amounts 2 and 5, one transfer, three payments; a second worker is enough for every race between a read and a commit |
| `overpaid` | finding: `NeverOverpaid` with two requests at a time | as `counter` |
| `supply` (155,000) | Receipts, returns, entries by hand and crashes: do documents agree with their vouchers (`PaidMatchesBook`, `RefundsMatchBook`), do goods move once (`GoodsOnce`), is the average cost one that could be paid (`AvgCostInRange`), do reports agree with each other and with the stock (`ReportsReconcile`) and add up (`PeriodsAddUp`)? | two receipts (two lines, converted units, both kinds of discount), one return, two suppliers, two vouchers; longer histories of vouchers are for the proofs |
| `refunds` (225,000) | Overlapping returns: gapless numbers (`NumbersInOrder`), no lost stock (`StockFollowsLog`), no more than sold (`WithinSold`), money and goods together (`RefundsBooked`); do the reports agree (`ReportsAgree`, `DashboardAddsUp`) and add up (`DaysAddUp`)? `ReturnsTypeOK` | two cashiers, two invoices with promotions, a line cancelled on the second day and a partial payment, two returns, two days in two months |
| `staff` (1,195,000) | Manager, phones and payroll at once: `StatusTellsTheTimes`, `VouchersMatchSlips`, `PayrollNotOverstated` | two people, two clients, two shifts of which one ends late, a row left open on the first day, a sheet that fills it in, one with a check out alone and one of leave, two days a week apart, two edits, one payroll, two payments |
| `catalogue` (287,000) | Any three requests of the back office: `RecipesStayTrue`, `OfferedUnitsConvert`, `MenuPriceHonoured`, references and unique names (`CatalogueTypeOK`) | four units with a chain of conversions, two goods, four dishes, two promotions of three kinds of terms, three moments |

`till` leaves out `removeItem`, cancelling by status and the kitchen's cancels:
the first two break stock and lines (see below), and the kitchen's cancels
delete portions without giving stock back. `PaidMeansCovered` is about the steps
in which an order or its invoice turns PAID: either `markPaid` ("Force mark PAID")
or `updateStatus` declares it, which they do without a payment by design, or the
payments stored cover the final amount, although `addPayment` decides that from
what it read while others pay, cancel, reopen or declare. `counter` leaves out
promotions, which change the price under a payment in flight.
`RegisterSpec` is checked for one request at a time: with two it fails as
`overpaid` shows. It compares with `finalAmount`; when that is
0 the code charges total minus discount, which a concurrent reopening can raise
while the payment that closes the order is on its way.

Properties that hold with an exception name it. `PaidMatchesBook` and
`RefundsMatchBook` leave out documents in `drift`, and entries whose sign was
changed by an edit. `WithinSold` speaks of the lines a return takes itself,
compares with the returns its request had seen and leaves out requests that name
a line twice. `AvgCostInRange` asks for two unit costs the average lies between,
of an item that opened empty: an average need not be a price anybody paid.
`ReportsReconcile` compares totals and shared discounts for bills whose discounts
fit what they are taken from (`Plain`): above that, receipts stop at zero and the
reports do not; it compares the refunds of the report by item with those by
supplier unless a posted return was amended (`RefundsAgree`); and items whose goods come to nothing show no discount, whatever
their receipt has (`report.service.ts:1361`). `StatusTellsTheTimes` allows a
row left open with both times when the manager filled in the check out and the
phone the check in, and leaves out rows that are `overlapped`: when a phone's
check out (in 3, out 7, ON_TIME) is stored between the select and the update of a
manager's sheet with a check out alone (out 5, MISSING), the update writes the two
times but not the status, which had not differed, and the row is ON_TIME with one
time. TLC finds such a trace when the exception is dropped. `VouchersMatchSlips` says what holds although a payment that
was cut off is paid again: vouchers are for whole slips, and no request that
begins after a slip was settled pays it. `OfferedUnitsConvert` compares factors
only while every unit converts to one other; with more, the two searches of the
code may take different paths.

Bounds: `MaxQty` and `QtyCap` bound quantities, `MaxPayments` the payments,
`MaxRequests` the requests of `races`, `MaxEntries` the vouchers of `supply`,
`Refunds` and `LastDay` the returns and the days, `Edits`, `Payrolls` and
`Payments` the requests of `staff`, `Edits` those of `catalogue`; the sets of
ids are finite. Orders, rows, tickets, workers, cashiers, clients and receipts
are symmetric; in `OrderDesk` a fresh id is a `CHOOSE` among free ids that
nothing points at, so choosing another gives a symmetric successor, and the
symmetry is sound for the invariants and action properties checked. The one
run with a liveness property, `races`, uses no symmetry. `CHECK_DEADLOCK FALSE`
stands in the runs whose ids, requests or days can be used up.

**Fairness** is assumed in `OrderLocks` only, and only of what the server and
the database do by themselves: a transaction whose next lock is free takes it,
one that has read goes on, one with all its locks commits (each step is an
awaited query of a process that does not stop), and the database's deadlock
detector fails a session that is on a cycle of waits. Making requests is not
fair. `EveryRequestEnds` fails if a refused request keeps its locks. In the
other models nothing runs by itself: every action is a user's, a bank's or a
customer's call, and the server retries nothing, so no liveness is claimed.

### Findings

1. `overpaid` -- two payments at a time exceed what is due
   (`invoice.service.ts:212-228`), although the comment at 227 cuts a payment
   down to the missing part.
2. `oversold` -- two additions at a time take the last unit of an ingredient
   twice (`order.service.ts:224`), although the stock is validated on the way
   out (213).

Other behaviour met while modelling, in the models as the code has it, and the
reason why a property above is stated with an exception or for some endpoints:

- `PATCH /orders/:id/status` to CANCELLED restores stock and leaves the lines
  in their old status (`order.service.ts:451-460`).
- Removing a cancelled line gives its stock back again
  (`order.service.ts:602-606`).
- A MERGED order keeps its merged-away rows and leaves MERGED when one is
  edited (`order.service.ts:959-1005`); a line added while it is being merged
  reopens it.
- A line added while the order is being paid may make it PENDING again, although
  its invoice is PAID: `recomputeOrderStatus` returns early for what it reads as
  PAID, but reads without a lock and saves later (`orderitems.service.ts:153-170`).
  `ClosedStaysClosed` is therefore about one request at a time.
- `PATCH /orders/:id/status` turns a SERVED order PAID with no payment and no
  invoice (`order.service.ts:52, 447-460`), as `markPaid` does with an invoice.
- Amending a posted return to a supplier leaves its lines' refunds as they were,
  and the report on returned items shows those
  (`purchasereturn.service.ts:686`, `report.service.ts:1537`).
- Saves of one attendance row that overlap mix their columns
  (`attendance.service.ts:72`, `mobile-attendance.service.ts:216`).
- An unpaid invoice that is reopened after the order grew keeps its old final
  amount, and that is what is charged (`invoice.service.ts:103-107`).
- An entry by hand against a draft or cancelled receipt makes it OWING or PAID
  without goods (`cashbook.service.ts`, `syncReceiptDebt`).
- Two returns that overlap, or a request that names a line twice, may take back
  more than was sold; a refund may exceed what was paid
  (`sales-return.service.ts:323`).
- Where a receipt's goods come to nothing the report by item shows no discount,
  although the report by supplier subtracts it (`report.service.ts:1361`).
- Deleting a draft return leaves the vouchers of its payments in the books, of no
  document (`cashbook.entity.ts:64`, `Detached` in `PurchaseReturns`).
- The summary of `salesDaily` is multiplied by the number of payments, and
  `staffSales` and `customerSales` subtract a discount once per line
  (`report.service.ts:242` ff.).
- A payment of wages that fails after its first voucher pays again when it is
  retried (`payroll.service.ts:317`).

## 4. Proofs

A theorem holds for every value of the constants that meets the modules' named
assumptions: any number of orders, rows, tickets, ingredients, sessions,
workers, transfers, promotions, cashiers, clients, payrolls, receipts,
returns, units, conversions and dishes, any recipes, prices, bills and bounds. The
assumptions are the columns' types, what the DTOs and CHECKs admit (`SalesAssumption`, `BillsAssumption`,
`WagesAssumption`, ...), the rows a restaurant opens with
(`OpeningAssumption`), that a database is finite, and that the marks for
"none" are not records; TLC evaluates them in the runs.

| theorem | module | argument |
|---|---|---|
| `TypeCorrect`: `[]TypeOK` | `OrderDesk_proofs` | one lemma per action; inductive as it stands |
| `ClosedOrdersStayClosed`: `ClosedStaysClosed` | `OrderDesk_proofs` | steps, from `TypeOK` |
| `LinesFollowTheMap`: `ItemStatusSteps` | `OrderDesk_proofs` | steps, from `TypeOK` |
| `PaidInvoicesCloseOrders`: `[]PaidInvoiceClosesOrder`, without `merge` | `OrderDesk_proofs` | inductive with `TypeOK` |
| `CancelledOrdersAreDead`: `[]CancelledHasNoLiveLines`, if orders are cancelled by `cancel` only | `OrderDesk_proofs` | inductive with `TypeOK` |
| `TicketsFollow`: `[]TicketFollowsItem` | `OrderDesk_proofs` | inductive with `TypeOK` |
| `StatusIsDerived`: `[]StatusDerived`, without `merge` and `split` | `OrderDesk_proofs` | inductive with `TypeOK` and tickets |
| `StockIsConserved`: `[]StockConserved`, without the endpoints that do not account for stock | `OrderDesk_proofs` | `Balanced`, from `StockSteps` |
| `LocksTypes`: `[]TypeOK` | `OrderLocks_proofs` | from `LocksInv` |
| `WhatIsTakenIsBilled`: `[]TakenIsBilled` | `OrderLocks_proofs` | from `LocksInv` |
| `LocksImplementDesk`: `DeskSpec` | `OrderLocks_proofs` | refinement of `OpenOrders`, from `LocksInv` |
| `SettlementTypes`: `[]TypeOK` | `Settlement_proofs` | from `IInv` |
| `TransfersCountOnce`: `[]TransferCountedOnce` | `Settlement_proofs` | inductive with `IInv` |
| `BooksAlwaysBalance`: `[]BooksBalance` | `Settlement_proofs` | inductive with `IInv` |
| `PaidOrdersAreCovered`: `PaidMeansCovered`, without `promote` | `Settlement_proofs` | from `Covered` |
| `SettlementImplementsRegister`: `RegisterSpec`, one request at a time, no `cancel` | `Settlement_proofs` | refinement of `Register`, from `Current` |
| `ReturnNumbersInOrder`: `[]NumbersInOrder` | `SalesReturns_proofs` | from `ReturnsInv` |
| `RefundsAreBooked`: `[]RefundsBooked` | `SalesReturns_proofs` | from `ReturnsInv` |
| `StockIsLogged`: `[]StockFollowsLog` | `SalesReturns_proofs` | from `FlowInv` |
| `ReturnsStayWithinSold`: `[]WithinSold` | `SalesReturns_proofs` | from `FlowInv` |
| `ReturnsTypes`: `[]ReturnsTypeOK` | `SalesReturns_proofs` | from `SalesInv` and the above |
| `PeriodsAddUp`: `[]DaysAddUp` | `SalesReturns_proofs` | from `ReturnsInv`, `TakenFits`, `SalesInv` |
| `DashboardIsWhole`: `[]DashboardAddsUp` | `SalesReturns_proofs` | from `SalesInv` |
| `ReportsTellOneStory`: `[]ReportsAgree` | `SalesReturns_proofs` | from `ReturnsInv`, `TakenFits`, `SalesInv` |
| `StatusesTellTheTimes`: `[]StatusTellsTheTimes` | `Payroll_proofs` | from `StaffInv` |
| `StaffTypes`: `[]StaffTypeOK` | `Payroll_proofs` | from `StaffInv` |
| `SlipsHaveVouchers`: `[]VouchersMatchSlips` | `Payroll_proofs` | from `StaffInv` |
| `PayrollsNotOverstated`: `[]PayrollNotOverstated` | `Payroll_proofs` | from `StaffInv` |
| `StoreTypesHold`: `[]TypeOK` | `Purchases_proofs` | from `StoreInv` |
| `ReceiptsMatchBook`: `[]PaidMatchesBook` | `Purchases_proofs` | from `StoreInv` |
| `ReturnsMatchBook`: `[]RefundsMatchBook` | `Purchases_proofs` | from `StoreInv` |
| `GoodsMoveOnce`: `[]GoodsOnce` | `Purchases_proofs` | from `StoreInv` |
| `AverageStaysInRange`: `[]AvgCostInRange` | `Purchases_proofs` | from `StoreInv` |
| `PeriodsAlwaysAddUp`: `[]PeriodsAddUp` | `Purchases_proofs` | sums over disjoint sets |
| `ReportsAlwaysReconcile`: `[]ReportsReconcile` | `Purchases_proofs` | `SumSwap`, `Supplied` for the stock, `LinesTell` for the refunds |
| `RowsPointToRows`: `[]CatalogueTypeOK` | `BackOffice_proofs` | from `CatalogueInv` |
| `RecipesMeanWhatTheySay`: `[]RecipesStayTrue` | `BackOffice_proofs` | from `CatalogueInv` |
| `OfferMatchesSearch`: `[]OfferedUnitsConvert` | `BackOffice_proofs` | from `CatalogueInv`, and what the two searches return |
| `MenuKeepsItsPromise`: `[]MenuPriceHonoured` | `BackOffice_proofs` | from `CatalogueInv`, and the arithmetic of discounts |
| `SumRemove`, `SumSwap` | `SumTheorems` | induction over subsets |

All are of the form `Spec => ...`.

**Hypotheses.** Six theorems are about the instances that leave out an endpoint,
or in which one request is served at a time; the runs leave out at least as
much, for the same reasons. A merge leaves an order MERGED although its invoice
is paid; neither a merge nor a split ends in a recomputation of the status.
Merging, and splitting an order into itself, add portions nobody took from the
stock; removing a line restores what its cancelling has restored; the kitchen's
cancel restores nothing; of the two routes to CANCELLED by status one restores
lines that are cancelled already, the other nothing. An order CANCELLED through
`PATCH /orders/:id/status` keeps its lines. `promote` changes the price under a
payment in flight. With two
requests at a time the till is no register (`overpaid`), and `cancel` makes an
invoice that has payments UNPAID, so that it is priced again.

**Sums.** Stock, money and reports are sums over finite sets. `SumTheorems`
proves what the others count with: a sum is that of one element and of the rest,
of two parts, of two functions; it changes by what one value changes; it may be
taken by rows or by columns (`SumSwap`). The community modules define the sum by
a recursion over subsets, and a CHOOSE of a function that satisfies it; the
proofs show that one exists and that two of them agree. The library's induction
theorems take an operator; here the property is a *set* (`SubsetInduction`,
`ElementInduction` over a finite set, `CountingInduction` over positions), which
every prover can instantiate.

**Tickets and statuses.** Most handlers satisfy two facts that together preserve
the link between tickets and rows (`StayingKeepsLinks`): no ticket changes its
order, dish or row (`TicketsStay`), and no row changes its order or dish, while
a row that appears has no ticket pointing at it (`RowsStay`). Handlers that move
things have proofs of their own. The statuses of orders are written either
after a check of the transition map or by the recomputation at the end of the
handlers on lines, which returns early for a closed order: that is all that
keeps it closed. The statuses of lines are written by seven handlers of which
one consults the map. `StatusDerived` needs the tickets: a handler of the
kitchen changes rows through its tickets and derives the status of the tickets'
orders, which are the rows' orders by `TicketFollowsItem`.

**Stock of orders.** `Balanced` says of each ingredient that stock plus what the
live lines consume is what the desk opened with. Each handler keeps that sum
(`StockSteps`), most by the change of one line (`OneRowSteps`); `cancel` and the
item service cancel several lines at once and give back the sum of what they
used. The early return for a line that is cancelled already is needed in each.

**Settlement.** The types are not inductive: `addPayment` writes back an
invoice it read two steps earlier. `IInv` adds to `TypeOK` `CallsHaveInvoice` (a
call that is about to save has an invoice in hand, and it is still in the table)
and `CallsHaveTransfer` (a webhook is about a transfer that was made, and takes
no more than that). `TransferCountedOnce` then rests on the unique index on
`payments.externalTxnId` (`MayStore`). `BooksBalance` holds since a payment inserts
its cashbook entry in the transaction that stores it, and no other does.
`Covered` is what makes an order that turns PAID covered although requests overlap:
the final amount a call read is still the invoice's, and at least what it counted
has been paid, so a payment that finds the price reached is right
(`ClosesCovered`); the invoice a declaration or a cancellation writes back
changes no amount. For the register,
`Current` says that what the one worker has read is still what the tables hold,
and `PaymentsFixPrice` that an invoice with payments is not UNPAID, hence not
repriced. Each step is then a step of `Register` or a stutter.

**Locks.** `LocksInv` says what a session in flight is entitled to. Two sessions
hold no conflicting locks on a row (`Exclusive`); a request's plan and locks fit
its kind, and what a split or a merge has read of its two orders is still what
they hold, because both are locked FOR UPDATE (`RequestsOK`). A line that
another session adds needs a shared lock on its order, which is therefore not
one of the two. Hence a split or a merge writes what a single step would write
at that moment, and every commit is a step of `OpenOrders`, every other step a
stutter. `TakenIsBilled` is part of the invariant, with `ReadIsBilled`, which says
the same of the stock an addition has read and will write from. The line an
addition has inserted shares its order, so that no merge of that order commits
until the addition does: an order that was merged away before is read as MERGED and
written PENDING, hence billed again; one that was not stays on the bills. A merge
takes its source off the bills and puts as many portions on the target's.

**Sales returns.** `ReturnsInv` is `RequestsShaped` (what a request in each of
its stages has read), `NumbersDrawn` (a number drawn is at most one above those
committed), `NumbersInOrder` and `RefundsHaveVouchers`. The unique index lets
one request at a time past its insert; while it is there, nobody else commits,
so its number is still the next and the stock it read is still the stock when it
writes (`StockLogged`): that is the only reason why two returns do not lose
stock. `TakenFits` says that a request fits what was sold together with the
returns it had seen; returns are never changed, so it still does when it is
committed. `SalesInv` has the invoices: a status is what its payments say, and
they never exceed what the invoice costs.

**Sales reports.** The reports are functions of the state, so the invariant is
that of the returns; the work is in the sums. Each report is restated as one sum
over invoices of a fixed function (`TotalOf`, `DiscountOf`, `AllocatedOf`, ...):
`ProfitOfPeriod`, `CashbookIs`, `DailyRevenueIs`, `CancelledIs`, `StaffItemsAre`.
Sums of lines are sums over pairs (`SumPairs`); the days of a series, the dishes of
`topItems`, the employees and the lines of a return each put every row into one
group (`SumGroups`); adjoining periods are disjoint sets of days (`Periods`,
`SumSplit`). Employees bear what the promotions took off only up to rounding
(`SplitPromotion`: n shares rounded down lose at most n units). What came into the
cashbook is what the invoices say was paid, since a payment is cash or a transfer
(`RowOfInvoice`); nothing is left of an invoice only when it is paid, since
payments are cut to what remains (`NothingLeft`); refunds are the returned
quantities at their prices, taken by return or by line (`RefundsByLine`).

**Staff.** `StaffInv` is `OfficeOK`, `WagesOK` and `RequestsOK`. A row's status
agrees with its times or is `overlapped` (`RowOK`), and so does each entity that a
request is about to save (`SheetOK`, `WriteOK`): an update that nothing came before
since its select writes the entity itself (`WrittenRow`). A slip is fresh or settled in full
(`PayrollOK`); a request that pays has read slips that were fresh *then*, and
the payroll may have moved on since, but only from fresh to settled (`Later`).
What it writes back at the end is its own stale sums, which is why the payroll
may claim less than was paid and never more. A voucher is of a request asked for
before its slip was settled (`VoucherOK`), and so is a request that still has the
slip in hand (`PayOK`): the double payment of a retry is possible until the slip
is saved and not after. That wages are whole numbers whatever the settings say
is a theorem of its own (`AfterPayment` and the lemmas on what a sheet is worth).

**Purchases.** `StoreInv` is `TypeOK`, `Consistent` and `Supplied`. `Consistent`
says of the vouchers, the documents in `drift` and the entries in flight: a
document that is not known to be apart from its vouchers agrees with them; a
voucher names a document that exists (a deleted draft detaches its own); an
entry in flight is about one that exists. Every step touches one document at most
(`Frame`), so that a lemma about that document is enough (`Settles`).
`Supplied` says that the stock is what it opened with and what documents moved,
that a receipt moved nothing or its goods, a return its goods exactly while it is
posted, and that the average of an item that opened empty is between two costs it
can be bought at (`Valued`): a rounded weighted mean stays between its two ends
(`RoundedBounds`), goods that leave do not change it, and goods that come back
with a cancelled return find it where they left it. Importing a receipt is a fold over
its lines, taken one by one (`ImportAll`). `LinesTell`, an invariant of its own,
has the lines' refunds sum to the return's unless it was amended. The reports by
item and by document are the two ways to sum one table; the rounding of a line's
share costs half a unit at most (`ItemsHold`).

**Back office.** `CatalogueInv` has a part for each group of services, and each
group's actions leave the others' parts alone. `UnitsInv` is the delicate one. A
recipe's line is right when it is stored: what the lines of a request come to is an
exact fraction, by induction over them (`LineIsLine`, `MergedIsLine`, `ScaledDown`),
and rounding it to the nearest thousandth costs at most half of one (`NearestBounds`,
`RoundedShare`, `StoredIsLine`). It stays right
because a conversion under a recipe is refused every change (`Spoken`), a unit in
use cannot be removed, and an item in a recipe keeps its base unit (`StockKeeps`,
`ConversionsKeep`, `UnitsKeep`). The removal of a unit in two statements fits in
since the second looks at foreign keys again. What the recursive search returns is
proved by counting the units it has not seen: a call that comes back with 0 leaves
behind only seen units, and every conversion of one of them leads to another, or
to a unit whose loop is still running (`TryIsRight`); so a path that exists is
found although all branches share one set of visited units (`SearchIsRight`). The
layers of `getUomsForItem` grow to the least set closed under "converts to one
found", in at most as many rounds as there are units (`FoundUnits`), and
that is the set of units with a path (`OfferIsRight`). The menu and the till look
at the same promotions of a dish, with two ways to round and to cap that come to
the same (`Discounts`, `GrantedOnDish`); the largest of one is the largest of the
other. What a restaurant opens with is `OpeningAssumption`: rows of the columns'
types that satisfy the same invariants.

**Only model-checked.** Liveness (`EveryRequestEnds`) is out of the prover's
reach and stays with TLC. Every other property of a passing run is a theorem, six
of them for the instances the table names. `NeverOverpaid` and
`NeverOversold` are false, as `overpaid` and `oversold` show.

## 5. Not modelled, and why

- Authentication and roles (`core/`), face recognition, the assistant (`ai/`,
  `rag/`), mail and the pushing of socket messages: calls to services outside,
  or checks in front of handlers; no modelled state depends on them beyond an
  input.
- `orderstatushistory/`: an append-only log nobody reads to decide.
- Seeding, scripts and migrations: run before the server serves.
- The VNPay handlers of `payments.service.ts` and `remove` of the cashbook: no
  route reaches them.
- `updateMeta`, notes, priorities and kitchen batches; paging, searching, text
  and area filters of lists and reports; passwords, profile fields, images.
- Overlapping requests in purchasing, the back office and the handlers of
  `OrderDesk` outside `OrderLocks`: they would break properties in the ways the
  notes of `hazards` say.

What could follow: overlapping receipts and payments in `Purchasing` against an
abstract debt; `setItemQty` and `cancelPartial` in `OrderLocks`; filters and hours
of the reports.
