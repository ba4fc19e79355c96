# StockUp in TLA+

StockUp (a LoopBack API, an Angular admin application and a set of queue
workers) generates replenishment orders for retail stores, has users review
them, pushes them to the point-of-sale system (Vend) as consignments, and
receives the deliveries. This directory holds TLA+ models of its core, the TLC
configurations that check them and the TLAPS proofs about them.

## 1. Inventory

| Part | Source | State | Operations | Talks to |
|---|---|---|---|---|
| Stock order API | `common/models/report-model.js`, `org-model.js` | `ReportModel` (state, `vendConsignmentId`), `StockOrderLineitemModel` | generate, create purchase order, send delivery, receive consignment, edit line items, add/delete product | MongoDB, the work queue, pages over HTTP |
| Work queue | `common/utils/workers.js`, `workers/sqsWorker.js`, `terraform/resources/aws/sqsQueues.tf` | SQS messages; dead letter queue after one receive | send, receive, route, delete | one process per message |
| Generate worker | `workers-v2/generate-stock-order/generate-stock-order-vend.js` | rows of the order | compute rows, set the default state, run the two next workers inline | MongoDB |
| Purchase order worker | `workers-v2/generate-purchase-order-vend/...` | the consignment it created | create, push lines, mark as sent | MongoDB, Vend |
| Receive worker | `workers-v2/receive-consignment/...` | the line items it read | update/delete lines, mark as received | MongoDB, Vend |
| Vend connector | `workers/jobs/utils/utils.js`, `common/utils/vend.js` | OAuth token, retry counter | one HTTP call each, `retryIfErrorCode`, token refresh | Vend |
| Order pages | `admin/src/app/home/orders/stock-orders/*` | the order as loaded | PUT of the opened state on load, edits, the API calls | API |
| Barcode scanning | `common/models/stock-order-lineitem-model.js` | quantities and flags of a line item | `scanBarcodeStockOrder` | MongoDB |
| Sync engine (Vend) | `workers/syncWorker.js`, `find-differential-vend-data.js`, `fetch-incremental-{suppliers,products,inventory,sales}.js`, `sync-model.js` | `SyncModel` (version, `syncInProcess`, `lastSyncedAt`), the catalogue | claim, fetch page by page, save, save the version, release | MongoDB, Vend |
| Sync engine (Dynamics) | `find-differential-msd-data.js`, `fetch-incremental-*-msd.js`, `fetch-category-msd.js` | the same `SyncModel`s; the staging tables' `STOCKUPTRANSFER` column | count pending rows, select, save and mark page by page, release | MongoDB, SQL staging tables |
| Dynamics orders | `generate-stock-order-msd.js`, `generate-reorder-points.js`, `workers/utils/queries.js` | reorder points, rows of the order | quantities from stocks, reorder points and options | MongoDB |
| Transfer order worker | `generate-transfer-order-msd.js`, `workers/jobs/utils/msd.js` | the transfer order's header, batches, percentage | post the header, push lines in batches, save the number | MongoDB, Dynamics |
| Orders from files, added products | `import-stock-order/*`, `report-model.js`, `stock-order-lineitem-model.js`, `add-product-modal.component.ts`, `receive.component.ts` | line items, their flags, discrepancies | import, fulfil from a file, add, edit, push, delete, list discrepancies | MongoDB, Vend, pages |
| Connection and onboarding | `integration-model.js`, `org-model.js`, `common/utils/{vend,msd}.js`, `workers/jobs/utils/{utils,msd}.js`, `sync-model.js`, `connect.component.ts` | `IntegrationModel` (OAuth tokens, company, database), stores, users, categories | connect, refresh, first copy of the data, start and stop of the synchronisation | MongoDB, Vend, Dynamics, pages |
| Scheduler, notifications, helpers | `scheduler-model.js`, `notification-service/`, `common/utils/*` | cron entries, SSE connections | | |

What is hard about it. Nothing in the program holds a lock or a transaction:
a handler reads a document, awaits, and writes with an unconditional
`updateAll({id}, ...)`. Several users, several workers and the pages' own PUTs
write the same `state` field; a worker writes MongoDB and Vend alternately, and
any call may fail or take effect without an answer; a dead worker's message is
not delivered again. Correctness therefore lies in protocols between the parts:

* an order that its page shows as being worked upon really is (else it is
  locked for ever);
* the supplier gets one purchase order, with all approved lines;
* a complete order was received in Vend, and both count the same items;
* no scan is lost, and an item is flagged only when its quantity is in;
* what a sync model's version covers is in the database, and an organisation
  never stays claimed by a sync that is over;
* what Dynamics exports is copied, whatever is exported meanwhile, and a row is
  left out only for want of what it refers to;
* an order of a Dynamics organisation asks for what the stores lack, and its
  transfer order is created once and with all its lines;
* a line that a file or a user adds to an order reaches Vend once, and the
  discrepancies a page shows are those the order has;
* several processes that refresh one OAuth token do not lose the connection, and
  the synchronisation begins with the data its workers take for granted.

## 2. Modules

| Module | What it is |
|---|---|
| `ReportStates` | the order states and the lists that classify them |
| `VendOrder` | the life of one Vend order: API handlers, pages, queue, the three workers and Vend, composed in one module because they share the order |
| `MCVendOrder` | symmetry for TLC |
| `VendOrderProofs` | proofs about `VendOrder`, of what holds however requests overlap |
| `VendOrderAgrees` | proofs about `VendOrder`, of what the order and Vend agree upon while they do not |
| `BarcodeScan`, `MCBarcodeScan`, `BarcodeScanProofs` | scanning one line item, its TLC module and its proofs |
| `VendSync`, `MCVendSync`, `VendSyncProofs` | the synchronisation of an organisation's catalogue with Vend, its TLC module and its proofs |
| `OrderLines`, `MCOrderLines`, `OrderLinesProofs` | the line items of one order: files, added products, pushes to Vend, discrepancies; its TLC module and its proofs |
| `Replica` | an abstract specification: what a synchronisation promises |
| `MsdSync`, `MCMsdSync`, `MsdSyncProofs` | the synchronisation with Dynamics' staging tables, which implements `Replica`, its TLC module and its proofs |
| `MsdQuantities` | the quantities of an order of a Dynamics organisation, as pure operators |
| `MsdOrder`, `MCMsdOrder`, `MsdOrderProofs` | the generation of such an order and its transfer (extends `MsdQuantities`), its TLC module and the proofs about both |
| `Connection` | an organisation's OAuth tokens and the calls that use and refresh them |
| `Onboarding`, `MCOnboarding` | connecting an organisation and starting its synchronisation; extends `Connection` |
| `OnboardingProofs` | proofs about `Connection` and `Onboarding` |

An operator whose comment starts with "Mutant" is not part of a specification:
it is a plausible bug in the definition below it. Each property of each run
fails when the mutant takes the definition's place, which shows that the
property depends on that line of the code. PROJECT.json pairs them and maps every
definition to the source lines it stands for.

### VendOrder

State. `report` is the `ReportModel`, `item` its line items, `vend` the
consignments in Vend (`open`, `sent`, `received`; their lines and the lines with
a received quantity), `session[s]` the page a user has open and the handler the
call is in, `job[j]` a queue message and the worker it starts. A worker's local
variables are in its `job` record: `own` is the consignment id it holds, `todo`
and `plan` the line items it read, `cur` the one whose Vend answer is not yet
saved. Quantities are abstracted to "positive or not", which is all these
handlers test.

Steps. An action is the code between two awaits: e.g. `CallCreatePurchaseOrder`
is the `findById` and its checks, `WriteSendingToSupplier` the `updateAll`,
`SendPayLoad` the `sendMessage`. A worker's `pc` names its next database or Vend
call: `gen_*` for the generate worker, `po_*` for the purchase order worker,
`rc_*` for the receive worker; a worker run inline by the generate worker is the
same process, hence the same job with `op = "generate"`.

Failures. `...Fails` is a call that fails without effect, `...Unanswered` one
that took effect but whose answer was lost, `SendPayLoadFails` a queue that
refuses the message, `GiveUp` a worker that could not even write the failure
state, `Crash` a dead process (its message goes to the dead letter queue).
`faults` counts them all up to `MaxFaults`.

History. `mixed` records what happened together: `overlap` (a request was
accepted while another was running, or after its check had become stale),
`lateEdit` (line items were edited while a request ran or from a page of an
earlier state) and `lostReply`. Properties that hold only without one of them
name it in their premise; `BusyIsServed` and `CompleteIsReceived` need none.
The other modules have such variables too (`stuck`, `quiet`, `lostBatch`,
`overlap`, `unassigned`, and `mixed` again). Each marks something that the code
itself loses or gets wrong and never repairs; the property that names it then says
that nothing else has that effect, and does not catch the marked case. Where one
excepts a part of a hazard, PROJECT.json says so in the hazard's note.

Vend (external) is modelled from the calls in `workers/jobs/utils/utils.js`.
That Vend does not take a received consignment back to sent is an assumption.

Not in the model: the reset of `orderQuantity` of unapproved items, the
notifications, prices and quantities as numbers, the cleanup at the end of the
receive worker (its filter compares a string with an ObjectId and matches
nothing), imported orders (they alone set `desiredState`, so the purchase order
worker ends in FULFILMENT_PENDING here).

### BarcodeScan

One approved line item: `quantity` and `flag` for the scan types, and for every
user the scan in progress. `FindLineItem` is the `findOne` with the decision
taken on what it read (alert, or add one and perhaps flag), `IncrementQuantity`
the `$inc`/`$set`, `Answer` the second read. `ScanFails` loses the answer before
or after the write; `EditQuantity` is the page's manual edit of an absolute
quantity. `reported` and `lost` are history: what the users were told.

### VendSync

One organisation and the one sync process (`docker-compose.yml` starts one
container, `restart: always`; the process takes organisations one after the
other, and they share nothing). `sync` holds the `SyncModel`s, `worker` the
process: `pc` names its next database or Vend call, `kinds` the sync models it
found and has still to fetch, `page` the answer it is saving, `after` and `upto`
the versions the page starts after and ends with. `vend` gives each record the
version of its last change, from the one counter Vend numbers changes with, and
`db` what the workers saved. The four fetch workers have the same steps (fetch,
save, save the version, fetch the next page); sales save twice (`SaveLineItems`),
suppliers get a virtual store after the version is saved (`AssignVirtualStores`).
`SavedRecord` says what is saved of a record: inventory of an unknown product is
skipped, and deleted suppliers stay, because the filter that removes them
compares the organisation's id as a string.

Every error of a fetch ends its kind (`FetchFails`; an unordered batch may be
partly applied, `SaveSome`) and is resolved by `run()`, so that the next kind is
fetched and the organisation is released as synchronised. `Crash` ends the process
anywhere; `stuck` is history: a process ended without a release and the
organisation is still marked, so that no process will find it.

Abstracted: the contents of records, the stores (all known), token and
integration lookups (one step, `Connect`), syncInterval (a flag, `due`). Every
deleted sale has line items. The removal of sync models of unsupported kinds is
left out, because none is created.

### OrderLines

One order and its line items. `report` is the order with its consignment in Vend and
the message of the receive worker (`receiving`); `line[l]` has the flags `approved`
and `fulfilled`, which the database may lack, the quantities, `counted`
(`receivedQuantity` is set) and `linked` (`vendConsignmentProductId` is set); `vend`
counts the products that were created in the consignment. `user[u]` is a session: its
page, what the receive page has loaded (`isDiscrepancyLoaded`) and the call it is in
with what that call has read; `import[m]` a message with its file, and the worker that
creates an order from it or fulfils the one that matches. The actions are the
remote methods and workers that add, edit, push, receive and delete line items, each
split at its awaits. `Others` are competing orders for the 80 % match of a file, of
which the run has none.

`mixed` is history, as in `VendOrder`: calls that overlapped, a product of Vend whose
id was not saved (`unlinked`), a line item that joined the delivery and that no code
pushes (`unpushed`), discrepancies that were loaded in part or changed later
(`partial`). The properties make exceptions of these, and of the order states that only a
file asks for (`GivenByFile`).

Where the code differs from what its comments and pages say (each is a behaviour
of the model, and the properties hold beside it):
* the modal offers the same addition in all states of fulfilment and receipt,
  but `addProductToStockOrder` pushes the line only in the two IN_PROCESS states
  (`report-model.js:1361-1450`), so a line may never reach Vend;
* a row of a file with `fulfilledQuantity` 0 for an unknown product is inserted
  and never pushed (`fulfill-order-from-file-vend.js:242-263`, against the
  docstring at :219); of two workers, one may take back what the other was to push;
  and its cleanup, an `updateMany` without `$set`, rejects
  (:452-459);
* a retry after a failed push answers "already exists" and never pushes;
* an imported line has no `receivedQuantity`: it counts as a discrepancy, and
  `getDiscrepancyReason` gives no reason;
* a scan on the receive page does not reset `isDiscrepancyLoaded`;
* an order imported as COMPLETE is never received in Vend.

### MsdSync and Replica

The process of `VendSync` for a Dynamics organisation. `table` is the staging
tables (a version for each row and whether it is pending), `worker` counts the
pending rows of every kind, then selects, saves and marks a page at a time, and
releases each kind's `SyncModel`. `Export` is Dynamics, at any time.

`Replica` says what this is for: copies follow the source, and what the source
no longer offers has been copied or has one of two excuses. `ImplementsReplica`
is `Promise!Spec`, under the mapping at the end of `MsdSync`: `copy` is `db`,
`settled` the rows that are not pending, `excused` those that were exported
again between their selection and their mark, or skipped. The excuses are what
the code does: it marks by key and not by version, so a row exported between is
marked unsaved, and it marks rows whose product or sale it does not know.

Other divergences: the worker of product categories names the `SyncModel`
`products`; errors inside a fetch worker are resolved; a process that dies with
every kind claimed leaves the organisation stuck until the sync is stopped and
started by hand. `inventoryDims` are counted but never fetched.

### MsdQuantities and MsdOrder

`MsdQuantities` computes an order's lines: `ToReplenish` and `InWarehouse` are the
two aggregations of `workers/utils/queries.js`, `OptionOrderQuantity` the largest
need among the products of an option, `OrderQuantity` what a line asks for, and
`LineItemsToOrder` the result. `ToCalculate` are the products whose reorder point is
due, `Points` the reorder points once these have been calculated: a point of today is
kept, unless the organisation recalculates every time or changed the range of its
sales. A reorder point and the demand behind it are whole numbers, where the code
has fractions; both may be below zero, since a return is a sale of a negative
quantity. The reference it is checked against is `OrderFillsOptions`: an order
generated without a failure fills the options that the warehouse has enough of up
to their maximum, give or take the rounding of each line, and never goes beyond the
warehouse, nor, unless a product of the option has a negative point, beyond the
maximum. (With points of 4 and -2 the first product takes 4 / 2 of what its option
lacks: the code does order more than the maximum then.)

`MsdOrder` is the protocol around it: sessions, queue, the generate worker and the
transfer worker, which posts a header to Dynamics, pushes batches of lines
concurrently, counts a percentage and saves the transfer order's number.
Divergences: errors of the reorder points are passed over; a failed batch is passed over as
well, so an order may wait for fulfilment with lines missing in Dynamics; when
saving the number fails the order stays in PUSHING_TO_MSD; the distribution
the docstring promises never takes effect (its query asks for orders whose
`transferOrderNumber` does not exist, and every order is created with one that is
null); the percentage is not reset before a retry.
The properties name the faults after which these happen. The code also skips an
approved line whose product is gone; nothing deletes a product, and the model has no
such line.

The reorder points are to be calculated "for each product" and kept only when they
"might have been generated already today" (`generate-reorder-points.js:118`,
`:180-181`). `MeantPoints` says this by itself, and `OrderFillsOptions` measures an
order by it. It makes one exception, where the code differs: an inventory without a
date of calculation does not come before today for the database, and an organisation
is created without a range for its sales (`user-model.js:157`), from which no other
range differs then. So no inventory that was never calculated is due, and the orders
have no lines until somebody saves a range on the page of the reorder points.

The percentage counts in units of which `Hundred` make 100 %: each batch adds
`(1 / totalBatches) * 100`, and `Hundred` is taken so that this is a whole number
for every number of batches there can be. The rounding of the code's floats is left
out.

### Connection and Onboarding

`records` are the organisation's `IntegrationModel`s, of which the code uses the
first; `vendor` is the authorisation server (external): the tokens issued, the
refresh tokens it accepts and the access tokens that have expired. A `caller` is
a page's call of the API or a worker; it reads the record, refreshes an expired
token, saves the answer and makes its call. The API saves to all records of the
organisation, a worker to the one it read, and a worker of a Dynamics
organisation to none (`workers/jobs/utils/msd.js:83` compares a string with
an ObjectId). `lost` is history: a grant was revoked or the answer of a refresh
did not reach the database, which no client can undo.

`Onboarding` adds the Connect page (`page` is what it has loaded), the two OAuth
callbacks, the one-time copies (`db`) and the creation of the `SyncModel`s
(`sync`). `created` is `usersCreated`, and `unassigned` the users whose call
failed before they had a role: on the role itself, or because they were saved but the
answer of `findOrCreate` was lost, so that the call did not count them as created.

Divergences: `handleVendToken` always creates a record, which is never used when
there was one, and the page has no reconnect button for Vend; the "Stop Sync" button
of Vend calls `initiateVendSync`; `syncVendUsers` never rejects;
`assignStoresToVendUsers` passes its options as the role
(`sync-model.js:656`), so no user of Vend gets stores; a role that could not be
given is never given later; when the companies cannot be fetched after
connecting there is no way to fetch them again while the integration is active.

Abstracted: one system per organisation, chosen at the start; all access tokens
issued expire together; a call may be refused at any time, for a token can
expire on the way; Vend may or may not rotate the refresh token, Dynamics keeps old
ones valid; what the vendor holds does not change; `Types` stands for the product
types of the one page, of 1000, that `getVendProductTypes` fetches (it never asks for
a second); the SDK's own refresh on
a 401 and the events of the page are left out.

## 3. Runs

| Run | Configuration | What it shows |
|---|---|---|
| `order_approval` | 2 items, 2 users, 3 messages, 3 consignments, 1 fault, the approval page | two users edit and send the order, one attempt may fail, go unanswered or crash, and it is sent again: `OnePurchaseOrder`, `SentOrderIsKnown`, `SentOrderHasItsLines` |
| `order_receipt` | 2 items, 1 user, 2 messages, 1 fault, all pages, orders generated at FULFILMENT_PENDING (through the inline purchase order), RECEIVING_PENDING or COMPLETE (purchase and receipt in the worker that generates) | receipts that fail and are repeated: `BusyIsServed`, `CompleteIsReceived`, `CompleteOrderAgreesWithVend` |
| `order_liveness` | 1 item, 1 user, 2 messages, three default states, no symmetry | `BusySettles`: the locked states are left |
| `order_double_creation` | 1 item, 2 users, no fault | a violation: two overlapping calls both start a purchase order |
| `barcode_scan` | 3 users, ordered quantity 2, 1 lost answer, 1 manual edit | `NoScanIsLost`, `ScannedFlagIsEarned`, `FlagHasQuantity`, `SequentialScansFlag` |
| `barcode_scan_flag` | 2 users, no fault, no edit | a violation: the ordered quantity is in and the item is not flagged |
| `sync_catalogue` | 1 supplier, 2 products, 1 inventory record, 1 sale, pages of 1, 3 changes in Vend, 1 fault, the sync model of suppliers created, the others on the way | `ClaimIsHeld`, `SyncedMeansSaved`, and `CatalogueCatchesUp` under fairness |
| `sync_inventory` | 1 supplier, 1 product, 1 inventory record, 3 changes, no fault | a violation: inventory is skipped and its version saved |
| `order_lines` | 2 products, 1 user, 1 import, three files (to fulfil, to receive, to review), 3 lines, 1 fault | `FulfilledIsInVend`, `ReceiptFailsForAReason`, `OneLinePerProduct`, `OneVendLine`, `CompleteOrderShowsDiscrepancies`, `ReasonsExplainDiscrepancy` |
| `msd_sync` | 2 products, 1 row of each other kind, pages of 1, 3 exports, 1 fault or stop | `ImplementsReplica` (refinement), `SkippedForAReason` (an action property), `EveryRowIsTransferred` under fairness |
| `msd_order` | an option of 2 products, 2,768 combinations of stocks, multipliers and reorder points (kept, due, never calculated, negative), 2 users, 3 messages, 2 transfer orders, batches of 1, 2 faults | `OrderFillsOptions`, `BusyIsServed`, `TransferOrderHasTheLines`, `OneTransferOrder` |
| `onboarding` | either system, 2 users, 1 worker, 3 tokens, 3 calls, 1 fault, 2 stores, 1 user, 1 category | `GrantIsLostForAReason`, `SyncHasItsData`, `RoleIsMissingForAReason` |

Bounds. Two line items are enough for one to be done and another not (pushed,
received, approved). Three messages allow a request, its retry and one request
that overlaps them; three consignments one per message. One fault already reaches
every error path, and the retry after it; two users are what a race takes.
Three scanners let two race while the third scans alone; the ordered quantity 2
separates the first scan from the one that reaches it, and the maximum of 4
leaves room to overshoot. In `VendSync` pages of one record and two products make
a kind of several pages, and three changes let one happen during a sync that
fetches another. `MsdSync` has one row of every kind, so that each dependency is
exercised, and two products for a second page. In `MsdOrder` two batches make
the concurrent pushes, and two faults a failed transfer that is repeated and fails
otherwise. In `Onboarding` three tokens allow one to connect and two callers to
refresh at once, and two stores make a copy that is half done. Deadlock is
checked in `onboarding`, whose pages can always be opened, and not elsewhere: an order that
is complete, or whose messages are used up, really stops, and so does the sync of
an organisation that a dead process has left claimed.

Fairness. `FairSpec` is weak fairness of each handler once it has started
(`SessionStep`) and of each message and worker (`WorkerStep`): the event loop
runs promises whose I/O has completed, SQS delivers a message that is queued and
the worker daemon restarts `sqsWorker.js` for each. A user's calls
(`SessionCall`) have no fairness, and a failure is one of the steps a worker may
take. The sync process keeps running and time passes (`Elapse`, `WorkerStep`);
changes in Vend or
in the staging tables and the creation of sync models have no fairness.

What the violations show. `createPurchaseOrderVend` means to refuse an order
whose purchase order is in progress (`report-model.js:678`), but checks the
state before an await and writes it unconditionally. `scanBarcodeStockOrder`
means to flag an item when the ordered quantity is reached
(`stock-order-lineitem-model.js:192`), but decides on the count it read before
its `$inc`; the TODO on line 193 names the remedy.
The order of the fetches is there because "Inventory is
dependent on products, so it needs products"
(`find-differential-vend-data.js:161`), but a product created while its sync runs
comes too late for it, and the version is saved over the skipped record
(`fetch-incremental-inventory.js:168`).

`CatalogueCatchesUp` excludes sales once one was deleted:
`saveSales` then uses `eachSales` out of its scope
(`fetch-incremental-sales.js:272`) in every sync.

## 4. Proofs

All are for every value of the constants, under the assumptions that the modules
name: `ConstantsAssumption`, `ScanAssumption`, `SyncAssumption`,
`LinesAssumption`, `MsdAssumption`, `QuantitiesAssumption`, `MsdOrderAssumption` and
`ConnectionAssumption` (null ids are none of the ids, pages and default states
are known ones, bounds are natural numbers, an order has finitely many products).
TLC evaluates each of them in a run.

Every type invariant below is a theorem (`TypeCorrect`, `ScanTypeCorrect`,
`SyncTypeCorrect`, `OnboardingTypeCorrect`, `OrderTypeCorrect`, `LinesTypeCorrect`), by
one lemma per actor or action. The safety properties are seldom inductive by themselves; what
each needs besides is this.

`VendOrderProofs`:
* `OrdersAreServed`: `BusyIsServed` alone is not inductive: a receive worker run
  inline could otherwise end a request nobody made. The strengthening is
  `InlineReceiptIsForComplete` (a generation runs one only for a supplier whose default
  state is COMPLETE: the lemma `InlineReceipt`). The proof first tabulates what a worker's step may do
  to its job and to the order's state (`GenerateOutcome`, `PurchaseOutcome`,
  `ReceiveOutcome`), then shows from the table alone that a busy state keeps its
  request (`PendingAdvances`, `ServedByWorker`) and that sessions only add requests
  (`PendingIsSent`, `ServedBySession`).
* `CompleteOrdersAreReceived`: the strengthening is `SettledIsReceived` (a worker
  about to write COMPLETE has marked its consignment as received), and the lemma
  `ReceivedStays`: no step takes a received consignment back.

`VendOrderAgrees`, from one invariant, `OrderInv`, on executions whose requests do
not overlap:
* `OneActor`: at most one session or worker is at work on the order. `SessionInv`
  and `JobInv` tell, for each `pc`, the state the order is in, which consignment
  the worker and the order both name, that nothing is sent or received while
  the order may still be ordered, and that what the worker has done and has still to
  do add up to the whole order. `DataInv` says the same between two requests.
* `OrdersAreSentOnce`, `SentOrdersAreKnown`, `SentOrdersHaveTheirLines` and
  `CompleteOrdersAgreeWithVend` follow. The proof of the last one is why the property speaks of the line that the
  order has for an item: it may be one of an earlier purchase order, which failed
  after pushing it. A first form of it, which named the order's own consignment, held
  on the instance TLC checks and not in general.

`BarcodeScanProofs`:
* `FlagIsNeverEarly` and `FlaggedItemsHaveQuantity`, from `ScanInv`: a scan
  that read "one short" is at most one short when it writes, because without manual
  edits quantities only grow (`FlaggingIsEarned`).
* `ScanTypeCorrect`: that no quantity passes its bound needs `RoomLeft`, which counts
  the scans that are still to be added, as the cardinality of a set of users.
* `ScansAreCounted`: every scan that its user saw succeed is in the quantity. The
  property, which counts the scans written and not yet answered, is inductive with
  the types.
* `SequentialScansAreFlagged`: an item whose scans never overlapped is flagged when
  its ordered quantity is in. `OneIsBusy` (one scan at most is on its way) and
  `WillFlag` (the scan about to bring the last one will set the flag).

`VendSyncProofs`:
* `ClaimsAreReleased`: the strengthening `OnlyCreatedAreMarked` says that the release
  reaches every marked sync model.
* `NothingIsMissed`: the version that is saved must be that of a page whose records
  were all saved and are, but for later changes, still what Vend has. `SavedInv`
  adds this: `PageIsComplete` (the page has all changes up to its version),
  `PageIsSaved`, `FetchesAfterVersion`, `VersionsAreReached` (Vend numbers the next
  change past every version saved).

`OrderLinesProofs`:
* `LinesTypeCorrect`: not inductive alone, because a call goes on with what it read
  before its await. `TypeInv` adds that the line items calls and workers hold exist and
  have the product they had (`CallHasRead`, `WorkerHasFound`), and that an order being
  made from a file is its worker's own: no page shows it, and nobody delivers
  it (`NewOrder`). `LinesNext` says what every step keeps: line items are never removed, nor
  taken out of the delivery.
* `ReasonsAreExplained`: `ReasonsExplain`, a fact about three numbers, for every quantity.
* `LinesAreDistinct`: while calls do not overlap only one actor is at work (`OneActor`), and
  what it found to be new still is (`NewIsNew`). `ProductInv` is these and the property.
* `VendHasOneOfEach`: with `VendInv`. Whoever is about to push knows whether the line
  item is linked (`LinksKnown`), and a product of Vend has a line item that is
  linked to it, or is about to be (`OneEach`).
* `CompleteOrdersShowDiscrepancies`: with `CountInv`. Once discrepancies have been loaded, and
  until the order is complete, their number is the one the session took to be saved, and
  the one saved; any edit makes this `Unseen`.
* `FulfilledLinesAreInVend`: overlapping calls are not excluded here. `DeliveryInv` says
  of the approved line items too that they are linked or that somebody has them
  still to push (`DeliveryIsPushed`, `Covered`), since an approved line item can be fulfilled at
  any time; that a fulfilled quantity belongs to a line item of the delivery wherever a
  page or a file could turn it into the flag (`QuantityIsInDelivery`, `MayFulfil`), and so
  does a received one (`ReceivedIsInDelivery`); and that a new order is as its file says until it
  is sent (`NewLines`). Each step has two lemmas: what joins the delivery was in it or
  is being pushed (`Joins`), and what stays out gets no quantities (`StaysOut`).
* `ReceiptsFailForAReason`: with `DeliveryInv`, of which it needs `NoneIsNew`: without a
  failure, an order that is not in Vend stays with the states and the page of the
  review, hence is not received. What the receive worker counts is then in the
  delivery, and the delivery in Vend.

`MsdSyncProofs`:
* `MsdSyncIsAReplica`: the refinement `Spec => Promise!Spec`. `SyncInit` maps the
  initial states, and `StepsOfReplica` maps every step: an export to `Change`; a page
  that is selected (it may excuse a row) or saved, and a category, to `Copy`; rows
  that are marked as transferred to `Settle`; anything else to a stutter, or, for a
  failure with a page in hand, to `Copy`. The
  invariant it needs, `ReplicaInv`, says that the page in the worker's hands was
  pending in the table and is what the table has but for what was exported since,
  that a copy is never ahead of the table, and that a product or a sale that was marked
  is in the database.
* `RowsAreSkippedForAReason`: an action property. `ReasonInv` says why a row that
  refers to another finds it: without a failure or an export, the pending rows of a
  kind that others refer to are counted until they are fetched (`QuietIsCounted`), the
  pages that are left hold all of them (`PagesSuffice`), and the kinds are fetched in the
  order of their references (`OrderIsKept`, `MasterIsFetched`).

`MsdOrderProofs`:
* `OrderTypeCorrect`: not inductive alone. `BatchesAreApart` bounds the number
  of batches, so that their share is a number; `NumbersAreNew` says that a worker
  that pushes has the number of a posted transfer order; `OpsAgree` ties the `pc` of a
  worker to its message. `Control` is the four together, and what the
  following rest on.
* `MsdOrdersAreServed`: `BusyIsServed`, with `Control`: `WorkersEnd` shows that a worker
  that ends without a trace has written a state in which the order is not busy.
* `OrdersFillOptions`: two parts. The quantities first: sums over finite sets
  (`SumStep`, `SumBound`), the rounding of one line (`Rounded`, `LineQuantity`) and the
  sum over an option (`OptionIsFilled`) show that such lines do fill the option
  (`ThoseLinesFill`). A negative point takes no part in the lower bound, whose lines
  share at least the whole; the upper one needs all points to be natural numbers
  (`LinesOfOption`). `PointsAreMeant` shows that the points the worker takes for due
  leave those of `MeantPoints`. Then the protocol: `OnlyGeneration` (while the order is generated
  nothing else happens to it) and `LinesAreGenerated` (the points are the saved ones,
  `Untouched`, until those that are due are recalculated; the order has no lines, then
  exactly those, and keeps them).
* `OrdersHaveOneTransferOrder`: with `OneTransfer`: requests that were not accepted
  at once follow one another, and none follows one that gave the order its number.
* `TransferOrdersHaveTheLines`: with `OneTransfer` and `OnlyGeneration`, three more
  parts: `LinesArePushed` (the transfer order has all lines but those of the batches
  that are left), `PercentageIsCounted` (the percentage is the share of the batches
  that were answered and counted, or more after a retry) and `NothingCounted` (an
  attempt that is not a retry starts from 0).

`OnboardingProofs`:
* `RolesAreMissingForAReason`: inductive once a call is known to remember whom it
  created only until it has assigned the roles.
* `TheSyncHasItsData`: the strengthening is `InitiateKeepsOrder` (what
  `initiateVendSync` has saved by each of its stages) and `PagesAreTrue` (an old page
  shows nothing that is no longer so). Both rest on `StepKeepsData`: no step takes a
  store, a category, a company or a validated database away.
* `TheGrantIsLostForAReason`: another caller that refreshes could make the token
  that is about to be written invalid, and one that writes could overwrite a valid
  token. `GrantInvariant` adds that a token is known only to the caller that got it
  until it is written (`GotIsItsOwn`), that it stays valid until then (`GotIsValid`),
  and that with Dynamics, where a worker's save writes nothing, the token in the
  database is itself valid (`GrantIsKept`). The steps that handle no refresh token
  are shown to be `Quiet` and covered by one lemma.

Induction over data. The library's induction theorems take an operator as a
parameter, which the installed provers cannot instantiate. The sums of an order are
reasoned about all the same: `LeastNumber` takes the least element from the
well-foundedness of the naturals, which has no such parameter, and `NumberInduction`
and `SetInduction` state induction with a set in the place of the operator.

Only model-checked: the liveness properties `BusySettles`, `CatalogueCatchesUp` and
`EveryRowIsTransferred` (temporal reasoning under fairness, and ENABLED, are out of the
prover's reach). Every invariant and action property that a passing run checks is also
a theorem.

## 5. Plan

Done: the modules of section 2. What would come next:

1. An abstract specification of the order's life that `VendOrder` and `MsdOrder` both
   implement, with the refinement of each proved.
2. `Notification` (server-sent events over Redis and the pages that wait for
   them) and `Scheduler` (orders generated by cron).
3. The competing orders of a file (`Others` in `OrderLines`), deliveries of a
   second user.

## 6. Not modelled, and why

Signing up, invitations, passwords and access control are sequential checks of
the framework; notifications are best effort and read only by the pages that wait
for them; the scheduler calls the generation API, which is modelled without it. CSV,
e-mail, Slack and file helpers are input and output; catalogue models are plain
records; the legacy workers (`workers/jobs`, `workers/workers`) run only with
`WORKERS_VERSION=v1`; the rest of the admin application is forms, tables and
generated clients; deployment files are configuration, of which only the queue's
redrive policy and the restart of the sync engine are used here. The aggregation pipelines (rows of an
order, sales, reorder points) run inside MongoDB; the models take their result
as given.
