# TLA+ development for Speed Inventory Management

This directory specifies the warehouse system in `src/` in two layers. The first
is its transactional core (Go, `src/backend/internal`): what a shipment does to
stock, what an invoice does to history, and how requests that run side by side can
or cannot disturb each other. The second is the browser's workspace (TypeScript,
`src/frontend/src`): what its pages compute from the stock and the documents they
were given, and what becomes of them while calls, loads and the work of others come
back in any order. File and line of every definition are in `PROJECT.json` (`map`).

Modules are checked with TLC (`tlc -config <run>.cfg MC<Module>.tla`) and
proved with TLAPS (`tlapm <Module>.tla`).

## 1. The system

A React frontend and a customer portal talk over HTTP to one Go backend
(`src/backend`), which keeps everything in a MariaDB database. The server has no
queue and no cache: its concurrency is concurrency of database transactions, and
every rule is kept by row locks, `UPDATE ... WHERE` guards and checks inside a
transaction. `docker-compose.yml` pins `mariadb:11`; transactions run at
REPEATABLE READ.

| Component | State it keeps | Operations | Interacts with |
|---|---|---|---|
| Outbound shipments (`outbound_document_store.go`, `outbound_allocation_store.go`) | `outbound_documents`, lines, `outbound_container_allocations` | create, edit, copy, confirm, tracking, cancel, bulk forms | reserves in balances, posts SHIP and REVERSAL ledger rows, asks billing for the freeze |
| Stock balances and ledger (`inventory_ledger_store.go`) | `inventory_items` (quantity, allocated, pallets), `stock_ledger`, `containers.status` | post a ledger row, delete a document's rows, recompute a container | called by every other stock component |
| Inbound receipts (`inbound_document_store.go`, `inbound_deletion_plan.go`) | `inbound_documents`, lines | create, edit, confirm, track, cancel, delete with dependencies | posts RECEIVE rows; reverses other documents' rows on deletion |
| Adjustments, counts, transfers | their documents | create | post ledger rows, checked against reservations |
| Billing invoices (`billing_invoice_store.go`, `billing_invoice_generation.go`) | `billing_invoices`, lines | preview, generate, create, edit, finalize, pay, void, delete | reads history; freezes it for all stock operations |
| Bulk imports | `bulk_import_batches` | preview, commit with a lease, complete, fail | create documents |
| Containers, tracking, deliveries | `containers`, events | metadata, tracking events, deliveries | projection from ledger |
| Attachments | rows, and objects in R2 | upload, delete, sweep | two systems |
| Master data, users, reports, audit, reset | their tables | single-row operations, queries | - |
| Migrations | `schema_migrations` | run at start under an advisory lock | whole schema |
| Workspace shell (`App.tsx`, `lib/routes.ts`, `lib/*Context.ts`) | session and role, the address, one copy of all documents, items, movements and records | sign in and out, navigate, load everything again | gives its copy to every page; pages ask it to reload |
| Lists, board, dashboard, log (`ActivityManagementPage`, `DailyOperationsPage`, `HomeDashboardPage`, `AllActivityPage`) | filters, selection, what a filter found, a note, one busy flag | search, confirm, track, copy, cancel, batches, pick sheet | document endpoints; leave filters for each other |
| Receipt pages (`InboundReceiptEditorPage`, `InboundDetailPage`) | a form drawn once per address, a step | edit, save, confirm, copy, retype, adjust | receipt endpoints, attachments |
| Shipment editor (`OutboundShipmentEditorPage`, `lib/outboundAllocationPayload`) | lines, picks, step, a copy of the stock | plan picks, review, send | outbound endpoints |
| Stock pages (adjustments, transfers, counts, summary, map, containers) | dialogs rebuilt from the items, selections | adjust, move, count, filter | adjustment, transfer and count endpoints |
| Container lifecycle (`AdminContainerLifecyclePage`, `ContainerLifecycleView`) | list, scope, one node | record events, set the type | container endpoints |
| Master data (`CustomerManagementPage`, `SKUMasterPage`, `StorageManagementPage`, `StorageLocationEditorPage`) | dialogs, order of columns, a layout | put, delete | record endpoints |
| Reports (`ReportsPage`) | two tabs, each with scope and answer | ask, scope, rate | report endpoints |
| Billing pages (`BillingPage`, `BillingInvoiceEditorPage`, `BillingContainerDetailPage`, `lib/billing*`) | scope, rates, preview; an invoice and its dialogs; the documents exported | preview, create, edit, finalize, pay, void, export | billing endpoints |

What makes this code hard:

* **One fact in several places.** What a shipment holds is in its allocation
  rows, in `allocated_qty` of each balance, in its status and tracking status;
  what it shipped is in the ledger and in the balances; what a container is, is
  in `containers.status`. All of it is kept in step by hand.
* **Other writers.** Between a reservation and its confirmation, stock may be
  adjusted, counted, moved and received.
* **Check, then write.** The invoice endpoints check the status in one
  statement and write in another.
* **Snapshots and locks.** A plain SELECT in a transaction reads a snapshot;
  what is right depends on whether the customer's lock was taken before it.
* **Copies in the browser.** A page works on the documents and the stock it was
  drawn with. Loads come part by part, from different moments; calls are lost,
  refused, or answered after the page was left; each page keeps flags of its own
  for what it waits for.
* **One figure on several paths.** The cartons of a container, the pallets of a
  pick, the total of an invoice are each added up by several pieces of code, with
  rules of their own for what is empty, missing, held, discounted or of another
  warehouse.

What makes each component correct: reservations equal their rows and never
exceed the stock; ledger and balance agree; a confirmed shipment changes only by
cancellation; a container's status is never stale (outbound, ledger). History
that was billed stays; no day is billed twice; totals equal their lines;
requests end; only drafts are edited (billing). Every stock row has a receipt it
came from; deletion removes exactly what it reversed (inbound). A batch creates
each document once (imports). A live object is never deleted (attachments). A
migration is applied completely or again (migrations). What a page shows is the
answer to the question it now asks; what a user did is on the screen once all has
come back; figures of one thing agree; what is reviewed is what is sent; no button
stays disabled (frontend). `PROJECT.json` lists the
hazards at their lines, with the properties that cover them.

## 2. Modules

| Module | Contents |
|---|---|
| `Lists` | `Accumulate`, what a loop makes of a list, by recursion on the number of elements done; and with it the sum of a list, the elements of it that are in a set, lists put together, an element put in |
| `Sums` | `Sum(f)`, the sum of a function's values, as the cardinality of a set of units, and `Net(f)`, of integers: what comes less what goes |
| `SumTheorems` | what they do: type, bound, splitting off one element, updates; induction along a list; sums of lists that are appended, joined, grouped by owner, of lists of lists; sums of integers that are split, grouped, mirrored; what is kept of a list and in which order |
| `OutboundStock` | shipments over the balances they draw on, and the other writers of these balances |
| `StockPromises` | the abstract specification of the same: promises, deliveries, returns |
| `OutboundStockProofs` | the inductive invariant and the theorems it gives, that about the status of containers included |
| `OutboundStockRefinement` | `OutboundStock` implements `StockPromises` |
| `BillingInvoices` | invoices, the requests on them, their locks, and the history they freeze |
| `BillingInvoicesProofs` | totals, frozen history and periods of invoices |
| `PickPlan`, `ShipmentEditor` | the pick plan of the shipment editor, and the editor's three steps over stock that is refreshed |
| `InvoiceStatements`, `InvoiceDocuments` | ledger, statements and workbooks of an invoice; its totals, PDF, spreadsheets and archive |
| `BillingPreviews`, `BillingViews` | the service's preview and what is mapped, merged and exported of it; what the billing pages draw |
| `BillingDesk` | the three billing pages over one service and the yard's movements |
| `ShipmentEditorProofs` | what the editor plans, schedules, reviews and sends |
| `BillingDeskProofs` | previews on the screen match their filters, what is billed is what was on the screen, statements print the yard's history, the flags of the pages fit what is in flight |
| `YardData` | documents, items and movements as the browser is given them |
| `DocumentLists`, `ActivityPages`, `ListPages`, `ReceiptPage` | the pages of documents: what they list, compute and keep |
| `YardViews`, `WarehouseMap`, `StockPages` | the pages of stock, their dialogs, and the postings the server makes of them |
| `ContainerLifecycles`, `ReportPages`, `MasterPages` | a container's life, the reports, the records |
| `YardServer` | the server the workspace talks to: a yard and a request give an answer and a yard |
| `PageRoutes`, `PageStates`, `PageAnswers`, `PageScreens` | paths, menus and launch contexts; how a page starts, follows its data, takes an answer and leads on; what it shows |
| `WorkspaceShell` | session, data, address, calls and loads |
| `WorkspaceDocuments`, `WorkspaceStock`, `WorkspaceMasters` | one action per click on the pages, and what pages ask on their own |
| `Workspace` | all of it together, with its properties |
| `WorkspaceProofs` | a user's own work is on the screen; users are on pages shown to them and ask what the server allows; sealed containers stay drafts; answers match questions; the life of a container is one flow |
| `WorkspaceStockProofs` | the server's operations keep a yard whose stock, ledger and documents fit; what stands adds up |
| `MCOutboundStock`, `MCBillingInvoices`, `MCShipmentEditor`, `MCBillingDesk`, `MCWorkspace` | values for the constants, symmetry |

### OutboundStock

Each action is one committed transaction. That is justified by the code: a
transaction of these endpoints that changes stock or a status takes the customer's row
lock (`lockBillingSourceCustomersTx`), then the document's row and the balances FOR
UPDATE, so two of them never overlap on one customer. Before the lock it reads only whose
document it is, with a plain SELECT (`loadOutboundDocumentCustomerIDTx`), which opens its
snapshot; what that leaves open is listed as a hazard (`outbound_allocation_store.go:647`).
A copy takes no customer lock: it reads its source FOR UPDATE, writes nothing but a new
draft, and that holds nothing; a change of a note is left out. A request that is refused or
rolled back changes nothing and is a stuttering step.

| Variable | Column or table |
|---|---|
| `quantity`, `allocated`, `pallets` | `inventory_items.quantity`, `.allocated_qty`, `.pallets` per bucket (UPC, container, warehouse, section) |
| `document` | `outbound_documents` with its line and allocation rows: `rows` is their status, `pick` and `used` their cartons and inventory pallets |
| `shipLedger` | a document's SHIP rows in `stock_ledger` |
| `stockLedger` | the net of the rows of all other documents, per bucket |
| `containerStatus` | `containers.status` |

`reserveOutboundDocumentLines` returns the set of allocations the code may
write: the one the order names, or the first-in-first-out allocation
(`AutoPicks` states what it is, not the loop), or none. `Held(d)` is
`allocated_qty` after the document has released what it holds, which every
transition does first. `confirmOutboundDocument`, `Reserve`, `CancelDraft`,
`CancelConfirmed` are the four ways a document changes balances; the actions
named after endpoints and their outcomes use them. Receipts, adjustments, counts
and transfers are `PostLedger` under their own guards.

Abstracted: dates, weights, snapshots of names, notes. Left out: several lines
per document (so `reservationState`, which only matters between lines, is
empty), buckets without a container number, staging through the main warehouse,
the billing freeze (a refusal, so a stuttering step). A deleted receipt changes a
balance as an adjustment downwards does, under the same guard; its own life cycle
is planned. `damaged_qty`, `hold_qty` and
`allocated_pallets` are written only by item endpoints that no route serves.

### BillingInvoices

A request is a small program: `GetBillingInvoice` reads and checks, a later
step writes. `BeginCreate` takes the customer's lock and then opens the
snapshot in which the duplicate check and the sources are read;
`createBillingInvoice` inserts and commits. `PostOperation(date)` stands for any
stock operation: it needs the same lock and is refused when a live invoice covers
its date or a later one. A line edit is two steps, because what it holds in
between matters: `StageLine` inserts, changes or deletes a line and sums what its
snapshot shows; `CommitLine` writes the total and commits. An inserted line holds
a shared lock on its invoice (foreign key); the new total needs an exclusive one;
under `innodb_snapshot_isolation` (default since MariaDB 11.6) writing a row that
changed after the snapshot fails. `AbortLine` is that failure, or InnoDB's choice
of a deadlock victim. These are modelled from how the code uses the database and
are marked external.

Abstracted: an invoice bills "the history up to the end of its period", a count
of operations per date, instead of computed lines. One warehouse scope and one
container type.

### ShipmentEditor

One action is one event handler; the setters it calls take effect together.
`opening` is the document and who may edit it, `stock` the items the page was given
(`Refresh` replaces them), `lines` and `step` the form, `reviewed` the checkbox of
step 3, `sent` the last payload, and `shown` what the last rendering derived from
the rest: sources with their candidates, the automatic or manual picks of each line
and the review. The pure part is `PickPlan`: it merges the candidates of the live
stock with those persisted in the draft, fills lines in turn, and splits pallets. Its
loops are written with `Accumulate`, which proofs can follow, rather than with the folds
of the community modules.

### BillingDesk

`moves` is the history the service reads, `invoices` what it has stored. `page` is the
one page that is mounted; `desk`, `editor` and `stay` are the pages' states, which
exist only while they are mounted. Everything in flight outlives the page: `loads`
(previews with their owner, scope and whether their effect is still `active`),
`creation`, `request`, `fetches`. `context` is the scope the desk leaves in the
session's storage. `clicks` counts user actions. Operators of the four pure modules
are evaluated on these states: all tables, charts and exports of the pages.

### Workspace

The server's yards are a `log`; its last element is the present one, and `YardServer`
makes the next from a request. What the browser has (`data`) names, part by part,
the version that it was read from, since a load is a bundle of requests answered one
by one. `local` is the state of the page at `path`, `contexts` what pages have left
for others, `loads` the loads in flight in the order they were started, `call` the
call a page waits for, `mine` the version the user made last, `view` what the last
rendering shows, from which the next click is chosen. `session` holds role and
sign-in. A click is an action of `WorkspaceDocuments`, `WorkspaceStock` or
`WorkspaceMasters`; it changes the page (`Act`), sends a request (`Send`) or goes
somewhere (`Navigate`). `Answer` grants, denies or loses a call; `FinishLoad` brings
a load, perhaps with one part read earlier than the rest or missing; `Fetch` answers
what a page asks on its own; `OthersWork` is another user's request. A page that was
left no longer hears of its call, though the promise may still navigate.

Documents are receipts, shipments and postings (adjustments, counts, transfers); only
the first two (`Papers`) can be confirmed, tracked, copied or deleted. Items and ledger are
what the documents make of them (`Items`, `Movements`). A request carries what the page
put into it, such as the quantities of an adjustment by bucket, and the server checks that
itself, against its own yard: the page's checks were made on older stock. Cartons that are
damaged or on hold are constants of a bucket (`Unfit`), since no page changes them: one
carton of one bucket in the instance, so that what is on hand and what is available differ.
A receipt is confirmed if the confirmed receipts of its container agree with its type,
which its record then takes (`TypeRefused`, `BoxesAfter`); a confirmed one is deleted if
nothing entered the ledger for its container since (`LaterActivity`, from `entered`, the
order of entry) and what it brought still stands there, free (`Removable`).

A load asks for the last 300 documents of each of five kinds (`App.tsx:433-437`), which
the model takes as `MaxLoaded`: `Brought` is what such a load leaves of a yard's documents,
by the servers' order of days and numbers.

## 3. What the runs check

| Run | Instance | Shows |
|---|---|---|
| `outbound_stock` | 2 documents, 2 sections of a container, quantities up to 2, 1 pallet | `TypeOK`; `ReservationsMatchRows`, `NeverOversold`, `LedgerMatchesBalance`, `ContainerStatusCurrent`, `PickingHoldsStock`, `LedgerMatchesShipments`; `ConfirmedImmutable` |
| `outbound_pallets` | 2 documents, 1 section, quantities up to 3, 2 pallets | `PromisesKept`: the refinement of `StockPromises`, with shares of pallets that round |
| `billing_periods` | 2 requests, 2 invoices, 2 dates | `BilledHistoryStands`, `NeverBilledTwice` |
| `billing_lines` | 2 requests, 1 invoice, 2 lines, amounts 1 and 2 | `TotalsMatchLines`, and the liveness property `EveryRequestEnds` |
| `shipment_editor` | two sources, 2 lines, quantities 0 and 2, five openings, two stocks | `TypeOK`; `NeverOverbooked`, `PalletsReleasedOnce`, `ScheduledIsPicked`, `ReopenedDraftKeepsPicks`, `ReviewShowsPayload` |
| `billing_desk` | 3 containers of 2 customers and both types, 2 scopes, 4 movements, 2 invoices, 2 previews in flight, 3 clicks | `TypeOK`; `PreviewMatchesScope`, `StatementsMatchYard`, `AmountDueAgrees`, `ArchiveAddsUp`, `RunsKeepTheStorage`, `PreviewAddsUp`, `StayMatchesDesk`; `InvoiceBillsPreview`; liveness `BusyEnds` |
| `workspace` | 2 containers, 2 warehouses, a sealed receipt, a draft, a transfer; 31 ways to start on a page; 1 call, 2 loads | `TypeOK`; `AsksWhatIsServed`, `StockAddsUp`, `SealedStaysDraft`, `OwnWorkIsShown`, `AnswersMatchQuestions`, `TotalsAgree`, `FlowIsConnected`; `FinalBalancesHold`; liveness `BusyEnds` |
| `shipment_pallets` | one draft being picked | expected violation `PhysicalPalletsKept`, section 5 |
| `outbound_partial_pick`, `outbound_bo_received`, `billing_void`, `billing_edit` | as small as possible | expected violations, section 5 |

**Bounds.** Two documents are enough for one to hold what another wants, or to
confirm around it; two sections are needed for an order that spans buckets and
for transfers, and the first-in-first-out order between them. `MaxQuantity` 2
lets a bucket be taken partly and wholly; 3 with two pallets makes
`ceil(pallets * n / available)` differ from both its ends. The bounds limit what
other sources bring in (`PostLedger`), never what a shipment does. For billing,
two requests give every interleaving of a check and a write; two invoices a
duplicate; two dates periods that overlap, touch the end and do not. The theorems
of section 4 have no bound but `MaxQuantity` and `MaxPallets`, which may be any
natural numbers.

For the shipment editor, two lines of one source compete for its buckets, and the two
stocks are before and after another draft reserved. The openings are a new shipment,
a scheduled draft, one being picked, one of two lines that is only read, and a
confirmed one. Typed quantities are 0 (deletes a pick) and 2 (spans two buckets). A form
has at most `MaxLines` lines; the theorems about it hold for any `MaxLines`.

For the billing desk, the movements put one container before the period and one in it
as a transfer from the west coast, and one release may happen at any time. The two
scopes are all customers and one, with rates of its own; the filter of the desk is
the set of containers it matches. One invoice exists, from before movements were
recorded. Three clicks are enough to create an invoice, edit a line and finalize it,
since dialogs are not counted. A load that was abandoned while MaxLoads are out never
comes back. Discounts are typed as negative amounts and outbound rates are 0, because
of section 5.

For the workspace, every page has starts of its own, each with the clicks its flows
need (`MCStarts`): the page, what another page left for it, the other users' requests
that may come in between, and whether a fault may happen. After a call the user
clicks once more. Menus are followed in some starts only (`budget.menu`); pages lead
to each other in all. Receipts are booked in the main warehouse. A form or a record
is typed at once. `MaxLoaded` is 3 with four receipts in the yard, so that an old draft is
left behind by the loads until another receipt is deleted, by others at one of the starts.
The yard's buckets are given: a receipt that counts cartons of an SKU
which no bucket can take is not sent, and a transfer goes to a place that has a bucket for
its SKU.

**Symmetry** is used over documents, invoices and requests, only in runs without
liveness.

**Fairness.** `OutboundStock` has none: nothing in it must happen. `BillingInvoices`
assumes strong fairness of `Continue(r)`: a request that has started is served to
its end. Strong, because a request that waits for a row lock is enabled again and
again while others take and release it, and InnoDB grants locks in the order of
the requests, so its turn comes. `PostOperation` and the start of requests are not
fair. With snapshot isolation or without, an edit whose total cannot be written
ends by `AbortLine`.

`BillingDesk` assumes that what is in flight comes back: a creation, the call of an
editor, an invoice that is fetched, a document that is made, a refresh. Of previews it
assumes nothing: no liveness property is about them. `Workspace` assumes
that a call ends, that a load ends (some load, not each), and that the question a page
keeps asking is answered. All of these may end in failure; promises settle, so weak
fairness is what the browser gives. Nothing is assumed of clicks. `ShipmentEditor` has
no fairness.

Deadlock is checked in the runs of the backend. In the four runs of the frontend it is
not: the session ends when the clicks are used up, and a user may stop anywhere.

## 4. What is proved

The outbound theorems hold for every finite set of documents and buckets, any containers
and any bounds, under `ConstantsAssumption` (buckets belong to containers and have
distinct positions in the FIFO order).

* `OutboundStockProofs!InductiveInvariant`: `Spec => []IInv`, where `IInv` is the
  conjunction of `TypeOK`, `ReservationsMatchRows`, `NeverOversold`,
  `LedgerMatchesBalance`, `LedgerMatchesShipments` and `DocumentsSound`.
  None of these is inductive alone. `TypeOK` says `allocated` and `quantity`
  stay natural numbers, which needs that what is released was held
  (`ReservationsMatchRows`) and what is shipped is there (`NeverOversold`).
  `NeverOversold` after a cancellation needs that a reversal only adds, and after
  a confirmation that the cartons shipped beyond one's own reservation were
  available. `LedgerMatchesBalance` needs that the clamp of the pallet balance
  never clamps, which `validateOutboundFinalPalletBalance` gives.
  `DocumentsSound` says of each document what its state allows: rows are RESERVED
  exactly while it is picked or packed and asks for something, the picks it names
  add up to the line's quantity, and no bucket gives pallets without cartons.
* The proof has one lemma per way a document changes the balances (`DraftStep`,
  `ReserveStep`, `ConfirmStep`, `CancelConfirmedStep`) and one for ledger posts
  (`PostLedgerStep`); each action is then a case of one of them
  (`DocumentStepIInv`, `StockStepIInv`).
* From it: `TypeCorrect`, `ReservationsCorrect`, `NoOverselling`, `LedgerCorrect`,
  `ShipmentsCorrect`, `PickingCorrect`, and the action property `ConfirmedStays`.
* `OutboundStockProofs!ContainersCorrect`: `Spec => []ContainerStatusCurrent`. A
  step leaves every status current when it recomputes the containers of all the
  buckets it changes (`RecomputedCurrent`); what has to be shown is that a bucket
  without cartons in a row is not changed at all, although the code recomputes only
  for rows with cartons. This needs `DocumentsSound` and, for a confirmation, that the
  document has no SHIP rows yet (`LedgerMatchesShipments`).
* `OutboundStockRefinement!KeepsPromises`: `Spec => PromisesKept`. Initial states
  map to initial states; a step of a draft is a `Promise`, a confirmation a
  `Deliver`, a cancellation of a confirmed document a `Return`, everything else a
  `Restock` or a stutter.
* `BillingInvoicesProofs!HistoryStands` and `BilledOnce`: `BilledHistoryStands` and
  `NeverBilledTwice`, from the inductive invariant `BilledIInv`. It adds that a void is
  remembered (`status = "VOID" => voidedAt`), because a request may bring a void invoice
  back, and that what the holder of the customer's lock has read is still so
  (`LockSound`): it alone creates invoices, operations wait for the lock, and a status
  change makes no invoice stand that did not.
* `BillingInvoicesProofs!TotalsCorrect`: `TotalsMatchLines` under snapshot isolation,
  from `SumSound`: a line edit whose snapshot is current has summed exactly the lines
  its commit will leave, and every commit outdates the other edits of its invoice.
  `TypeCorrect` and `TypesKept` are the types these rest on.

Billing theorems assume `ConstantsAssumption` of `BillingInvoices` (finitely many lines
of an invoice, positive bounds) and, for totals, `SnapshotIsolation`.

The other theorems are about the browser.

* `ShipmentEditorProofs` proves `TypeOK`, `NeverOverbooked`, `PalletsReleasedOnce`,
  `ScheduledIsPicked` and `ReviewShowsPayload`, for any stock, documents, typed values and
  refreshes. Its invariant `EditorInv` is small: the lines of the form are sound (they name
  a source that is in the stock, or nothing, and their picks take something), and what is
  on the screen is what `Rendered` makes of stock, form and document. The rest is about
  what the pure operators of `PickPlan` compute, by induction along lists (`Along` in
  `SumTheorems`, from the well-foundedness of the natural numbers):
  * a planner hands out of a bucket what it has written down in `reserved`, and never
    more than the bucket has (`HandedTo`, `Booked`); so the lines of an order together
    never overbook one (`NeverOverbooked`), planned by hand or automatically;
  * a row of the preview starts from the pallets that the rows before it left
    (`PreviewCounted`), and every row belongs to a counted line (`RowOf`);
  * a line is complete when its rows add up to its quantity, so that an overview that is
    ready to be scheduled has a bucket for each carton (`ScheduledIsPicked`);
  * the groups of step 3 and the lines of the request are two ways to sum the same
    rows (`SummedByOwner`), so what is reviewed is what is sent, per warehouse and
    container (`ReviewShowsPayload`).

  Assumed are the shapes of the constants (`MaxLinesAssumption`, `InputsAssumption`,
  `StocksAssumption`: an item is listed under its own source and location;
  `OpeningsAssumption`). Not proved is `ReopenedDraftKeepsPicks`: it speaks of what was
  persisted and of what is in stock now, and holds for the documents and stocks of the run,
  not for all: a document may have picks that nothing in stock can give any more.
* `BillingDeskProofs!PreviewsMatchScopes`: `PreviewMatchesScope`, for any containers,
  scopes and movements and any number of previews in flight. `ScopeInv` adds what the
  guard in the effects rests on: a load has the answer of the scope it asked for, and a
  load that is still active asks for the scope that is on the screen. One lemma per
  kind of step (`KeptSound`, `ReloadSound`, `DeskMounted`, `StayMounted`,
  `EditorMounted`, `AnswerSound`, `ReceiveSound`); each handler is a case of one.
* `BillingDeskProofs!InvoicesBillPreviews`: `InvoiceBillsPreview`. Two halves meet.
  `SourcesInv` says that every preview of one customer, on the desk, in an answer or in a
  creation in flight, is `PreviewOfSources` of *some* list of movements and of its own
  scope (for all customers it is the previews of each, merged: `AllPreviews`); so equal fingerprints mean equal movements, and the preview that the service
  computes when it creates the invoice is the one that was sent (`NotStale`).
  `BilledInFull` follows the lines from the movements through segments, rows and the
  order of the lines to the invoice: none of them is a discount, so none is counted
  apart, and the total of the invoice is the one that the preview showed. The
  fingerprint is modelled as what is hashed, that is without collisions.
* `BillingDeskProofs!FlagsFit`: `TypeOK`. `PagesInv` adds what the pages rely on without
  saying so: a page that is not mounted has nothing in flight that is still its own (a
  creation is live only for the desk that is mounted, a call only for the editor); a call
  names an invoice the service has numbered, in whatever order answers come and even when
  the invoice is deleted meanwhile; and the numbers of an invoice's lines differ after
  every call (`ServedNumbered`: `NextLineNew` for a line that is added, `OnlyDistinct` for
  one that is deleted). A load that is awaited stays in flight until it is shown
  (`ReceiveKept`), or the page would load for ever.

* `BillingDeskProofs!StatementsMatch`: `StatementsMatchYard`. A statement is printed from
  what the invoice recorded when it was billed, while the yard goes on. `HistoryInv` says
  that every invoice that is not void records, in the details of its storage lines, the
  balances, arrivals and releases that the yard's history gives for its period
  (`InvoiceRecorded`), and that nothing in flight can break this: a movement that is let in
  is later than the period of every invoice that could have counted it (`PutLater`), a new
  invoice copies a preview whose movements are still those of the yard (`SourcesTell`,
  `BilledRecords`), and editing lines leaves those records (`ServedRecorded`). The printed
  rows are merged by container, sorted and summed; that each stay is counted in one row,
  once, is an argument about sums over parts of a list (`SummedOnly`), made for the opening
  balance, the period and the releases (`OpeningAddsUp`, `PeriodAddsUp`, `ReleasesAddUp`).
* `BillingDeskProofs!RunsKept`: `RunsKeepTheStorage`. The PDF cuts the segments of all stays
  into days, adds up what they have on each day and joins days that are alike into runs; the
  runs have to come to what the stays came to. No invariant is needed beyond `SourcesInv`
  (the preview on the desk was computed from some movements, for one customer or, merged,
  for all of them); the rest is about the operators, for every history of movements. A
  segment has whole quantities a day (`DayQuantities`), its days are in the period and no
  day is in two segments of a stay (`StorageRowStays`); over the days that any stay is
  billed, each of them once (`BilledDaysSound`), the quantities of the days come to those of
  the segments (`AcrossDays`); runs are of these days, each of them in one run
  (`RunsSound`), so that they come to the same (`CommonRunsSound`, `RunsKeep`). The pallets
  of a run are the chart's, which are the stays' balances added up, by customer first when
  previews are merged (`StayBalance`, `ServiceKept`, `MergedKept`).

  These four assume the shapes of the constants: periods that do not end before they start
  (the service refuses others), rates that are numbers (`ScopesAssumption`), dated
  movements of known containers (`MovesAssumption`), first invoices whose lines are numbered
  and which record the first movements (`InvoicesAssumption`), and containers numbered below 1000, which stands for charges
  of the invoice as a whole, and finitely many customers, numbered (`ContainersAssumption`).
* `WorkspaceProofs!OwnWorkShown`: `OwnWorkIsShown`, for any yards, roles, inputs,
  requests of others and any number of loads. The property speaks of the moment when
  all has come back; `WorkInv` says what holds until then: unless a load was overtaken,
  the *last* load reads from the user's version on, or there is no load and the data
  has it or is marked as failed (`Covered`). `VersionsSound` keeps versions within the
  log. Every click is reduced to `Act` or `Send`, which leave the data alone
  (`DocumentClicksKeep` to `ReportClicksKeep`).
* `WorkspaceProofs!TypeOKHolds`: `TypeOK`, of which the point is that nobody is on a page
  their role is not shown, wherever a typed address, a lead, an answer, a load or the
  portal takes them. `TypeInv` adds to `WorkInv` what the shell relies on (`Seated`): a call
  waits only while its user is signed in and there is room for the load that follows it,
  nothing is in flight while a session is looked up or in the portal, and a customer never
  gets in. `PermittedShows` and `LedShows` are about the address.
* `WorkspaceProofs!SealedStays`: `SealedStaysDraft`. `LawInv` says that the present yard is
  lawful and that every request that is on its way, or that others may still send, is well
  formed; there is a lemma for each operation of the server. What makes it true is that
  every way to a confirmation checks the handling of the document the server has, or is
  about to save, not of the one the page showed, and that a copy starts as a draft.
* `WorkspaceProofs!OnlyServedIsAsked`: `AsksWhatIsServed`. Two sides decide on their own what a
  role may do: the routes of the server and `canManage` in the pages. `MayInv` says that for
  one who may only look every page is `Passive`, that is without an open dialog, prompt
  or form, whatever was left for it; that loads have no tails, which could open one;
  and that the screen clicks are chosen from is drawn from the present state. Staff send
  nothing of the records unless they are administrators (`StaffSends`). The life of a container is
  excepted, see section 5.
* `WorkspaceProofs!AnswersMatch`: `AnswersMatchQuestions`. `FitInv` says of the page on the screen
  that it waits, has failed, or has the answer to its present question (`Fits`), and two
  things about loads, which pages hear of long after they asked: the tail of a load is heard
  of only on the page that its call was made on (`Tails`), and outside a session nothing
  follows a load (`NoneFollow`). A page that is mounted, or rendered again for another address or
  other data, asks again or fits (`MountedFits`, `FollowedFits`); so do answers and refusals
  (`CalledFits`), and the clicks, one lemma per group of pages.

* `WorkspaceProofs!FlowStaysConnected`: `FlowIsConnected`. It holds of every life that
  is drawn, so the work is in the lemma about it (`FlowConnected`), for any events,
  documents, movements and selection. The steps of a flow are of nine kinds
  (`StepKinds`), and every edge leads to a step of a later kind, so what follows from the
  first step is found by going through the kinds once; for each kind there is a lemma
  that a step of it has an edge from one that is reached (`Reaching`).
* `WorkspaceStockProofs!StockAddsUpHolds`: `StockAddsUp`, by induction over every operation
  that the server has. The property compares two figures of one yard, and neither
  operation could be shown to keep it alone: that an item holds what is promised of it
  depends on what the drafts say, and that a transfer brings what it took on where it was
  read. `IsKept` says what the operations rely on: documents say what they must of their
  lines; items and ledger are those the documents make; in every bucket what the ledger
  and the drafts in picking leave (`Unpromised`) is no less than what is damaged or on
  hold there; and the transfers of a container's SKU come to nothing. The
  argument:
  * the sums are sums of integers over sets of rows, `Net` in `Sums`; `SumTheorems` proves
    how they split, group by owner (`NetGrouped`), and cancel against a mirror image
    (`NetOpposite`, `NetMirror`), where each set and function may be anything finite;
  * each document has rows of its own, so that writing one exchanges its rows for its new
    ones and leaves all others (`Exchange`); hence a yard whose documents change in one
    place is kept if each bucket still has what is held back and the transfers
    come to the same (`ChangedIsKept`);
  * so each operation has a lemma that speaks of one document: what can be confirmed or
    picked was free (`CommitFits`), what is deleted still stands there
    (`DiscardKept`), what is posted is new (`PostingIsKept`), and a transfer's rows pair off
    (`TransferRows`). A batch is that, one after the other (`TurnsKept`), by induction along
    the selection;
  * a kept yard adds up (`KeptAddsUp`), which groups what stands by bucket.
* `WorkspaceStockProofs!FinalBalancesStand`: the action property `FinalBalancesHold`. Only
  an answer ends a call with a newer yard (`AnswerEndsCalls`), and the row that an
  adjustment to a final balance posts, with all that came before it, comes to that
  balance (`FinalsPosted`).

  These assume of the constants that no part of the data and no page is called None
  (`NoneIsNoName`), that bounds and clicks are numbers (`BoundsAssumption`), that documents
  are numbered, complete and, when sealed, drafts at first (`YardAssumption`), and that
  the receipts that others send have the fields of one (`OthersAssumption`); what may be
  in the fields is for the server to check (`LinesRefused`). About stock they assume that what is damaged or on hold is a
  number per bucket that the pages never change (`UnfitAssumption`) and that the first yard
  is kept (`FirstYardAssumption`).

Only model-checked:

* liveness (`EveryRequestEnds` and both `BusyEnds`), which is out of the prover's reach;
* `ShipmentEditor.ReopenedDraftKeepsPicks`, for the reason above;
* `BillingDesk`: `AmountDueAgrees`, `ArchiveAddsUp`, `PreviewAddsUp`, `StayMatchesDesk`. They compare sums over lists that are sorted, grouped
  and merged with `SortSeq`, `@@` and `:>` of the standard module `TLC`, whose definitions
  the prover does not unfold;
* `Workspace.TotalsAgree`, which compares the figures of five pages with each other; one of
  them, the pick sheet, fills lines from sorted buckets with folds of the community modules
  (`FoldLeft`, `SelectSeq`), which are recursive;
* the expected violations.

## 5. Where code and documents disagree

* `PartialPickKeepsPallet`: an automatic allocation that takes all *available*
  cartons releases every pallet, although reserved cartons stay on them.
* `BOReceivedIsTerminal`: a draft can be saved as BO_RECEIVED and then confirmed
  as SHIPPED.
* `LiveInvoicesDoNotOverlap`: a finalization or payment overwrites a void that
  committed after its status check; the period may have been billed again.
* `OnlyDraftsAreEdited`: a line can be changed after finalization, if the edit's
  status check came before it.
* `PhysicalPalletsKept`: reopening a draft whose bucket is otherwise reserved by another
  one, the editor plans from what the draft itself holds, and releases all pallets.

The runs above show these. The following were met while translating the pages. No run
is about them, and where a model would fail because of one, section 3 or 7 names the bound
that keeps it out.

Figures:

* A container row of the desk drops OUTBOUND charges when the container also has a
  storage row (`BillingPage.tsx`, ContainerRow); the overview totals of the preview's PDF,
  the export's summary and the charge bars omit the outbound amount.
* A DISCOUNT line typed with a positive amount is added by the server, the editor and the
  ledger, and subtracted by the PDF. The preview PDF's summary by amount lists discounts
  twice.
* A manual STORAGE line on a container that also has a summary line leaves detail rows
  that do not add up to the container.
* Under a container filter the overview's rows are filtered and its summary is not, the
  overview PDF mixes both, settlement cards compare with an unfiltered previous period,
  and the invoice that is created ignores the filter.
* Under a search or a type, the breakdown by container of an SKU in the inventory summary
  falls back to the ledger's balances of all containers.
* A card of the dashboard counts the documents that the workspace loaded, at most 300 of a
  kind (`App.tsx:433-434`); the list that it opens asks for up to 50000 that its filter
  matches (`ActivityManagementPage.tsx:362`, `847`) and may be longer. `TotalsAgree` says of
  a card that it is the part of that list the load brought, and the whole of it only while
  there are no more documents of the kind than a load asks for.
* A pick sheet of a draft with one allocated and one unallocated line plans the allocated
  line again, so the sheet may exceed what is free, and a short sheet carries no warning.
* The customers page counts open documents among the six latest of each kind.

Order of answers:

* A workspace load that is older but finishes later overwrites newer data, and a logout
  does not cancel loads in flight (the guard `mine.overtaken` in `OwnWorkIsShown`).
* Creation, copy and deletion navigate after their page was left; a late success closes
  whatever dialog is open by then (composer, transfers, adjustments, bulk transfer, counts,
  records).
* Dialogs of the stock pages are rebuilt, with `submitting` reset, when items are loaded
  while their call is out: the call can be sent again.
* `loadInvoice` has no guard against an answer for an earlier invoice; the flag that keeps
  a stale preview's message survives a reload that fails.
* Reports show the previous scope's figures under the new scope's labels while they load;
  the lifecycle page lists the previous container's documents.
* A filtered list shows the copy the filter found instead of the refreshed document; a
  filtered log does not follow a reload of the workspace.
* The board keeps one busy row for all.

State that is lost or kept too long:

* A refresh loses an unsaved note; any reload resets an unsaved layout and, on the
  lifecycle page, all other forms and the selected node.
* The receipt editor draws its form once per address: a receipt that is not yet in the
  workspace stays an empty form, and a save sends the tracking status that was on screen.
  After a copy on a receipt's page nothing is reloaded, so the editor opens empty.
* A launch context is consumed only by a page that can use it: one left for a receipt that
  does not exist is applied to the next one.
* Opening a container from a desk of all customers loses the desk's rates, grace period
  and type. A renamed warehouse is written with its other fields as they were opened.
* A failure at start other than 401 shows the sign-in page without the error.
* The page of a container's life offers its forms to viewers, whom the server refuses
  (`AdminContainerLifecyclePage.tsx`, `v2_routes.go:17-22`); `AsksWhatIsServed` leaves it out.
* `handleOpenEmbeddedComposer` and `handleConfirmOutboundDocument` are called by nothing.

## 6. Plan

1. Done: outbound stock, billing invoices and the shipment editor with their proofs; the
   billing pages and the workspace, with theorems about each.
2. `InboundReceipts`: receipts, their ledger rows with identity and order, reversal
   and provenance, deletion with dependencies; refines the receipts and adjustments of
   `OutboundStock`. Properties: a deleted receipt leaves no row and no stock behind;
   nothing that later activity depends on is deleted.
3. `MainWarehouseStaging`: auto-transfers at confirmation and their rollback, composed
   with `OutboundStock`.
4. `SnapshotsAndLocks`: the transactions with their first read, customer lock and
   later plain reads, over versions; lock order of the deletion endpoint (a deadlock
   that InnoDB must resolve) and the transfer's retry.
5. `BulkImports`: batches, leases, crashes between creating a document and recording
   it. `Migrations`: crash and concurrent start. `Attachments`: rows and objects.
6. Operators checked against references: splitting pallets and weights
   (`splitProportionalFloat`, `allocateOutboundBulkShippingPallets`), billing days
   (`billing_preview_store.go`).
7. Proofs: for each of these the inductive invariant; for receipts the refinement; of the
   billing desk, the sums of its documents, once grouping and sorting are written as
   functions a proof can follow; of the workspace, `TotalsAgree`, page by page.

## 7. Not modelled

Everything marked `not_modelled` in `PROJECT.json`, with its reason: authentication,
settings, user management, audit log, export centre, translations, parsing of workbooks
and PDFs, layout of pages and documents, deployment.

Of the parts that are modelled:

* *Workspace.* Left out are the import dialogs, exports other than the ones whose figures a
  property is about, the deletion of many receipts with its rollback dialog (which opens and
  closes only), what the board leaves as the date of a new document, and the order of
  columns on the storage and stock pages. Sign-in and sign-out are one step. The requests of
  a load are grouped into five parts. Of the limits on what is asked for, that of a load's
  documents is modelled (`MaxLoaded`); the 20000 movements of a load (`App.tsx:432`) and the
  50000 documents of a filter (`ActivityManagementPage.tsx:362`) are taken to be enough. The
  server is one step per request: its locks and snapshots are the subject of the backend's
  modules. The yard has no invoices, so the billing freeze
  (`inbound_document_store.go:1064` and `1579`, `inventory_ledger_store.go:198`) refuses
  nothing in it: what is proved of the server's operations is so with more of them allowed.
* *Billing desk.* `Respond`, `RespondError` and `Succeeded` each stand for several handlers of
  one shape (finalize, pay, void, edit, delete of an invoice and its lines); `map` names the
  lines of one of them. One warehouse; the bulk export of containers and the settings dialogs are
  left out; the container of an edited line is not retyped.
* *Shipment editor.* Attachments, header fields, print-outs and copying are left out, and a
  send either succeeds or fails before it is saved.
* *Backend.* Several lines of one document, staging through the main warehouse, deletion
  with dependencies, imports, attachments and migrations; section 6 plans them.
