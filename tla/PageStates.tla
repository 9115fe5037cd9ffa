------------------------------ MODULE PageStates ------------------------------
(***************************************************************************)
(* The pages of the workspace as its shell sees them: the state a page     *)
(* starts with, how it follows what it is given, what an answer or a       *)
(* reload does to it, where it leads, and what it shows.                   *)
(*                                                                         *)
(* A page is given [documents, items, movements, masters, ledger, loading, *)
(* manages]: what the shell loaded, with the version of the ledger, and    *)
(* whether the user may change anything.  Pages that other modules model   *)
(* (billing, the shipment editor) or none does have no state here.         *)
(***************************************************************************)
EXTENDS ListPages, PageRoutes

CONSTANTS
  Rates,     \* storage per day, by the type of the container
  MaxLoaded  \* how many documents of each kind the shell asks for
ASSUME MaxLoadedAssumption == MaxLoaded \in Nat \ {0}

NoMasters == [customers |-> <<>>, skus |-> <<>>, locations |-> <<>>, orders |-> <<>>]
NoYard ==
  [documents |-> <<>>, items |-> <<>>, movements |-> {}, events |-> {}, boxes |-> <<>>, masters |-> NoMasters]
YardAt(log, version) == IF version = 0 THEN NoYard ELSE log[version]

(* Receipts, shipments, adjustments, transfers and counts are asked for one *)
(* by one; of each the server answers the last ones by their days, or, of  *)
(* postings, by when they were made.                                       *)
LoadKind(document) ==
  CASE document.kind # "POST" -> document.kind
    [] \E l \in ToSet(document.lines) : IsTransfer(l) -> "TRANSFER"
    [] \E l \in ToSet(document.lines) : l.type = "ADJUST" -> "ADJUST"
    [] OTHER -> "COUNT"
LoadDay(document) ==
  CASE document.kind = "POST" -> 0 [] document.date = 0 -> Today [] OTHER -> document.date
Newer(left, right) ==
  \/ LoadDay(left) > LoadDay(right)
  \/ LoadDay(left) = LoadDay(right) /\ left.id > right.id
Brought(documents) ==
  Restrict(documents,
    {i \in Ids(documents) :
       Cardinality({j \in Ids(documents) : /\ LoadKind(documents[j]) = LoadKind(documents[i])
                                           /\ Newer(documents[j], documents[i])}) < MaxLoaded})

Given(log, data, role) ==
  [documents |-> Brought(YardAt(log, data.documents).documents), items |-> YardAt(log, data.stock).items,
   movements |-> YardAt(log, data.ledger).movements,
   masters |-> [YardAt(log, data.masters).masters EXCEPT !.skus = YardAt(log, data.skus).masters.skus],
   ledger |-> data.ledger, loading |-> data.loading, manages |-> role \in {"admin", "operator"}]

ContextOf(contexts, page, otherwise) == IF page \in DOMAIN contexts THEN contexts[page] ELSE otherwise

-----------------------------------------------------------------------------
(* Stock pages: adjustments, transfers and counts *)

StockPageKeys == {"adjustments", "transfers", "cycle-counts"}

(* A launch waits until the user may act and there is something to act on. *)
Actionable(page, items) ==
  IF page = "transfers" THEN \E b \in DOMAIN items : AvailableOn(items, {b}) > 0 ELSE DOMAIN items # {}
(* Slip: it opens for whoever is shown the page. *)
LaunchesForAll(page, l, g) == ~l.launched /\ Actionable(page, g.items)
LaunchReady(page, l, g) == ~l.launched /\ g.manages /\ Actionable(page, g.items)

ActionDialog(page, items, launch) ==
  CASE page = "adjustments" -> AdjustmentDialog(items, launch)
    [] page = "transfers" -> TransferDialog(items, launch)
    [] OTHER -> OpenCount(items, launch)

Launched(page, l, g, context) ==
  IF ~LaunchReady(page, l, g) THEN l
  ELSE [l EXCEPT !.launched = TRUE,
                 !.dialog = IF context = None THEN @ ELSE ActionDialog(page, g.items, context)]

(* Items that were loaded again start the dialogs anew; a count keeps its   *)
(* lines as far as their items are still there.                            *)
DialogReloaded(page, dialog, items) ==
  IF dialog = None THEN None
  ELSE IF page = "cycle-counts" THEN CountEffects(dialog, items)
  ELSE ActionDialog(page, items, dialog.launch)

PostedTypes(page) ==
  CASE page = "adjustments" -> {"ADJUST"} [] page = "transfers" -> {"TRANSFER_IN"} [] OTHER -> {"COUNT"}

StockPageFollows(page, l, g, context, reloaded) ==
  LET kept == KeptPosting(l, Postings(g.documents, PostedTypes(page)))
  IN Launched(page, IF reloaded THEN [kept EXCEPT !.dialog = DialogReloaded(page, @, g.items)] ELSE kept, g, context)

-----------------------------------------------------------------------------
(* Inventory *)

NoSummaryFilter == [customer |-> All, location |-> All, search |-> All, type |-> All]
FreshSummary == [filter |-> NoSummaryFilter, selected |-> None]
LaunchSummary(context) == [FreshSummary EXCEPT !.filter = context @@ NoSummaryFilter]
SummaryRows(l, g) == InventorySummaryRows(g.items, g.movements, l.filter)
KeptSummary(l, rows) ==
  IF l.selected \in {r.key : r \in rows} THEN l ELSE [l EXCEPT !.selected = None]

(* The contents of containers: the query asks for the ledger as the log     *)
(* does, and the rows come from the items as well.                         *)
FreshContents(version) == Over(FreshLog(version), [chosen |-> {}, bulk |-> None])
SetContentsQuery(l, query, version) ==
  IF query = l.query THEN l ELSE [SetQuery(l, query, version) EXCEPT !.chosen = {}]
LaunchContents(version, context) ==
  SetContentsQuery([FreshContents(version) EXCEPT !.typed = context.search], context @@ NoQuery, version)
SubmitContentsSearch(l, version) == SetContentsQuery(l, [l.query EXCEPT !.search = l.typed], version)

HistoryOf(l, movements) == {m \in movements : MatchesQuery(m, l.rows.query)}
ContentsRows(l, items, movements) == ContainerContentsRows(items, HistoryOf(l, movements), l.query)
HasStock(row) == row.onHand > 0 \/ row.pallets > 0
SelectedRows(l, rows) == {r \in rows : r.key \in l.chosen}
ChooseContainer(l, key) == [l EXCEPT !.chosen = ToggleRows(@, {key}, MaxSelected)]
OpenBulkTransfer(l, rows, items, warehouses) == [l EXCEPT !.bulk = OpenBulk(SelectedRows(l, rows), items, warehouses)]
CloseBulkTransfer(l) == [l EXCEPT !.bulk = None]
ContentsFollow(l, g, reloaded) ==
  LET followed == LogFollows(l, g.ledger)
  IN IF reloaded /\ l.bulk # None
     THEN [followed EXCEPT !.bulk = BulkForm(g.masters.locations) @@ @] ELSE followed

(* One container; its dialogs know no other. *)
FreshContainer == [quick |-> None, dialog |-> None]
ContainerRow(g, key) ==
  LET rows == {r \in AllContainerContentsRows(g.items, g.movements) : r.key = key}
  IN IF rows = {} THEN None ELSE CHOOSE r \in rows : TRUE
ItemsAtKey(items, key) == Restrict(items, {b \in DOMAIN items : Identity(b) = key})
OpenQuick(l, page, key, items) ==
  [l EXCEPT !.quick = page,
            !.dialog = ActionDialog(page, ItemsAtKey(items, key), [container |-> key[2], source |-> <<>>])]
CloseQuick(l) == FreshContainer
ContainerFollows(l, g, key, reloaded) ==
  IF reloaded /\ l.quick # None
  THEN [l EXCEPT !.dialog = DialogReloaded(l.quick, @, ItemsAtKey(g.items, key))] ELSE l

-----------------------------------------------------------------------------
(* A receipt, and the life of a container *)

DetailDocument(document) == IF document = None THEN [id |-> NoValue, type |-> "NORMAL"] ELSE document
FreshReceipt(document) == Over(FreshDetail(DetailDocument(document)), [dialog |-> None])
OpenReceiptAdjustment(l, document, items) ==
  [l EXCEPT !.adjusting = TRUE,
            !.dialog = AdjustmentDialog(items, [container |-> document.container,
                                                source |-> <<document.customer, document.lines[1].sku>>])]
CloseReceiptAdjustment(l) == [l EXCEPT !.adjusting = FALSE, !.dialog = None]
ReceiptFollows(l, before, after, items, reloaded) ==
  LET followed == DetailFollows(l, DetailDocument(before), DetailDocument(after))
  IN IF reloaded /\ l.adjusting THEN [followed EXCEPT !.dialog = AdjustmentDialog(items, @.launch)] ELSE followed

(* The scope is read from the path again whenever the shell renders. *)
LifecycleFollows(l, scope, changed) ==
  IF changed THEN Rescope(l, scope)
  ELSE IF scope = None THEN l
  ELSE Refilter([l EXCEPT !.node = NoNode], [l.filter EXCEPT !.customer = scope[1], !.search = scope[2]])

LifeOf(yard, container) ==
  Lifecycle(container, yard.documents, yard.items, yard.movements, yard.events, yard.boxes)
BoxType(yard, container) == IF container \in DOMAIN yard.boxes THEN yard.boxes[container] ELSE "NORMAL"

WarehouseAt(path, g, otherwise) ==
  LET name == WarehouseOf(path, None)
  IN IF name \in DOMAIN g.masters.locations THEN g.masters.locations[name] ELSE otherwise

-----------------------------------------------------------------------------
(* A page comes on the screen *)

ListMode(page) == IF page = "inbound-management" THEN "IN" ELSE "OUT"
ListPageKeys == {"inbound-management", "outbound-management"}
MasterPageKeys == {"customers", "sku-master", "storage-management"}
NoState == <<>>

MountedAt(page, path, g, context) ==
  CASE page = "dashboard" -> FreshDashboard(Today)
    [] page = "daily-operations" -> FreshBoard
    [] page \in ListPageKeys ->
         IF context = None THEN FreshList(ListMode(page)) ELSE LaunchList(FreshList(ListMode(page)), context, g.documents)
    [] page = "inbound-detail" -> FreshReceipt(Lookup(g.documents, DetailOf(path)))
    [] page = "receipt-editor" ->
         OpenRoute(FreshEditor, ReceiptOf(path, None), g.documents, g.loading, IF context = None THEN NoContext ELSE context)
    [] page \in StockPageKeys -> Launched(page, FreshStockPage, g, context)
    [] page = "inventory-summary" -> IF context = None THEN FreshSummary ELSE LaunchSummary(context)
    [] page = "warehouse-map" -> MapEffects(FreshMap, g.items)
    [] page = "container-contents" ->
         IF context = None THEN FreshContents(g.ledger) ELSE LaunchContents(g.ledger, context)
    [] page = "container-detail" -> FreshContainer
    [] page = "container-lifecycle" -> FreshLifecycle(LifecycleOf(path, None))
    [] page = "all-activity" ->
         IF context = None THEN FreshLog(g.ledger) ELSE LaunchLog(FreshLog(g.ledger), context, g.ledger)
    [] page \in MasterPageKeys -> FreshMaster
    [] page = "storage-location-editor" -> FreshLayout(WarehouseAt(path, g, NewWarehouse))
    [] page = "reports" -> OpenedReports(Rates, DOMAIN g.masters.skus)
    [] OTHER -> NoState
Mounted(path, g, context) == MountedAt(PageOf(path), path, g, context)

(* A launch context is gone once the page has looked for it. *)
Takes(path, l, g) ==
  LET page == PageOf(path)
  IN CASE page \in StockPageKeys -> LaunchReady(page, l, g)
       [] page = "receipt-editor" ->
            LET id == ReceiptOf(path, None)
            IN /\ ~g.loading /\ l.route # <<id>>
               /\ id = None \/ Lookup(g.documents, id) # None
       [] OTHER -> TRUE

(* A page that stays is rendered again with what was loaded, or for a path. *)
FollowedAt(page, path, from, l, before, g, context, reloaded) ==
  CASE page \in ListPageKeys -> IF reloaded THEN ListReloaded(l, g.documents) ELSE l
    [] page = "inbound-detail" ->
         ReceiptFollows(l, Lookup(before.documents, DetailOf(from)), Lookup(g.documents, DetailOf(path)), g.items, reloaded)
    [] page = "receipt-editor" ->
         OpenRoute(l, ReceiptOf(path, None), g.documents, g.loading, IF context = None THEN NoContext ELSE context)
    [] page \in StockPageKeys -> StockPageFollows(page, l, g, context, reloaded)
    [] page = "inventory-summary" -> KeptSummary(l, SummaryRows(l, g))
    [] page = "warehouse-map" -> MapEffects(l, g.items)
    [] page = "container-contents" -> ContentsFollow(l, g, reloaded)
    [] page = "container-detail" -> ContainerFollows(l, g, ContainerOf(path, None), reloaded)
    [] page = "container-lifecycle" -> LifecycleFollows(l, LifecycleOf(path, None), path # from)
    [] page = "all-activity" ->
         IF IsFiltered(l.query) THEN l ELSE KeptMovement(LogFollows(l, g.ledger), g.movements)
    [] page = "customers" -> KeptCustomer(l, g.masters.customers)
    [] page = "storage-location-editor" ->
         IF reloaded \/ path # from THEN LayoutLoaded(l, WarehouseAt(path, g, NewWarehouse)) ELSE l
    [] page = "reports" -> WithFirstSku(l, DOMAIN g.masters.skus)
    [] OTHER -> l
Followed(path, from, l, before, g, context, reloaded) ==
  FollowedAt(PageOf(path), path, from, l, before, g, context, reloaded)
=============================================================================
