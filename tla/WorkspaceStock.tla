----------------------------- MODULE WorkspaceStock -----------------------------
(***************************************************************************)
(* What a user does on the pages of the stock: the dialogs that adjust,    *)
(* move and count it, wherever they are opened, the contents of containers *)
(* and one container's life, the summary, the log and the map.             *)
(***************************************************************************)
EXTENDS WorkspaceDocuments

-----------------------------------------------------------------------------
(* The dialogs for one container, and what they know of the stock *)

DialogPage ==
  CASE Page \in StockPageKeys -> Page
    [] Page = "container-detail" -> local.quick
    [] Page = "inbound-detail" -> IF local.adjusting THEN "adjustments" ELSE None
    [] OTHER -> None
DialogItems == IF Page = "container-detail" THEN ItemsAtKey(G.items, ContainerOf(path, None)) ELSE G.items
InDialog(page) == SignedIn /\ DialogPage = page /\ local.dialog # None
Adapt(dialog) == Act([local EXCEPT !.dialog = dialog])
Submits(op, payload) ==
  Send([local EXCEPT !.dialog.submitting = TRUE, !.dialog.failed = FALSE], [op |-> op, payload |-> payload])

OnStockPage == SignedIn /\ Page \in StockPageKeys
OpenDialog == OnStockPage /\ Manages /\ local.dialog = None /\ Adapt(ActionDialog(Page, G.items, NoLaunch))

(* A count is closed at any time, the others only while nothing is sent. *)
CloseDialog ==
  /\ SignedIn /\ DialogPage # None /\ local.dialog # None
  /\ DialogPage = "cycle-counts" \/ ~local.dialog.submitting
  /\ Act(CASE Page = "container-detail" -> CloseQuick(local)
           [] Page = "inbound-detail" -> CloseReceiptAdjustment(local)
           [] OTHER -> [local EXCEPT !.dialog = None])

SelectPosting(i) == OnStockPage /\ i \in Postings(G.documents, PostedTypes(Page)) /\ Act([local EXCEPT !.selected = i])

ChooseContainerToAdjust(key) == InDialog("adjustments") /\ Adapt(ChooseAdjusted(local.dialog, DialogItems, key))
SetAdjustmentMode(mode) == InDialog("adjustments") /\ Adapt([local.dialog EXCEPT !.mode = mode])
GiveReason == InDialog("adjustments") /\ Adapt([local.dialog EXCEPT !.reason = TRUE])
TypeBalance(b, n) == InDialog("adjustments") /\ Adapt(TypeAdjustment(local.dialog, DialogItems, b, n))
SubmitAdjustment ==
  /\ InDialog("adjustments") /\ AdjustmentReady(local.dialog, DialogItems)
  /\ Submits("adjust", AdjustmentPayload(local.dialog, DialogItems))

ChooseContainerToMove(key) == InDialog("transfers") /\ Adapt(ChooseTransferred(local.dialog, DialogItems, key))
ChooseMode(mode) == InDialog("transfers") /\ Adapt(SetTransferMode(local.dialog, DialogItems, mode))
ChooseDestination(to) == InDialog("transfers") /\ Adapt(SetDestination(local.dialog, G.masters.locations, to))
ChooseSection(section) ==
  /\ InDialog("transfers") /\ local.dialog.to[1] # None
  /\ section \in ToSet(DestinationSections(local.dialog, G.masters.locations, local.dialog.to[1]))
  /\ Adapt(SetDestinationSection(local.dialog, section))
TypeMoved(b, n) ==
  InDialog("transfers") /\ local.dialog.mode = "PARTIAL" /\ Adapt(TypeTransfer(local.dialog, b, n))
SubmitTransfer ==
  /\ InDialog("transfers") /\ TransferReady(local.dialog, DialogItems)
  /\ Submits("transfer", TransferPayload(local.dialog, DialogItems))

ChooseSource(source) == InDialog("cycle-counts") /\ Adapt(SetCountSource(local.dialog, DialogItems, source))
AddCount ==
  /\ InDialog("cycle-counts") /\ Len(local.dialog.lines) < Inputs.lines
  /\ CountSource(DialogItems, local.dialog.source) # {} /\ Adapt(AddCountLine(local.dialog))
RemoveCount(i) == InDialog("cycle-counts") /\ Adapt(RemoveCountLine(local.dialog, i))
ChooseItem(i, b) == InDialog("cycle-counts") /\ Adapt(ChooseCounted(local.dialog, DialogItems, i, b))
TypeCounted(i, n) == InDialog("cycle-counts") /\ Adapt(TypeCount(local.dialog, i, n))
(* A count of nothing is refused before it is sent. *)
SubmitCount ==
  /\ InDialog("cycle-counts") /\ ~local.dialog.submitting
  /\ \E payload \in {CountPayload(local.dialog, DialogItems)} :
       IF payload = <<>> THEN Adapt([local.dialog EXCEPT !.failed = TRUE]) ELSE Submits("count", payload)

-----------------------------------------------------------------------------
(* A whole warehouse *)

InWarehouseDialog == Here("transfers") /\ local.whole # None
OpenWarehouse == Here("transfers") /\ Manages /\ local.whole = None /\ Act([local EXCEPT !.whole = NoWarehouse])
CloseWhole == InWarehouseDialog /\ ~local.whole.submitting /\ Act([local EXCEPT !.whole = None])
ChooseFrom(w) == InWarehouseDialog /\ w \in view.whole.sources /\ Act([local EXCEPT !.whole = ChangeSource(@, w)])
ChooseTo(w) ==
  InWarehouseDialog /\ local.whole.from \notin {None, w} /\ Act([local EXCEPT !.whole.to = w])
SubmitWarehouse ==
  /\ InWarehouseDialog /\ WarehouseReady(local.whole, G.items)
  /\ Send([local EXCEPT !.whole.submitting = TRUE, !.whole.failed = FALSE],
          [op |-> "warehouse", from |-> local.whole.from, to |-> local.whole.to])

-----------------------------------------------------------------------------
(* The contents of containers *)

OnContents == Here("container-contents")
QueryContents(query) == OnContents /\ Act(SetContentsQuery(local, query @@ local.query, G.ledger))
ChooseRow(row) == OnContents /\ Manages /\ HasStock(row) /\ Act(ChooseContainer(local, row.key))
OpenBulkDialog ==
  /\ OnContents /\ view.transfer /\ local.bulk = None
  /\ Act(OpenBulkTransfer(local, view.rows, G.items, G.masters.locations))
CloseBulkDialog == OnContents /\ local.bulk # None /\ ~local.bulk.submitting /\ Act(CloseBulkTransfer(local))
ChooseBulkDestination(to) ==
  OnContents /\ local.bulk # None /\ Act([local EXCEPT !.bulk = SetBulkDestination(@, to)])
SubmitBulk ==
  /\ OnContents /\ local.bulk # None /\ BulkReady(local.bulk, view.plan)
  /\ Send([local EXCEPT !.bulk.submitting = TRUE, !.bulk.failed = FALSE],
          [op |-> "transfer", payload |-> BulkPayload(view.plan, local.bulk.to)])

OpenContainerDialog(page) ==
  /\ Here("container-detail") /\ view.state = "ready" /\ view.quick /\ local.quick = None
  /\ Act(OpenQuick(local, page, ContainerOf(path, None), G.items))

-----------------------------------------------------------------------------
(* The life of a container *)

OnLifecycle == Here("container-lifecycle")
FilterContainers(filter) ==
  OnLifecycle /\ view.list # None /\ Act(Refilter(local, filter @@ local.filter))

Scope == LifecycleOf(path, None)
Answers == YardAt(log, local.answer.version)
PanelReady == OnLifecycle /\ view.life # None /\ view.life.ready
ClickNode(node) ==
  PanelReady /\ Act(SelectNode(local, LifeOf(Answers, local.answer.container), node))
SaveBoxType(type) ==
  /\ PanelReady /\ view.life.side.panel = "container" /\ view.life.side.saves
  /\ Send([local EXCEPT !.type = type, !.busy = "container"], [op |-> "box", container |-> Scope[2], type |-> type])
TellEvent(type, public) ==
  /\ PanelReady /\ view.life.side.panel \in {"tracking", "pickup", "delivery"} /\ view.life.side.saves
  /\ Send([local EXCEPT !.busy = "event"],
          [op |-> "tell", event |-> EventOf(local, Scope[2], view.life.side.panel, type, public, 0)])

-----------------------------------------------------------------------------
(* The log, the summary and the map *)

QueryLog(query) == Here("all-activity") /\ Act(SetQuery(local, query @@ local.query, G.ledger))
SelectMovement(m) == Here("all-activity") /\ Act([local EXCEPT !.selected = m])

FilterSummary(filter) ==
  /\ Here("inventory-summary")
  /\ \E filtered \in {[local EXCEPT !.filter = filter @@ @]} : Act(KeptSummary(filtered, SummaryRows(filtered, G)))
SelectSource(key) == Here("inventory-summary") /\ Act([local EXCEPT !.selected = key])

FilterMap(filter) ==
  /\ Here("warehouse-map") /\ \E filtered \in {[local EXCEPT !.filter = filter @@ @]} : Act(MapEffects(filtered, G.items))
ClickBlock(node) ==
  Here("warehouse-map") /\ Act(MapEffects([local EXCEPT !.selected = NodeSelected(@, node)], G.items))

-----------------------------------------------------------------------------

AdjustmentClicks ==
  \/ \E key \in view.dialog.options : ChooseContainerToAdjust(key)
  \/ \E mode \in {"FINAL", "CHANGE"} : SetAdjustmentMode(mode)
  \/ GiveReason \/ SubmitAdjustment
  \/ \E b \in DOMAIN local.dialog.lines, n \in Inputs.quantities : TypeBalance(b, n)

TransferClicks ==
  \/ \E key \in view.dialog.options : ChooseContainerToMove(key)
  \/ \E mode \in {"ENTIRE", "PARTIAL"} : ChooseMode(mode)
  \/ \E to \in view.dialog.warehouses : ChooseDestination(to)
  \/ \E section \in Inputs.sections : ChooseSection(section)
  \/ \E b \in DOMAIN local.dialog.lines, n \in Inputs.quantities : TypeMoved(b, n)
  \/ SubmitTransfer

CountClicks ==
  \/ \E option \in view.options : ChooseSource(option.key)
  \/ AddCount \/ SubmitCount
  \/ \E i \in DOMAIN local.dialog.lines :
       \/ RemoveCount(i)
       \/ \E b \in CountSource(DialogItems, local.dialog.source) : ChooseItem(i, b)
       \/ \E n \in Inputs.quantities : TypeCounted(i, n)

StockClicks ==
  \/ OpenDialog \/ CloseDialog \/ OpenWarehouse \/ CloseWhole \/ SubmitWarehouse
  \/ InDialog("adjustments") /\ AdjustmentClicks
  \/ InDialog("transfers") /\ TransferClicks
  \/ InDialog("cycle-counts") /\ CountClicks
  \/ OnStockPage /\ \E i \in Ids(G.documents) : SelectPosting(i)
  \/ \E w \in Inputs.warehouses : ChooseFrom(w) \/ ChooseTo(w)

ContainerClicks ==
  \/ \E query \in Inputs.queries : QueryContents(query) \/ QueryLog(query)
  \/ OnContents /\ \E row \in view.rows : ChooseRow(row)
  \/ OpenBulkDialog \/ CloseBulkDialog \/ SubmitBulk
  \/ \E to \in Inputs.warehouses : ChooseBulkDestination(to)
  \/ \E page \in {"adjustments", "transfers"} : OpenContainerDialog(page)
  \/ \E filter \in Inputs.containers : FilterContainers(filter)
  \/ PanelReady /\ \E node \in view.life.flow.nodes : ClickNode(node)
  \/ \E type \in Inputs.types : SaveBoxType(type)
  \/ \E type \in Inputs.events, public \in BOOLEAN : TellEvent(type, public)
  \/ Here("all-activity") /\ \E m \in view.rows : SelectMovement(m)
  \/ \E filter \in Inputs.places : FilterSummary(filter) \/ FilterMap(filter)
  \/ Here("inventory-summary") /\ \E row \in view.rows : SelectSource(row.key)
  \/ Here("warehouse-map") /\ \E node \in view.nodes : ClickBlock(node)
=============================================================================
