------------------------------ MODULE PageScreens ------------------------------
(***************************************************************************)
(* What each page of the workspace shows, and where each of them leads.    *)
(*                                                                         *)
(* A lead is a path, and what the page leaves for the page of that path    *)
(* before it goes there (None if it leaves nothing).                       *)
(***************************************************************************)
EXTENDS PageAnswers

-----------------------------------------------------------------------------
(* The screens that put together what other modules derive *)

StockStats(page, documents) ==
  CASE page = "adjustments" -> AdjustmentStats(documents)
    [] page = "transfers" -> TransferStats(documents)
    [] OTHER -> CountStats(documents)

DialogShown(page, dialog, items, warehouses) ==
  IF dialog = None THEN None
  ELSE CASE page = "adjustments" -> AdjustmentView(dialog, items)
         [] page = "transfers" -> TransferDialogView(dialog, items, warehouses)
         [] OTHER -> CountRows(dialog, items)

StockView(page, l, g) ==
  [stats |-> StockStats(page, g.documents),
   drawer |-> IF l.selected = 0 THEN None ELSE PostingDrawer(g.documents[l.selected], PostedTypes(page)),
   dialog |-> DialogShown(page, l.dialog, g.items, g.masters.locations),
   whole |-> IF l.whole = None THEN None ELSE WarehouseView(l.whole, g.items, g.masters.locations),
   options |-> ActionSourceOptions(g.items)]

SummaryDrawer(row, items) ==
  [row |-> row, warehouses |-> WarehouseBreakdown(row, items), containers |-> ContainerBreakdown(row, items)]
SummaryView(l, rows, items) ==
  [rows |-> rows, stats |-> SummaryStats(rows),
   drawer |-> IF l.selected = None THEN None
              ELSE SummaryDrawer(CHOOSE r \in rows : r.key = l.selected, items)]

ContentsView(l, rows, manages) ==
  [rows |-> rows, onHand |-> Total(LAMBDA r : r.onHand, rows), pallets |-> Total(LAMBDA r : r.pallets, rows),
   transfer |-> manages /\ SelectedRows(l, rows) # {},
   plan |-> IF l.bulk = None THEN None ELSE BulkPlan(l.bulk), loading |-> l.loading, failed |-> l.failed]

ContainerScreen(l, row, g) ==
  IF row = None THEN [state |-> IF g.loading THEN "loading" ELSE "missing"]
  ELSE [state |-> "ready", row |-> row, cards |-> ContainerSkuCards(g.items, row.items),
        history |-> {m \in g.movements : Identity(m.bucket) = row.key},
        quick |-> g.manages /\ row.items # {},
        dialog |-> IF l.quick = None THEN None
                   ELSE DialogShown(l.quick, l.dialog, ItemsAtKey(g.items, row.key), g.masters.locations)]

ReceiptScreen(l, document, g) ==
  IF document = None THEN [state |-> "missing"]
  ELSE [state |-> "ready", receipt |-> DetailView(document, g.manages), changed |-> l.type # l.saved,
        dialog |-> IF l.adjusting THEN AdjustmentView(l.dialog, g.items) ELSE None]

LifecycleScreen(scope, l, g, listed, answered) ==
  [list |-> IF scope # None THEN None ELSE ListView(l, listed.documents, listed.items, listed.movements),
   life |-> IF scope = None THEN None
            ELSE LifecycleView(l, LifeOf(answered, l.answer.container), answered.documents)]

EditorScreen(path, l, g) ==
  LET id == ReceiptOf(path, None)
  IN EditorView(l, id, Lookup(g.documents, id), g.documents, g.loading, g.manages)

(* A page that waits for the server shows the version that answered it. *)
ReportsScreen(l, yard, skus) == ReportsView(l, yard.items, yard.movements, skus)

ScreenOf(page, path, l, g, log) ==
  CASE page = "dashboard" -> DashboardView(l, g.items, g.documents, Today)
    [] page = "daily-operations" -> BoardView(g.documents, DayOf(path, Today))
    [] page \in ListPageKeys -> DocumentsView(l, Live(l, g.documents), ListedRows(l, g.documents), g.manages, g.items)
    [] page = "inbound-detail" -> ReceiptScreen(l, Lookup(g.documents, DetailOf(path)), g)
    [] page = "receipt-editor" -> EditorScreen(path, l, g)
    [] page \in StockPageKeys -> StockView(page, l, g)
    [] page = "inventory-summary" -> SummaryView(l, SummaryRows(l, g), g.items)
    [] page = "warehouse-map" -> MapView(g.items, l)
    [] page = "container-contents" ->
         ContentsView(l, ContentsRows(l, g.items, YardAt(log, l.rows.version).movements), g.manages)
    [] page = "container-detail" -> ContainerScreen(l, ContainerRow(g, ContainerOf(path, None)), g)
    [] page = "container-lifecycle" ->
         LifecycleScreen(LifecycleOf(path, None), l, g, YardAt(log, l.list.version), YardAt(log, l.answer.version))
    [] page = "all-activity" -> LogView(l, YardAt(log, l.rows.version).movements)
    [] page = "customers" -> CustomersView(l, g.masters.customers, g.items, g.documents, g.movements)
    [] page = "sku-master" -> SkuView(l, g.masters.skus)
    [] page = "storage-management" -> StorageView(l, g.masters.locations, g.items)
    [] page = "storage-location-editor" ->
         LayoutView(l, WarehouseOf(path, None) \notin {None} \cup DOMAIN g.masters.locations /\ ~g.loading)
    [] page = "reports" -> ReportsScreen(l, YardAt(log, Shown(l).answer.version), DOMAIN g.masters.skus)
    [] OTHER -> NoState
Screen(path, l, g, log) == ScreenOf(PageOf(path), path, l, g, log)

-----------------------------------------------------------------------------
(* Leads *)

Lead(to) == [to |-> to, with |-> None]
LeadWith(to, context) == [to |-> to, with |-> context]

DocumentPage(document) == PagePath(IF document.kind = "IN" THEN "inbound-management" ELSE "outbound-management")
ToDocument(document) == LeadWith(DocumentPage(document), [ListContext EXCEPT !.document = document.id])

DashboardLeads(l) ==
  LET Drafts == [ListContext EXCEPT !.status = CardFilter.status]
  IN {LeadWith(PagePath("inventory-summary"), NoSummaryFilter),
      LeadWith(PagePath("inbound-management"), Drafts), LeadWith(PagePath("outbound-management"), Drafts),
      Lead(PagePath("all-activity"))}
       \cup {Lead(ToDay(day)) : day \in l.week..(l.week + Week - 1)}

BoardLeads(path, g) ==
  LET day == DayOf(path, Today)
      On(kind) == PlannedOn(kind, g.documents, day)
  IN {Lead(ToDay(d)) : d \in {day - 1, day + 1}}
       \cup {Lead(to) : to \in IF g.manages THEN {ToReceipt(NoValue), ToShipment(NoValue)} ELSE {}}
       \cup {Lead(ToDetail(i)) : i \in On("IN")} \cup {ToDocument(g.documents[i]) : i \in On("OUT")}

ListLeads(l, live, manages) ==
  LET shown == RowsIn(l, live)
  IN {Lead(EditorOf(l.mode, NoValue)) : m \in {TRUE} \cap {manages}}
       \cup {Lead(ToDetail(i)) : i \in {i \in shown : l.mode = "IN"}}
       \cup {Lead(EditorOf(l.mode, i)) : i \in {i \in shown : manages /\ CanEdit(live[i])}}
       \cup {LeadWith(ToReceipt(i), ConvertContext) :
               i \in {i \in shown : manages /\ l.mode = "IN" /\ CanConvert(live[i])}}

ReceiptLeads(document, manages) ==
  IF document = None THEN {}
  ELSE {ToDocument(document)}
         \cup {Lead(ToReceipt(document.id)) : m \in {TRUE} \cap {manages /\ IsDraft(document)}}
         \cup {LeadWith(ToReceipt(document.id), ConvertContext) : m \in {TRUE} \cap {manages /\ CanConvert(document)}}

StockLeads(page, l) ==
  IF l.selected = 0 \/ page = "cycle-counts" THEN {}
  ELSE {LeadWith(PagePath("all-activity"), [search |-> All, type |-> IF page = "adjustments" THEN "ADJUST" ELSE "TRANSFER_OUT"])}

SummaryLeads(l, manages) ==
  IF l.selected = None THEN {}
  ELSE {LeadWith(PagePath(p), [search |-> l.selected[2], customer |-> l.selected[1]]) : p \in {"container-contents", "all-activity"}}
         \cup {LeadWith(PagePath(p), [NoLaunch EXCEPT !.source = l.selected]) : p \in {q \in StockPageKeys : manages}}

ContentsLeads(rows) ==
  {Lead(PagePath(p)) : p \in {"inventory-summary", "warehouse-map"}}
    \cup {Lead(ToContainer(r.key[1], r.key[2])) : r \in rows} \cup {Lead(ToLifecycle(r.key[1], r.key[2])) : r \in rows}

(* A container that stands in one warehouse only is looked up there. *)
ContainerLeads(row, g) ==
  IF row = None THEN {}
  ELSE {Lead(ToLifecycle(row.key[1], row.key[2])),
        LeadWith(PagePath("all-activity"),
                 [search |-> row.key[2], customer |-> row.key[1],
                  location |-> IF Cardinality(row.locations) = 1 THEN CHOOSE w \in row.locations : TRUE ELSE All])}
         \cup {LeadWith(PagePath("cycle-counts"), [container |-> row.key[2], source |-> ActionSource(Min(row.items))]) :
                 m \in {TRUE} \cap {g.manages /\ row.items # {}}}

LifecycleLeads(scope, l, life, rows) ==
  IF scope = None THEN {Lead(ToLifecycle(OwnerOf(r.container), r.container)) : r \in rows}
  ELSE IF l.loading \/ l.answer.version = 0 THEN {}
  ELSE {Lead(ToContainer(scope[1], l.answer.container))}
         \cup {Lead(to) : to \in UNION {{ToDetail(i), ToReceipt(i)} : i \in life.lists}}
         \cup UNION {{LeadWith(PagePath("outbound-management"), [ListContext EXCEPT !.document = i]), Lead(ToShipment(i))} :
                       i \in ToSet(life.orders)}

CustomerLeads(l) ==
  IF l.selected = None THEN {}
  ELSE {LeadWith(PagePath("inventory-summary"), [customer |-> l.selected]),
        LeadWith(PagePath("all-activity"), [search |-> All, customer |-> l.selected])}

MapLeads(rows) == {Lead(ToContainer(Identity(b)[1], Identity(b)[2])) : b \in UNION {r.items : r \in rows}}

(* Of what the screen shows. *)
LeadsOf(page, path, l, g, log, screen) ==
  CASE page = "dashboard" -> DashboardLeads(l)
    [] page = "daily-operations" -> BoardLeads(path, g)
    [] page \in ListPageKeys -> ListLeads(l, Live(l, g.documents), g.manages)
    [] page = "inbound-detail" -> ReceiptLeads(Lookup(g.documents, DetailOf(path)), g.manages)
    [] page = "receipt-editor" ->
         {Lead(PagePath("inbound-management"))} \cup {Lead(ToDetail(i)) : i \in {ReceiptOf(path, NoValue)} \ {NoValue}}
    [] page \in StockPageKeys -> StockLeads(page, l)
    [] page = "inventory-summary" -> SummaryLeads(l, g.manages)
    [] page = "warehouse-map" -> MapLeads(screen.rows)
    [] page = "container-contents" -> ContentsLeads(screen.rows)
    [] page = "container-detail" -> ContainerLeads(IF screen.state = "ready" THEN screen.row ELSE None, g)
    [] page = "container-lifecycle" ->
         LifecycleLeads(LifecycleOf(path, None), l, LifeOf(YardAt(log, l.answer.version), l.answer.container),
                        IF screen.list = None THEN {} ELSE screen.list.rows)
    [] page = "all-activity" -> {Lead(PagePath(p)) : p \in {screen.source} \ {None}}
    [] page = "customers" -> CustomerLeads(l)
    [] page = "storage-management" ->
         {Lead(ToNewWarehouse)} \cup {Lead(ToWarehouse(w)) : w \in DOMAIN g.masters.locations}
    [] OTHER -> {}

(* Whatever is shown, the menu and the back button of the page lead away. *)
ShellLeads(page, role, visited) ==
  {Lead(PagePath(p)) : p \in (Menu(role) \cap visited) \cup BackPages(page)}
Leads(path, l, g, log, screen, role, visited) ==
  LeadsOf(PageOf(path), path, l, g, log, screen) \cup ShellLeads(PageOf(path), role, visited)
=============================================================================
