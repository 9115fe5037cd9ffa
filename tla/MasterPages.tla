----------------------------- MODULE MasterPages -----------------------------
(***************************************************************************)
(* The pages of the master records: customers (CustomerManagementPage.tsx), *)
(* SKUs (SKUMasterPage.tsx), warehouses (StorageManagementPage.tsx) and the *)
(* layout of one (StorageLocationEditorPage.tsx), with the order of columns *)
(* that is shared by everybody (useSharedColumnOrder.tsx).                 *)
(*                                                                         *)
(* A customer is [name, note], a SKU [sku, description, category, unit], a  *)
(* warehouse [name, sections, blocks]; a block of a layout is [id, kind,   *)
(* name] and where it is drawn is left out.  A blank text is "".           *)
(***************************************************************************)
EXTENDS YardServer

Blank == ""
OrElse(text, otherwise) == IF text = Blank THEN otherwise ELSE text

-----------------------------------------------------------------------------
(* The order of columns *)

Actions == "actions"
Orderable(columns) == SelectSeq(columns, LAMBDA c : c # Actions)

(* Columns that the saved order does not know come after those it does. *)
ResolvedOrder(columns, order) ==
  LET known == SelectSeq(order, LAMBDA c : c \in ToSet(Orderable(columns)))
  IN IF order = <<>> THEN Orderable(columns)
     ELSE known \o SelectSeq(Orderable(columns), LAMBDA c : c \notin ToSet(known))
ColumnsShown(columns, order) ==
  ResolvedOrder(columns, order) \o SelectSeq(columns, LAMBDA c : c = Actions)

FreshOrder == [order |-> <<>>, draft |-> <<>>, open |-> FALSE, saving |-> FALSE, asked |-> TRUE]
OrderAnswered(table, order) ==
  [table EXCEPT !.order = SelectSeq(order, LAMBDA c : c # Actions), !.asked = FALSE]
OpenOrder(table, columns) == [table EXCEPT !.draft = ResolvedOrder(columns, table.order), !.open = TRUE]
CloseOrder(table) == [table EXCEPT !.open = FALSE, !.draft = <<>>, !.saving = FALSE]

IndexIn(seq, x) == SelectInSeq(seq, LAMBDA y : y = x)
Moved(seq, x, target) == InsertAt(RemoveAt(seq, IndexIn(seq, x)), IndexIn(seq, target), x)
MoveColumn(table, column, target) ==
  IF column = target \/ ~{column, target} \subseteq ToSet(table.draft) THEN table
  ELSE [table EXCEPT !.draft = Moved(@, column, target)]

(* The order is shown before it is saved, and taken back if it was not. *)
SaveOrder(table) == [table EXCEPT !.order = table.draft, !.saving = TRUE]
OrderSaved(table) == [table EXCEPT !.saving = FALSE, !.open = FALSE]
OrderRefused(table, previous) == [OrderSaved(table) EXCEPT !.order = previous]

-----------------------------------------------------------------------------
(* A dialog with one record, saved and loaded again *)

Closed == [open |-> FALSE, id |-> None, record |-> None]
Opened(id, record) == [open |-> TRUE, id |-> id, record |-> record]

FreshMaster ==
  [typed |-> All, selected |-> None, dialog |-> Closed, saving |-> FALSE, failed |-> FALSE, told |-> FALSE,
   edited |-> <<>>, table |-> FreshOrder]

OpenRecord(local, id, record) == [local EXCEPT !.dialog = Opened(id, record), !.failed = FALSE]
CloseRecord(local) == [local EXCEPT !.dialog = Closed, !.failed = FALSE]
Submitted(local) == [local EXCEPT !.saving = TRUE, !.failed = FALSE]

(* The answer closes whatever dialog is open by then. *)
RecordSaved(local) == CloseRecord(local)
RecordRefused(local) == [local EXCEPT !.saving = FALSE, !.failed = TRUE]
RecordLoaded(local) == [local EXCEPT !.saving = FALSE, !.told = TRUE]
RecordDeleted(local) == [local EXCEPT !.told = TRUE]

-----------------------------------------------------------------------------
(* Customers *)

NewCustomer == [name |-> Blank, note |-> Blank]
CustomerColumns == <<"name", "contact", "stock", Actions>>

CustomerRows(customers, search) == {c \in DOMAIN customers : search \in {All, customers[c].name}}

StockOfCustomer(items, customer) ==
  LET here == {b \in DOMAIN items : Buckets[b].customer = customer}
  IN [rows |-> Cardinality(here), onHand |-> OnHand(items, here), available |-> AvailableOn(items, here),
      allocated |-> Total(LAMBDA b : items[b].allocated, here),
      warehouses |-> Cardinality({Buckets[b].location : b \in here})]

(* The selected customer, until the list no longer has it. *)
KeptCustomer(local, customers) ==
  IF local.selected \in DOMAIN customers THEN local ELSE [local EXCEPT !.selected = None]

(* Opening the dialog from a row also selects the row. *)
EditCustomer(local, customers, c) == OpenRecord([local EXCEPT !.selected = c], c, customers[c])

DrawerItems == 8
DrawerDocuments == 6
FirstOf(seq, n) == SubSeq(seq, 1, Min({n, Len(seq)}))
TopItems(items, customer) ==
  FirstOf(SetToSortSeq({b \in DOMAIN items : Buckets[b].customer = customer},
                       LAMBDA b, c : AvailableOn(items, {b}) > AvailableOn(items, {c})), DrawerItems)
TopMovements(movements, customer) ==
  FirstOf(SetToSortSeq({m \in movements : Buckets[m.bucket].customer = customer}, LAMBDA m, n : m.date > n.date),
          DrawerItems)

(* What was entered later has the higher number. *)
Latest6(kind, documents, customer) ==
  FirstOf(SetToSortSeq({i \in Of(kind, documents) : documents[i].customer = customer
                          /\ documents[i].status \notin {"DELETED", "CANCELLED"}}, >), DrawerDocuments)
IsOpenStatus(document) == document.status \in {"DRAFT", "CONFIRMED"}

(* Open documents are counted among those the drawer lists. *)
CustomerDrawer(customer, items, documents, movements) ==
  LET receipts == Latest6("IN", documents, customer)
      shipments == Latest6("OUT", documents, customer)
  IN [items |-> TopItems(items, customer), receipts |-> receipts, shipments |-> shipments,
      movements |-> TopMovements(movements, customer), stock |-> StockOfCustomer(items, customer),
      open |-> Len(SelectSeq(receipts \o shipments, LAMBDA i : IsOpenStatus(documents[i])))]

CustomersView(local, customers, items, documents, movements) ==
  [rows |-> {[key |-> c, stock |-> StockOfCustomer(items, c)] : c \in CustomerRows(customers, local.typed)},
   columns |-> ColumnsShown(CustomerColumns, local.table.order),
   drawer |-> IF local.selected \notin DOMAIN customers THEN None
              ELSE CustomerDrawer(local.selected, items, documents, movements)]

-----------------------------------------------------------------------------
(* SKUs *)

NewSku == [sku |-> Blank, description |-> Blank, category |-> Blank, unit |-> Blank]
SkuColumns == <<"sku", "description", "category", Actions>>

(* The grid is a copy of the records that cells are edited in. *)
SkusShown(local, skus) == local.edited @@ skus
SkuRows(local, skus) ==
  {k \in DOMAIN SkusShown(local, skus) :
    local.typed \in {All, SkusShown(local, skus)[k].sku, SkusShown(local, skus)[k].description}}

EditedForm(record) == [record EXCEPT !.category = OrElse(@, "General"), !.unit = OrElse(@, "pcs")]
CellPayload(record) == EditedForm(record)
CellRefused(payload) == payload.sku = Blank \/ payload.description = Blank
CellSaved(local, key, record) == [local EXCEPT !.edited = (key :> record) @@ @, !.told = TRUE]
SkusLoaded(local) == [local EXCEPT !.edited = <<>>]

SkuView(local, skus) ==
  [rows |-> {[key |-> k, record |-> SkusShown(local, skus)[k]] : k \in SkuRows(local, skus)},
   columns |-> ColumnsShown(SkuColumns, local.table.order)]

-----------------------------------------------------------------------------
(* Warehouses *)

Kinds == {"temporary", "section", "support"}
OfBlocks(blocks, kind) == SelectSeq(blocks, LAMBDA b : b.kind = kind)
NamesOf(blocks) == Each(LAMBDA b : b.name, blocks)

StorageSummary(locations, items) ==
  LET Blocks(kind) == Total(LAMBDA w : Len(OfBlocks(locations[w].blocks, kind)), DOMAIN locations)
  IN [warehouses |-> Cardinality(DOMAIN locations), temporary |-> Blocks("temporary"),
      sections |-> Blocks("section"), assigned |-> Cardinality(DOMAIN items)]

UsageOf(items, w) == Cardinality({b \in DOMAIN items : Buckets[b].location = w})

(* Both dialogs keep the warehouse as it was when they were opened. *)
RenamePayload(opened, name) == [opened EXCEPT !.name = name]
RenameRefused(name) == name = Blank

SectionNames(blocks) == <<Temp>> \o NamesOf(OfBlocks(blocks, "section"))
IsDuplicateFree(seq) == Cardinality(ToSet(seq)) = Len(seq)
SectionsRefused(blocks) ==
  \/ \E b \in ToSet(OfBlocks(blocks, "section")) : b.name = Blank
  \/ ~IsDuplicateFree(SectionNames(blocks))
SectionsPayload(opened, blocks) == [opened EXCEPT !.sections = SectionNames(blocks), !.blocks = blocks]
NameBlock(local, i, name) == [local EXCEPT !.dialog.record.blocks[i].name = name]

(* Closing is refused while saving; the answer closes it all the same. *)
CloseWarehouse(local) == IF local.saving THEN local ELSE CloseRecord(local)
WarehouseLoaded(local) == [CloseRecord(local) EXCEPT !.saving = FALSE, !.told = TRUE]

StorageView(local, locations, items) ==
  [summary |-> StorageSummary(locations, items),
   rows |-> {[key |-> w, used |-> UsageOf(items, w), sections |-> locations[w].sections] : w \in DOMAIN locations}]

-----------------------------------------------------------------------------
(* The layout of a warehouse *)

Block(kind, id, name) == [id |-> id, kind |-> kind, name |-> name]
DefaultName(kind) == CASE kind = "temporary" -> "area" [] kind = "support" -> "support" [] OTHER -> "S"

(* A warehouse without a layout is given one from its sections. *)
DefaultBlocks(sections) ==
  IF sections = <<>> THEN <<Block("temporary", 1, DefaultName("temporary"))>>
  ELSE [i \in DOMAIN sections |-> IF sections[i] = Temp THEN Block("temporary", i, DefaultName("temporary"))
                                  ELSE Block("section", i, sections[i])]

WithoutRepeats(seq) ==
  FoldLeft(LAMBDA acc, x : IF x \in ToSet(acc) THEN acc ELSE Append(acc, x), <<>>, seq)

(* The names a layout stands for: supports have none, and there is always a *)
(* temporary area.                                                         *)
DerivedSections(blocks) ==
  LET named == SelectSeq(blocks, LAMBDA b : b.kind = "temporary" \/ (b.kind = "section" /\ b.name # Blank))
      names == WithoutRepeats(Each(LAMBDA b : IF b.kind = "temporary" THEN Temp ELSE b.name, named))
  IN IF Temp \in ToSet(names) THEN names ELSE <<Temp>> \o names

Sanitized(blocks) ==
  LET named == [i \in DOMAIN blocks |-> [blocks[i] EXCEPT !.name = OrElse(@, DefaultName(blocks[i].kind))]]
  IN IF OfBlocks(named, "temporary") # <<>> THEN named
     ELSE <<Block("temporary", 0, DefaultName("temporary"))>> \o named

NewWarehouse == [name |-> Blank, sections |-> <<>>, blocks |-> <<>>]
LayoutForm(location) ==
  [name |-> location.name,
   blocks |-> Sanitized(IF location.blocks # <<>> THEN location.blocks ELSE DefaultBlocks(location.sections))]

(* The form starts again with every load of the warehouse it was given. *)
FreshLayout(location) ==
  LET form == LayoutForm(location)
  IN [form |-> form, block |-> form.blocks[1].id, saving |-> FALSE, failed |-> FALSE]
LayoutLoaded(local, location) == [FreshLayout(location) EXCEPT !.saving = local.saving]

IsTemporaryOther(blocks, id) == \E b \in ToSet(blocks) : b.id # id /\ b.kind = "temporary"
SelectedBlock(local) ==
  IF local.block \in {b.id : b \in ToSet(local.form.blocks)} THEN local.block ELSE local.form.blocks[1].id

SetBlock(local, id, kind, name) ==
  IF kind = "temporary" /\ IsTemporaryOther(local.form.blocks, id) THEN [local EXCEPT !.failed = TRUE]
  ELSE [local EXCEPT !.form.blocks = [i \in DOMAIN @ |-> IF @[i].id = id THEN Block(kind, id, name) ELSE @[i]]]

NextBlock(blocks) == 1 + Max({b.id : b \in ToSet(blocks)})
AddBlock(local, kind) ==
  LET blocks == local.form.blocks
  IN IF kind = "temporary" /\ IsTemporaryOther(blocks, NextBlock(blocks)) THEN [local EXCEPT !.failed = TRUE]
     ELSE [local EXCEPT !.form.blocks = Append(@, Block(kind, NextBlock(blocks), DefaultName(kind))),
                        !.block = NextBlock(blocks)]

RemoveBlock(local) ==
  LET left == SelectSeq(local.form.blocks, LAMBDA b : b.id # SelectedBlock(local))
  IN IF left = <<>> THEN local
     ELSE IF OfBlocks(left, "temporary") = <<>> THEN [local EXCEPT !.failed = TRUE]
     ELSE [local EXCEPT !.form.blocks = left, !.block = left[1].id]

LayoutPayload(form) ==
  [name |-> form.name, sections |-> DerivedSections(Sanitized(form.blocks)), blocks |-> Sanitized(form.blocks)]

LayoutView(local, missing) ==
  IF missing THEN [state |-> "missing", sections |-> <<>>, block |-> None]
  ELSE [state |-> "ready", sections |-> DerivedSections(local.form.blocks), block |-> SelectedBlock(local)]
=============================================================================
