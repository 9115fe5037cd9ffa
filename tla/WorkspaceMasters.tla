---------------------------- MODULE WorkspaceMasters ----------------------------
(***************************************************************************)
(* What a user does on the pages of the master records and of the reports, *)
(* and what these and other pages ask of the server on their own: lists    *)
(* and logs that are filtered, reports, the life of a container, the order *)
(* of columns.  Only administrators change master records.                 *)
(***************************************************************************)
EXTENDS WorkspaceStock

Masters(page) == Here(page) /\ Role = "admin"
KindOf(page) == IF page = "customers" THEN "customers" ELSE "skus"
Put(kind, key, record) == [op |-> "put", kind |-> kind, key |-> key, record |-> record]

-----------------------------------------------------------------------------
(* Records with a dialog *)

RecordPages == {"customers", "sku-master"}
OnRecords == SignedIn /\ Page \in RecordPages /\ Role = "admin"

SelectCustomer(c) == Here("customers") /\ Act([local EXCEPT !.selected = c])
NewRecord ==
  OnRecords /\ ~local.dialog.open
    /\ Act(OpenRecord(local, None, IF Page = "customers" THEN NewCustomer ELSE NewSku))
EditRecord(key) ==
  /\ OnRecords /\ ~local.dialog.open
  /\ Act(IF Page = "customers" THEN EditCustomer(local, G.masters.customers, key)
         ELSE OpenRecord(local, key, EditedForm(SkusShown(local, G.masters.skus)[key])))
InRecord == OnRecords /\ local.dialog.open
FillRecord(record) == InRecord /\ Act([local EXCEPT !.dialog.record = record @@ @])
CloseRecordDialog == InRecord /\ Act(CloseRecord(local))

(* The form asks for the texts that must be there. *)
IsFilled(record) == Blank \notin {record[f] : f \in DOMAIN record \ {"note"}}
NewKey == "new"
KeyOfDialog == IF local.dialog.id = None THEN NewKey ELSE local.dialog.id
SubmitRecord ==
  /\ InRecord /\ ~local.saving /\ IsFilled(local.dialog.record)
  /\ Send(Submitted(local), Put(KindOf(Page), KeyOfDialog, local.dialog.record))
DeleteRecord(key) ==
  OnRecords /\ Send([local EXCEPT !.failed = FALSE], [op |-> "drop", kind |-> KindOf(Page), key |-> key])

(* A cell of the grid is saved as it is left. *)
EditCell(key, record) ==
  /\ Masters("sku-master")
  /\ \E payload \in {CellPayload(record @@ SkusShown(local, G.masters.skus)[key])} :
       IF CellRefused(payload) THEN Act([local EXCEPT !.failed = TRUE])
       ELSE Send([local EXCEPT !.failed = FALSE], Over([cell |-> TRUE], Put("skus", key, payload)))

-----------------------------------------------------------------------------
(* The order of the columns *)

ColumnsOf(page) == IF page = "customers" THEN CustomerColumns ELSE SkuColumns
OpenColumns == OnRecords /\ ~local.table.open /\ Act([local EXCEPT !.table = OpenOrder(@, ColumnsOf(Page))])
InColumns == OnRecords /\ local.table.open
CloseColumns == InColumns /\ ~local.table.saving /\ Act([local EXCEPT !.table = CloseOrder(@)])
DragColumn(column, target) == InColumns /\ Act([local EXCEPT !.table = MoveColumn(@, column, target)])
ResetColumns ==
  InColumns /\ ~local.table.saving /\ Act([local EXCEPT !.table.draft = Orderable(ColumnsOf(Page))])
SaveColumns ==
  /\ InColumns /\ ~local.table.saving
  /\ Send([local EXCEPT !.table = SaveOrder(@)],
          Over(Put("orders", Page, local.table.draft), [previous |-> local.table.order]))

-----------------------------------------------------------------------------
(* Warehouses and their layouts *)

OnStorage == Masters("storage-management")
OpenWarehouseRecord(kind, w) ==
  OnStorage /\ ~local.dialog.open /\ Act(OpenRecord(local, <<kind, w>>, G.masters.locations[w]))
InWarehouseRecord(kind) == OnStorage /\ local.dialog.open /\ local.dialog.id[1] = kind
CloseWarehouseRecord == OnStorage /\ local.dialog.open /\ Act(CloseWarehouse(local))
SaveWarehouse(refused, record) ==
  /\ ~local.saving
  /\ IF refused THEN Act([local EXCEPT !.failed = TRUE])
     ELSE Send(Submitted(local), Put("locations", local.dialog.id[2], record))
SaveName(name) ==
  InWarehouseRecord("name") /\ SaveWarehouse(RenameRefused(name), RenamePayload(local.dialog.record, name))
SectionBlocks(blocks) == {i \in DOMAIN blocks : blocks[i].kind = "section"}
NameSection(i, name) == InWarehouseRecord("sections") /\ Act(NameBlock(local, i, name))
SaveSections ==
  /\ InWarehouseRecord("sections")
  /\ SaveWarehouse(SectionsRefused(local.dialog.record.blocks),
                   SectionsPayload(local.dialog.record, local.dialog.record.blocks))
DeleteWarehouse(w) ==
  OnStorage /\ Send([local EXCEPT !.failed = FALSE], [op |-> "drop", kind |-> "locations", key |-> w])

OnLayout == Masters("storage-location-editor") /\ view.state = "ready"
NameWarehouse(name) == OnLayout /\ Act([local EXCEPT !.form.name = name])
SelectBlock(id) == OnLayout /\ Act([local EXCEPT !.block = id])
ChangeBlock(kind, name) == OnLayout /\ Act(SetBlock(local, view.block, kind, name))
AddLayoutBlock(kind) ==
  OnLayout /\ Len(local.form.blocks) < Inputs.blocks /\ Act(AddBlock(local, kind))
DropBlock == OnLayout /\ Act(RemoveBlock(local))
SubmitLayout ==
  /\ OnLayout /\ ~local.saving /\ ~data.loading /\ local.form.name # Blank
  /\ Send([local EXCEPT !.saving = TRUE, !.failed = FALSE],
          Put("locations", WarehouseOf(path, NewKey), LayoutPayload(local.form)))

-----------------------------------------------------------------------------
(* Reports *)

ShowTab(tab) == Here("reports") /\ Act(SetTab(local, tab))
FillForm(fields) == Here("reports") /\ Act(SetForm(local, fields @@ Shown(local).form))
TypeRate(rate) == Here("reports") /\ Act(SetRate(local, rate))

-----------------------------------------------------------------------------
(* What pages ask on their own: the answer, and what they do without it *)

LogReply == LET answered == LogAnswered(local, Newest)
            IN IF Page = "all-activity" THEN KeptMovement(answered, log[Newest].movements) ELSE answered
Reply(answered, failed) == <<answered, failed>>
TabReply(tab) ==
  IF tab = "overview" THEN Reply([local EXCEPT !.overview = Answered(@, Newest)], [local EXCEPT !.overview = Failed(@)])
  ELSE Reply([local EXCEPT !.flow = Answered(@, Newest)], [local EXCEPT !.flow = Failed(@)])
LifeReply(yard, container) ==
  Reply(LifecycleAnswered(local, Newest, container, LifeOf(yard, container), BoxType(yard, container)),
        LifecycleFailed(local))
SavedOrder(orders) == IF Page \in DOMAIN orders THEN orders[Page] ELSE <<>>
OrderReply ==
  Reply([local EXCEPT !.table = OrderAnswered(@, SavedOrder(log[Newest].masters.orders))],
        [local EXCEPT !.failed = TRUE, !.table.asked = FALSE])

Fetched(reply) ==
  \E fate \in Fates :
    /\ Suffered(fate) /\ local' = IF fate THEN reply[1] ELSE reply[2]
    /\ UNCHANGED <<log, session, data, path, contexts, loads, call, mine>>

FetchList ==
  /\ SignedIn /\ Page \in ListPageKeys /\ local.asked
  /\ Fetched(Reply(ListFound(local, log[Newest].documents), ListUnfound(local)))
FetchLog ==
  /\ SignedIn /\ Page \in {"all-activity", "container-contents"} /\ local.asked
  /\ Fetched(Reply(LogReply, LogFailed(local)))
FetchReport == Here("reports") /\ Shown(local).asked /\ Fetched(TabReply(local.tab))
FetchContainers == OnLifecycle /\ local.listing /\ Fetched(Reply(Listed(local, Newest), NotListed(local)))
FetchLife == OnLifecycle /\ local.asked /\ Fetched(LifeReply(log[Newest], Scope[2]))
FetchOrder == SignedIn /\ Page \in RecordPages /\ local.table.asked /\ Fetched(OrderReply)

Fetch == FetchList \/ FetchLog \/ FetchReport \/ FetchContainers \/ FetchLife \/ FetchOrder

-----------------------------------------------------------------------------

RecordClicks ==
  \/ Here("customers") /\ \E row \in view.rows : SelectCustomer(row.key)
  \/ NewRecord \/ CloseRecordDialog \/ SubmitRecord
  \/ OnRecords /\ \E row \in view.rows : EditRecord(row.key) \/ DeleteRecord(row.key)
  \/ Here("customers") /\ \E record \in Inputs.customers : FillRecord(record)
  \/ Here("sku-master") /\
       \/ \E record \in Inputs.records : FillRecord(record)
       \/ \E row \in view.rows, record \in Inputs.records : EditCell(row.key, record)
  \/ OpenColumns \/ CloseColumns \/ ResetColumns \/ SaveColumns
  \/ InColumns /\ \E column, target \in ToSet(local.table.draft) : DragColumn(column, target)

WarehouseClicks ==
  \/ OnStorage /\ \E row \in view.rows :
       \/ \E kind \in {"name", "sections"} : OpenWarehouseRecord(kind, row.key)
       \/ DeleteWarehouse(row.key)
  \/ CloseWarehouseRecord \/ SaveSections
  \/ \E name \in Inputs.names : SaveName(name) \/ NameWarehouse(name)
  \/ OnStorage /\ local.dialog.open /\ \E i \in SectionBlocks(local.dialog.record.blocks), name \in Inputs.names : NameSection(i, name)
  \/ OnLayout /\
       \/ \E i \in DOMAIN local.form.blocks : SelectBlock(local.form.blocks[i].id)
       \/ \E kind \in Kinds, name \in Inputs.names : ChangeBlock(kind, name)
  \/ \E kind \in {"section", "support"} : AddLayoutBlock(kind)
  \/ DropBlock \/ SubmitLayout

ReportClicks ==
  \/ \E tab \in {"overview", "sku-flow"} : ShowTab(tab)
  \/ \E fields \in Inputs.forms : FillForm(fields)
  \/ \E rate \in Inputs.rates : TypeRate(rate)
=============================================================================
