------------------------------ MODULE PageAnswers ------------------------------
(***************************************************************************)
(* What the pages of the workspace do when a call that they made comes     *)
(* back: at the answer, when it was refused, and when the workspace was    *)
(* loaded again after it; and the page that they then lead to.             *)
(*                                                                         *)
(* A page that was left in the meantime forgets what would change its own  *)
(* state, but it still leads on.                                           *)
(***************************************************************************)
EXTENDS PageStates

(* Whether the page loads the workspace again once the call went through. *)
Reloads(page, request) ==
  /\ request.op \notin {"retype", "box", "tell"}
  /\ request.op # "put" \/ request.kind # "orders"
  /\ request.op # "copy" \/ page # "inbound-detail"

-----------------------------------------------------------------------------
(* The answer *)

CellIsSaved(request) == "cell" \in DOMAIN request

MasterAnswered(l, request) ==
  CASE request.op = "drop" -> l
    [] request.kind = "orders" -> [l EXCEPT !.table = OrderSaved(@)]
    [] request.kind = "locations" -> l
    [] CellIsSaved(request) -> CellSaved(l, request.key, request.record)
    [] OTHER -> RecordSaved(l)

(* `done` is what the server says of it: the document that it made, or those *)
(* of a batch that went through.                                           *)
PageAnswered(page, l, request, documents, done) ==
  CASE page \in ListPageKeys -> ListAnswered(l, request, Live(l, documents), done)
    [] page = "cycle-counts" -> [l EXCEPT !.dialog = None]
    [] request.op = "retype" -> [l EXCEPT !.type = request.type, !.saved = request.type, !.saving = FALSE]
    [] page = "container-lifecycle" -> [Reload(l) EXCEPT !.busy = None]
    [] page \in MasterPageKeys -> MasterAnswered(l, request)
    [] OTHER -> l

-----------------------------------------------------------------------------
(* The refusal *)

DialogRefused(dialog) == IF dialog = None THEN None ELSE [dialog EXCEPT !.submitting = FALSE, !.failed = TRUE]

ReceiptRefused(l, request) ==
  CASE request.op = "retype" -> [l EXCEPT !.saving = FALSE]
    [] request.op = "adjust" -> [l EXCEPT !.dialog = DialogRefused(@)]
    [] OTHER -> l

MasterRefused(l, request) ==
  CASE request.op = "put" /\ request.kind = "orders" -> [l EXCEPT !.table = OrderRefused(@, request.previous)]
    [] request.op = "drop" \/ CellIsSaved(request) -> [l EXCEPT !.failed = TRUE]
    [] OTHER -> RecordRefused(l)

PageRefused(page, l, request) ==
  CASE page = "daily-operations" -> [l EXCEPT !.busy = None]
    [] page \in ListPageKeys -> ListRefused(l)
    [] page \in StockPageKeys ->
         IF request.op = "warehouse" THEN [l EXCEPT !.whole = DialogRefused(@)] ELSE [l EXCEPT !.dialog = DialogRefused(@)]
    [] page = "container-contents" -> [l EXCEPT !.bulk = DialogRefused(@)]
    [] page = "container-detail" -> [l EXCEPT !.dialog = DialogRefused(@)]
    [] page = "inbound-detail" -> ReceiptRefused(l, request)
    [] page = "receipt-editor" -> IF request.op = "copy" THEN [l EXCEPT !.copying = FALSE] ELSE NotSaved(l)
    [] page = "container-lifecycle" -> [l EXCEPT !.busy = None]
    [] page \in MasterPageKeys -> MasterRefused(l, request)
    [] page = "storage-location-editor" -> [l EXCEPT !.saving = FALSE, !.failed = TRUE]
    [] OTHER -> l

-----------------------------------------------------------------------------
(* The workspace was loaded again *)

CountSettled(l) ==
  IF l.dialog = None THEN l ELSE [l EXCEPT !.dialog.submitting = FALSE]

MasterLoaded(l, request) ==
  CASE request.op = "drop" -> RecordDeleted(l)
    [] request.kind = "locations" -> WarehouseLoaded(l)
    [] CellIsSaved(request) -> l
    [] OTHER -> RecordLoaded(l)

(* `files` are the attachments that went up with a receipt. *)
PageSettled(page, l, request, files) ==
  CASE page = "daily-operations" -> [l EXCEPT !.busy = None]
    [] page \in ListPageKeys -> ListIdle(l)
    [] page = "cycle-counts" -> CountSettled(l)
    [] page \in StockPageKeys ->
         IF request.op = "warehouse" THEN [l EXCEPT !.whole = None] ELSE [l EXCEPT !.dialog = None]
    [] page = "container-contents" -> [l EXCEPT !.bulk = None, !.chosen = {}]
    [] page = "container-detail" -> CloseQuick(l)
    [] page = "inbound-detail" -> CloseReceiptAdjustment(l)
    [] page = "receipt-editor" -> IF request.op = "copy" THEN [l EXCEPT !.copying = FALSE] ELSE Saved(l, files)
    [] page \in MasterPageKeys -> MasterLoaded(l, request)
    [] page = "storage-location-editor" -> [l EXCEPT !.saving = FALSE]
    [] OTHER -> l

(* A grid that is given records again forgets the cells that were edited. *)
GridsLoaded(page, l) == IF page = "sku-master" THEN SkusLoaded(l) ELSE l

-----------------------------------------------------------------------------
(* Where it leads *)

EditorOf(kind, id) == IF kind = "IN" THEN ToReceipt(id) ELSE ToShipment(id)

(* The lists, and the page of a receipt, open a copy before it is loaded.   *)
LedAtOnce(page, request, id) ==
  IF request.op # "copy" THEN None
  ELSE CASE page \in ListPageKeys -> EditorOf(IF page = "inbound-management" THEN "IN" ELSE "OUT", id)
         [] page = "inbound-detail" -> ToReceipt(id)
         [] OTHER -> None

SavedLeads(request, id, complete) ==
  CASE AfterSave(request.id = None, request.payload.status, complete) = "detail" -> ToDetail(id)
    [] AfterSave(request.id = None, request.payload.status, complete) = "editor" -> ToReceipt(id)
    [] OTHER -> None

LedOnceLoaded(page, request, id, complete) ==
  CASE page = "daily-operations" /\ request.op = "copy" -> EditorOf(request.kind, id)
    [] page = "receipt-editor" ->
         IF request.op = "copy" THEN ToReceipt(id) ELSE SavedLeads(request, id, complete)
    [] page = "storage-location-editor" -> PagePath("storage-management")
    [] OTHER -> None
=============================================================================
