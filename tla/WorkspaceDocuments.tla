--------------------------- MODULE WorkspaceDocuments ---------------------------
(***************************************************************************)
(* What a user does on the pages of the documents: the dashboard and the   *)
(* board of a day, the two lists, the page of a receipt and its editor.    *)
(* What may be typed or chosen there is one of the Inputs (bound).         *)
(***************************************************************************)
EXTENDS WorkspaceShell

CONSTANT Inputs  \* the name of a field -> what may be entered there

Manages == G.manages

-----------------------------------------------------------------------------
(* Searching, wherever there is a search field *)

Searches == ListPageKeys \cup {"all-activity", "container-contents", "customers", "sku-master", "reports"}

TypeSearch(text) == Page \in Searches /\ Act([local EXCEPT !.typed = text])

SubmitSearches(page, l, version) ==
  CASE page \in ListPageKeys -> SubmitListSearch(l)
    [] page = "all-activity" -> SubmitLogSearch(l, version)
    [] page = "container-contents" -> SubmitContentsSearch(l, version)
    [] page = "reports" -> IF l.tab = "overview" THEN SubmitSearch(l) ELSE l
    [] OTHER -> l
SearchFor == Page \in Searches /\ Act(SubmitSearches(Page, local, G.ledger))

-----------------------------------------------------------------------------
(* The dashboard and the board *)

SetPeriod(period) == Here("dashboard") /\ Act([local EXCEPT !.period = period])
TurnWeek(days) == Here("dashboard") /\ Act([local EXCEPT !.week = @ + days])

BoardRow(kind) == IF kind = "IN" THEN view.receipts ELSE view.shipments

AdvanceRow(kind) ==
  /\ Here("daily-operations")
  /\ \E row \in BoardRow(kind) :
       /\ CanAdvance(row, Manages, local)
       /\ Send([local EXCEPT !.busy = <<"track", row.id>>], [op |-> "track", id |-> row.id, target |-> row.next])

CopyRow(kind) ==
  /\ Here("daily-operations")
  /\ \E row \in BoardRow(kind) :
       /\ CanCopy(row, Manages, local)
       /\ Send([local EXCEPT !.busy = <<"copy", row.id>>], [op |-> "copy", id |-> row.id, kind |-> kind])

-----------------------------------------------------------------------------
(* The lists *)

OnList == SignedIn /\ Page \in ListPageKeys
LiveNow == Live(local, G.documents)
Manageable == OnList /\ Manages

FilterList(filter) == OnList /\ Act(SetListFilter(local, filter @@ local.filter))
SelectListed(i) == OnList /\ i \in view.rows /\ Act(SelectDocument(local, LiveNow, i))

(* A call for one document, from its row or from the drawer. *)
Ask(op, i, request) == CanDo(local) /\ Send(Doing(local, op, i), request)

ConfirmListed(i) ==
  /\ Manageable /\ local.mode = "IN" /\ i \in view.rows /\ CanConfirm(LiveNow[i])
  /\ Ask("confirm", i, [op |-> "confirm", id |-> i])

(* Shipments move on in the drawer only. *)
TrackListed(i) ==
  /\ Manageable /\ local.mode = "OUT" /\ view.drawer # None /\ i = view.drawer.id /\ "track" \in view.drawer.buttons
  /\ Ask("track", i, [op |-> "track", id |-> i, target |-> OutboundAction(LiveNow[i])])

CopyListed(i) == Manageable /\ i \in view.rows /\ Ask("copy", i, [op |-> "copy", id |-> i])

(* A receipt is only cancelled in the drawer. *)
CancelListed(i) ==
  /\ Manageable /\ i \in view.rows /\ LiveNow[i].status # "DELETED"
  /\ local.mode = "IN" => view.drawer # None /\ i = view.drawer.id /\ "cancel" \in view.drawer.buttons
  /\ Act(CancelDocument(local, LiveNow[i]))

NoPrompt == local.prompt = None /\ local.rollback = 0
AnswerNo == OnList /\ ~NoPrompt /\ Act(ClosePrompt(local))
AllBatches == {"confirm receipts", "confirm shipments", "remove shipments"}
(* Yes is for one document, or for all that were chosen. *)
AnswerYes ==
  /\ OnList /\ local.prompt # None
  /\ \/ /\ local.prompt.op = "remove" /\ CanDo(local)
        /\ Send(Approved(local), local.prompt)
     \/ \E op \in AllBatches : /\ local.prompt.op = op
                              /\ Send(Approved(local), [op |-> op, chosen |-> local.prompt.chosen])

ChooseListed(i) == Manageable /\ i \in view.rows /\ Act(SelectRow(local, LiveNow, i))
ChooseAllListed == Manageable /\ Act(SelectAll(local, LiveNow))
Batches == IF local.mode = "IN" THEN {"confirm receipts"} ELSE {"confirm shipments", "remove shipments"}
(* The button that confirms shipments is only there for drafts. *)
Offered(op) == op = "confirm shipments" => CanConfirmAll(LiveNow, Chosen(LiveNow, local.chosen))
AskForBatch ==
  /\ Manageable /\ view.batch
  /\ \E op \in {op \in Batches : Offered(op)} : Act(AskBatch(local, LiveNow, op))

TypeListNote(note) == Manageable /\ view.drawer # None /\ Act(TypeNote(local, note))
SaveListNote ==
  /\ Manageable /\ view.drawer # None /\ view.dirty /\ ~local.noting
  /\ Send(SaveNote(local), [op |-> "note", id |-> local.selected, note |-> local.note])

-----------------------------------------------------------------------------
(* One receipt *)

OnReceipt == Here("inbound-detail") /\ view.state = "ready"
ReceiptHere == G.documents[DetailOf(path)]
MayPress(button) == OnReceipt /\ button \in view.receipt.buttons

ChooseType(type) == MayPress("type") /\ Act([local EXCEPT !.type = type])
SaveType ==
  /\ MayPress("type") /\ ~local.saving /\ local.type # local.saved
  /\ Send([local EXCEPT !.saving = TRUE], [op |-> "retype", id |-> ReceiptHere.id, type |-> local.type])
CopyHere == MayPress("copy") /\ Send(local, [op |-> "copy", id |-> ReceiptHere.id])
AdjustHere == MayPress("adjust") /\ ~local.adjusting /\ Act(OpenReceiptAdjustment(local, ReceiptHere, G.items))

-----------------------------------------------------------------------------
(* Entering a receipt *)

OnEditor == Here("receipt-editor") /\ view.state = "ready"
Drawn == Lookup(G.documents, ReceiptOf(path, None))
Edit(form) == OnEditor /\ ~ReadOnly(Drawn, Manages) /\ Act([local EXCEPT !.form = form])

FillHeader(header) == Edit(header @@ local.form)
SetHandling(handling) == Edit([local.form EXCEPT !.handling = handling])
AddReceiptLine == Len(local.form.lines) < Inputs.lines /\ Edit(AddLine(local.form))
RemoveReceiptLine(i) == Edit(RemoveLine(local.form, i))
ChooseSku(i, sku) == Edit(SetSku(local.form, i, sku))
TypeReceived(i, n) == Edit(SetQuantity(local.form, i, "received", n))

AttachFile == OnEditor /\ local.files = 0 /\ ~ReadOnly(Drawn, Manages) /\ Act([local EXCEPT !.files = 1])
GoToStep(step) == OnEditor /\ step # local.step /\ Act(MoveStep(local, G.items, step))

SaveRequest(status) ==
  [op |-> "receipt", id |-> ReceiptOf(path, None), payload |-> Payload(local, Drawn, status), files |-> local.files]
SaveAs(button, status) ==
  /\ OnEditor /\ button \in view.buttons
  /\ IF SubmitRefused(local, G.items, status) THEN Act(Refused(local))
     ELSE Send(Submitting(local), SaveRequest(status))
CopyDrawn ==
  /\ OnEditor /\ "copy" \in view.buttons
  /\ Send([local EXCEPT !.copying = TRUE], [op |-> "copy", id |-> ReceiptOf(path, None)])

-----------------------------------------------------------------------------

DocumentClicks ==
  \/ \E text \in Inputs.texts : TypeSearch(text)
  \/ SearchFor
  \/ \E period \in {"week", "month"} : SetPeriod(period)
  \/ \E days \in {-Week, Week} : TurnWeek(days)
  \/ \E kind \in {"IN", "OUT"} : AdvanceRow(kind) \/ CopyRow(kind)
  \/ \E filter \in Inputs.filters : FilterList(filter)
  \/ OnList /\ \E i \in view.rows :
       \/ SelectListed(i) \/ ConfirmListed(i) \/ TrackListed(i) \/ CopyListed(i) \/ CancelListed(i) \/ ChooseListed(i)
  \/ AnswerNo \/ AnswerYes \/ ChooseAllListed \/ AskForBatch \/ SaveListNote
  \/ \E note \in Inputs.notes : TypeListNote(note)
  \/ \E type \in Inputs.types : ChooseType(type)
  \/ SaveType \/ CopyHere \/ AdjustHere
  \/ Here("receipt-editor") /\
       \/ \E header \in Inputs.headers : FillHeader(header)
       \/ \E handling \in {"PALLETIZED", "SEALED_TRANSIT"} : SetHandling(handling)
       \/ \E i \in DOMAIN local.form.lines :
            \/ RemoveReceiptLine(i) \/ \E sku \in Inputs.skus : ChooseSku(i, sku)
            \/ \E n \in Inputs.quantities : TypeReceived(i, n)
       \/ AddReceiptLine \/ AttachFile \/ CopyDrawn
       \/ \E step \in 1..3 : GoToStep(step)
       \/ SaveAs("draft", "DRAFT") \/ SaveAs("submit", "CONFIRMED")
=============================================================================
