------------------------------ MODULE ListPages ------------------------------
(***************************************************************************)
(* The pages that list the receipts and the shipments                      *)
(* (ActivityManagementPage.tsx), as operators over their own state and the *)
(* documents they are given.                                               *)
(*                                                                         *)
(* With a filter the page also asks the server, and what it found stands   *)
(* before what the workspace has; without one it only stands in for what   *)
(* the workspace lacks.  A copy that is made leads away from the page at   *)
(* once, so what it adds to the list is left out, as are the dialogs that  *)
(* export and import spreadsheets, and the deletion of many receipts, which *)
(* takes along what came after them.                                       *)
(***************************************************************************)
EXTENDS MasterPages

MaxSelected == 100

FreshList(mode) ==
  [mode |-> mode, typed |-> All, filter |-> NoFilter, found |-> <<>>, asked |-> FALSE, unfound |-> FALSE,
   chosen |-> {}, target |-> None, selected |-> 0, note |-> None, noting |-> FALSE, key |-> None,
   prompt |-> None, bulk |-> FALSE, rollback |-> 0, failed |-> FALSE]

-----------------------------------------------------------------------------
(* What is listed *)

HasFilter(l) == l.filter # NoFilter
OfMode(l, documents) == Restrict(documents, Of(l.mode, documents))
Source(l, mine) == IF HasFilter(l) THEN MergeById(l.found, mine) ELSE MergeById(mine, l.found)
Live(l, documents) == Source(l, OfMode(l, documents))

RowsIn(l, live) == IF l.mode = "IN" THEN InboundRows(live, l.filter) ELSE OutboundRows(live, l.filter)
ListedRows(l, documents) == RowsIn(l, Live(l, documents))

(* A change of the filter asks again, and forgets what was found before. *)
SetListFilter(l, filter) ==
  IF filter = l.filter THEN l
  ELSE [l EXCEPT !.filter = filter, !.found = <<>>, !.unfound = FALSE, !.asked = filter # NoFilter]
SubmitListSearch(l) == SetListFilter(l, [l.filter EXCEPT !.search = l.typed])
ListFound(l, documents) ==
  [l EXCEPT !.asked = FALSE,
            !.found = LET d == OfMode(l, documents) IN Restrict(d, RowsIn(l, d))]
ListUnfound(l) == [l EXCEPT !.asked = FALSE, !.unfound = TRUE]

(* A document that is no longer known is not selected, and the note that is *)
(* typed starts again from the document whenever that is loaded.           *)
NoteIn(live, i) == IF i \in Ids(live) THEN live[i].note ELSE None
SelectDocument(l, live, i) ==
  IF i \in Ids(live) THEN [l EXCEPT !.selected = i, !.note = NoteIn(live, i)]
  ELSE [l EXCEPT !.selected = 0, !.note = None]
FromFilter(l) == HasFilter(l) /\ l.selected \in Ids(l.found)
ListReloaded(l, documents) == IF FromFilter(l) THEN l ELSE SelectDocument(l, Live(l, documents), l.selected)

(* What another page asked for: a status to start with, or a document. *)
ListContext == [status |-> None, document |-> 0]
LaunchList(l, context, documents) ==
  LET shown == IF context.status = None THEN l ELSE SetListFilter(l, [l.filter EXCEPT !.status = context.status])
  IN SelectDocument(shown, Live(shown, documents), context.document)

-----------------------------------------------------------------------------
(* What can be done with a document *)

Doing(l, op, i) == [l EXCEPT !.key = <<op, i>>, !.failed = FALSE]
CanDo(l) == l.key = None
DrawerBusy(l) == l.noting \/ (l.key # None /\ l.key[2] = l.selected)

CanEdit(document) == IsDraft(document)
CanConvert(document) == IsDraft(document) /\ document.handling = "SEALED_TRANSIT"
CanConfirm(document) == IsDraft(document) /\ document.handling # "SEALED_TRANSIT"

(* A receipt that counted is only rolled back with what came after it, in a *)
(* dialog of its own; everything else asks once more.                      *)
CancelDocument(l, document) ==
  IF document.kind = "IN" /\ document.status = "CONFIRMED" THEN [l EXCEPT !.rollback = document.id]
  ELSE [l EXCEPT !.prompt = [op |-> "remove", id |-> document.id]]
ClosePrompt(l) == [l EXCEPT !.prompt = None, !.rollback = 0]

ConvertContext == [handling |-> "PALLETIZED", intent |-> "convert"]

NoteDirty(l, live) == l.selected # 0 /\ l.note # NoteIn(live, l.selected)
TypeNote(l, note) == [l EXCEPT !.note = note]
SaveNote(l) == [l EXCEPT !.noting = TRUE, !.failed = FALSE]

-----------------------------------------------------------------------------
(* Many at once *)

SelectRow(l, live, i) ==
  IF Selectable(live[i], l.mode) THEN [l EXCEPT !.chosen = ToggleRows(@, {i}, MaxSelected)] ELSE l
SelectAll(l, live) ==
  [l EXCEPT !.chosen = ToggleRows(@, {i \in RowsIn(l, live) : Selectable(live[i], l.mode)}, MaxSelected)]

(* Receipts are confirmed, or shipments confirmed or removed, as a batch;   *)
(* those that were chosen are frozen in the question that is asked.        *)
BatchRefused(l, live) ==
  LET chosen == Chosen(live, l.chosen)
  IN \/ ~CanConfirmAll(live, chosen)
     \/ l.mode = "IN" /\ \E i \in chosen : live[i].handling = "SEALED_TRANSIT"
AskBatch(l, live, op) ==
  IF op # "remove shipments" /\ BatchRefused(l, live) THEN [l EXCEPT !.failed = TRUE]
  ELSE [l EXCEPT !.prompt = [op |-> op, chosen |-> Chosen(live, l.chosen)]]

(* The question was answered with yes. *)
Approved(l) ==
  IF l.prompt.op = "remove" THEN Doing(ClosePrompt(l), "cancel", l.prompt.id)
  ELSE [ClosePrompt(l) EXCEPT !.bulk = TRUE, !.failed = FALSE]

-----------------------------------------------------------------------------
(* What the answers do *)

(* What was confirmed or moved on stays, or becomes, selected; the receipts *)
(* of a batch are no longer chosen, of its shipments those that failed are. *)
ListAnswered(l, request, live, done) ==
  CASE request.op \in {"confirm", "track"} -> SelectDocument(l, live, request.id)
    [] request.op = "remove" -> SelectDocument(l, live, 0)
    [] request.op = "note" -> [l EXCEPT !.note = request.note]
    [] request.op = "confirm receipts" -> [l EXCEPT !.chosen = {}, !.target = None]
    [] request.op = "confirm shipments" -> [l EXCEPT !.chosen = request.chosen \ done]
    [] request.op = "remove shipments" -> [SelectDocument(l, live, 0) EXCEPT !.chosen = request.chosen \ done]
    [] OTHER -> l
(* Slip: the button of the note stays disabled. *)
StillNoting(l) == [l EXCEPT !.key = None, !.bulk = FALSE]
ListIdle(l) == [l EXCEPT !.key = None, !.noting = FALSE, !.bulk = FALSE]
ListRefused(l) == [ListIdle(l) EXCEPT !.failed = TRUE]

-----------------------------------------------------------------------------
(* What the page shows *)

InboundButtons(l, document, manages) ==
  {"details", "count sheet"}
    \cup {b \in {"edit"} : manages /\ CanEdit(document)}
    \cup {b \in {"convert"} : manages /\ CanConvert(document)}
    \cup {b \in {"confirm"} : manages /\ CanConfirm(document)}
    \cup {b \in {"copy"} : manages}
    \cup {b \in {"cancel"} : manages /\ document.status # "DELETED"}
OutboundButtons(l, document, manages) ==
  {"pick sheet", "delivery note"}
    \cup {b \in {"edit"} : manages /\ IsDraft(document)}
    \cup {b \in {"track"} : manages /\ OutboundAction(document) # None}
    \cup {b \in {"copy"} : manages}
    \cup {b \in {"cancel"} : manages /\ document.status # "DELETED"}

DrawerButtons(l, document, manages) ==
  IF DrawerBusy(l) THEN {}
  ELSE IF l.mode = "IN" THEN InboundButtons(l, document, manages) ELSE OutboundButtons(l, document, manages)

(* What the pick sheet would print; none is made while a line has no bucket. *)
SheetRows(document, sheet) == IF SheetRefused(document, sheet) THEN <<>> ELSE AllocationRows(sheet)
SheetFor(document, items) == SheetRows(document, PickSheet(document, SourcesFromItems(items)))

ListDrawer(l, document, manages, items) ==
  [id |-> document.id, buttons |-> DrawerButtons(l, document, manages), lines |-> Len(document.lines),
   quantity |-> IF l.mode = "IN" THEN Received(document) ELSE Shipped(document),
   picks |-> IF l.mode = "IN" THEN None ELSE PickSummary(document),
   sheet |-> IF l.mode = "IN" THEN <<>> ELSE SheetFor(document, items)]

DocumentsView(l, live, rows, manages, items) ==
  [rows |-> rows, stats |-> OverviewStats(live, rows, l.mode),
   drawer |-> IF l.selected \in Ids(live) THEN ListDrawer(l, live[l.selected], manages, items) ELSE None,
   batch |-> manages /\ ~l.bulk /\ Chosen(live, l.chosen) # {},
   dirty |-> NoteDirty(l, live), waiting |-> l.asked]
=============================================================================
