----------------------------- MODULE ReceiptPage -----------------------------
(***************************************************************************)
(* The page that enters one receipt (InboundReceiptEditorPage.tsx), as     *)
(* operators over its own state, the documents and the items it is given.  *)
(*                                                                         *)
(* A route names the receipt that is edited, None for a new one.  The page *)
(* draws its form from the document once per route; sections, item codes   *)
(* and the breakdown of pallets are left out.                              *)
(***************************************************************************)
EXTENDS DocumentLists

EmptyForm == [customer |-> None, location |-> None, container |-> NoContainer, date |-> 0,
              handling |-> "PALLETIZED", note |-> None, lines |-> <<NewLine(1)>>]

(* A launch may ask for a way of handling: the form then starts with it. *)
Handling(context, otherwise) == IF context.handling = None THEN otherwise ELSE context.handling

LineOfDocument(line) ==
  [NewLine(line.id) EXCEPT !.sku = line.sku, !.described = TRUE, !.expected = line.expected,
                           !.received = line.received, !.pallets = line.pallets, !.per = line.per]

SourceState(document, context) ==
  IF document = None
  THEN [EmptyForm EXCEPT !.handling = Handling(context, @)]
  ELSE [customer |-> document.customer, location |-> document.location, container |-> document.container,
        date |-> document.date, handling |-> Handling(context, document.handling), note |-> document.note,
        lines |-> IF document.lines = <<>> THEN <<NewLine(1)>>
                  ELSE [i \in DOMAIN document.lines |-> LineOfDocument(document.lines[i])]]

NoContext == [handling |-> None, intent |-> None]

(* `route` is the one the form was drawn for, `drawn` the document it shows. *)
FreshEditor == [route |-> <<>>, drawn |-> None, form |-> EmptyForm, step |-> 2, intent |-> None,
                failed |-> FALSE, checked |-> FALSE, submitting |-> FALSE, copying |-> FALSE, files |-> 0]

Lookup(documents, id) == IF id \in Ids(documents) THEN documents[id] ELSE None

(* Nothing while the workspace loads; a receipt that is not there leaves the *)
(* form as it is, for good: the route counts as drawn.                     *)
OpenRoute(local, id, documents, loading, context) ==
  IF loading \/ local.route = <<id>> THEN local
  ELSE IF id # None /\ Lookup(documents, id) = None THEN [local EXCEPT !.route = <<id>>]
  ELSE [FreshEditor EXCEPT !.route = <<id>>, !.drawn = id, !.copying = local.copying, !.intent = context.intent,
                           !.form = SourceState(Lookup(documents, id), context)]

-----------------------------------------------------------------------------
(* Editing *)

Editable(document) == document = None \/ IsDraft(document)
ReadOnly(document, manages) == ~manages \/ ~Editable(document)

AddLine(form) ==
  [form EXCEPT !.lines = Append(@, NewLine(1 + Max({l.id : l \in ToSet(form.lines)})))]
RemoveLine(form, i) == [form EXCEPT !.lines = IF Len(@) = 1 THEN @ ELSE RemoveAt(@, i)]

(* A SKU that has a master brings its description with it. *)
SetSku(form, i, sku) ==
  [form EXCEPT !.lines[i].sku = sku, !.lines[i].described = @ \/ sku \in Descriptions]
SetQuantity(form, i, field, n) == [form EXCEPT !.lines[i][field] = Positive(n)]

HeaderRefused(form, arrived) ==
  HeaderError(form) \/ form.container = NoContainer \/ (arrived /\ form.date = 0)
DraftRefused(form, items, arrived) == HeaderRefused(form, arrived) \/ LinesError(form, items)

(* The review needs what a confirmation needs, the lines only a header. *)
StepRefused(form, items, step) ==
  \/ step = 2 /\ HeaderRefused(form, FALSE)
  \/ step = 3 /\ DraftRefused(form, items, form.handling # "SEALED_TRANSIT")

MoveStep(local, items, step) ==
  IF StepRefused(local.form, items, step) THEN [local EXCEPT !.checked = TRUE, !.failed = TRUE]
  ELSE [local EXCEPT !.checked = FALSE, !.failed = FALSE, !.step = step]

SubmitRefused(local, items, status) ==
  DraftRefused(local.form, items, status = "CONFIRMED" /\ local.form.handling # "SEALED_TRANSIT")

Refused(local) == [local EXCEPT !.checked = TRUE, !.failed = TRUE]
Submitting(local) == [local EXCEPT !.checked = FALSE, !.failed = FALSE, !.submitting = TRUE]

(* A sealed container can only be saved; the tracking is the one on screen. *)
Payload(local, document, status) ==
  ReceiptPayload(local.form, status, IF document = None THEN "SCHEDULED" ELSE document.tracking)

(* Files wait for the receipt; those that went up are no longer pending. *)
Saved(local, uploaded) ==
  [local EXCEPT !.submitting = FALSE, !.failed = uploaded < local.files, !.files = @ - uploaded]
NotSaved(local) == [local EXCEPT !.submitting = FALSE, !.failed = TRUE]

(* Where a save leads: a new draft to its own route, a confirmed receipt to *)
(* its page; a receipt that was there stays, and stays too without its files. *)
AfterSave(new, status, complete) ==
  IF status = "CONFIRMED" /\ (complete \/ new) THEN "detail" ELSE IF new THEN "editor" ELSE "stay"

-----------------------------------------------------------------------------
(* What the page shows *)

Buttons(local, document, manages) ==
  {"back"}
    \cup {b \in {"details"} : document # None}
    \cup {b \in {"copy"} : document # None /\ document.status = "CONFIRMED" /\ manages /\ ~local.copying}
    \cup {b \in {"draft", "submit"} : /\ ~local.submitting /\ ~ReadOnly(document, manages)
                                      /\ document = None \/ document.status # "CONFIRMED"}

ReviewLine(line) == [sku |-> line.sku, expected |-> line.expected, received |-> line.received,
                     pallets |-> line.pallets, per |-> line.per, variance |-> Variance(line)]

EditorView(local, id, document, documents, loading, manages) ==
  IF id # None /\ document = None /\ ~loading
  THEN [state |-> "missing", buttons |-> {"back"}, summary |-> <<>>, review |-> <<>>, warnings |-> {}]
  ELSE IF local.route = <<>>
  THEN [state |-> "loading", buttons |-> {}, summary |-> <<>>, review |-> <<>>, warnings |-> {}]
  ELSE [state |-> "ready", buttons |-> Buttons(local, document, manages),
        summary |-> WizardSummary(EnteredLines(local.form.lines)),
        review |-> IF local.step # 3 THEN <<>>
                   ELSE [i \in DOMAIN EnteredLines(local.form.lines) |-> ReviewLine(EnteredLines(local.form.lines)[i])],
        warnings |-> ContainerWarnings(local.form.container, documents, id)]
=============================================================================
