----------------------------- MODULE BillingDesk -----------------------------
(***************************************************************************)
(* The three billing pages over one service: the desk, where a scope is    *)
(* chosen, previewed and billed (BillingPage.tsx), the editor of an invoice *)
(* (BillingInvoiceEditorPage.tsx) and the detail page of a container       *)
(* (BillingContainerDetailPage.tsx).  Only one page is mounted at a time;   *)
(* calls in flight outlive the page that made them.                        *)
(*                                                                         *)
(* Bounds: MaxMoves movements, MaxInvoices invoices, MaxLoads previews in   *)
(* flight, MaxClicks actions of the user, not counting what opens and closes *)
(* dialogs; at most one invoice being created and one call of an editor in *)
(* flight.                                                                 *)
(***************************************************************************)
EXTENDS BillingViews

CONSTANTS Scopes, FirstScope, Filters, DefaultRates, Candidates, FirstMoves, FirstInvoices, Forms, Role,
          MaxMoves, MaxInvoices, MaxLoads, MaxClicks

VARIABLES moves,     \* the yard's history, which the service reads
          invoices,  \* the invoices by id; Nothing once deleted
          page,      \* the page that is mounted
          desk, editor, stay,  \* the state of each page, while it is mounted
          loads,     \* previews asked for and not yet received
          creation,  \* the invoice being created
          request,   \* the call of an editor in flight
          fetches,   \* the invoices the mounted editor has asked for
          context,   \* the desk's scope, in the session's storage
          clicks     \* what the user has done so far (bound)

vars == <<moves, invoices, page, desk, editor, stay, loads, creation, request, fetches, context, clicks>>
server == <<moves, invoices>>

AllCustomers == 0

\* A movement brings pallets of a container in, or takes them out; it has a date.
PalletMoves == [container : Containers, day : Nat \ {NoDate}, delta : Int]

\* A period that ends before it starts is refused (billing_preview_store.go:281).
ASSUME ScopesAssumption ==
  /\ FirstScope \in Scopes
  /\ \A s \in Scopes :
       /\ {"customer", "start", "end", "type", "grace", "rates"} \subseteq DOMAIN s
       /\ s.start \in Nat /\ s.end \in Nat /\ s.start <= s.end
       /\ {s.rates.inbound, s.rates.transfer, s.rates.wrapping, s.rates.outbound} \subseteq Int
       /\ \A c \in Containers : s.rates.daily[TypeOf[c]] \in Int

\* Movements are of the yard's containers, in whole pallets.
ASSUME MovesAssumption ==
  /\ MaxMoves \in Nat /\ Candidates \subseteq PalletMoves
  /\ FirstMoves \in Seq(PalletMoves) /\ Len(FirstMoves) <= MaxMoves

\* The lines of an invoice are told apart by their numbers.
Numbered(invoice) ==
  /\ {"id", "lines"} \subseteq DOMAIN invoice
  /\ invoice.lines \in Seq(ToSet(invoice.lines))
  /\ \A j \in DOMAIN invoice.lines : invoice.lines[j].id \in Nat
  /\ \A j, k \in DOMAIN invoice.lines : invoice.lines[j].id = invoice.lines[k].id => j = k

Compatible(a, b) == All \in {a, b} \/ a = b

\* A line that records the movements of a stay has them from the yard's history, of
\* a container that the invoice is of.
StayRecorded(line, invoice, history) ==
  line.details.summary /\ line.details.moves =>
    /\ line.container \in Containers /\ invoice.customer = CustomerOf[line.container]
    /\ Compatible(invoice.containers, TypeOf[line.container])
    /\ line.details.opening = BalanceAt(history, line.container, invoice.start - 1)
    /\ line.details.closing = BalanceAt(history, line.container, invoice.end)
    /\ line.details.releases = ReleasesIn(history, line.container, invoice.start, invoice.end)

InvoiceRecorded(invoice, history) ==
  /\ {"status", "customer", "start", "end", "containers", "snapshot"} \subseteq DOMAIN invoice
  /\ invoice.start \in Nat /\ invoice.end \in Nat /\ invoice.start <= invoice.end
  /\ invoice.snapshot \in Seq(ToSet(invoice.snapshot))
  /\ invoice.status # "VOID" => \A j \in DOMAIN invoice.lines : StayRecorded(invoice.lines[j], invoice, history)

\* The invoices there are at first have their places for numbers, and record the
\* history there is.
ASSUME InvoicesAssumption ==
  /\ MaxInvoices \in Nat /\ MaxLoads \in Nat \ {0}
  /\ FirstInvoices \in Seq(ToSet(FirstInvoices)) /\ Len(FirstInvoices) <= MaxInvoices
  /\ \A i \in DOMAIN FirstInvoices : Numbered(FirstInvoices[i]) /\ FirstInvoices[i].id = i
  /\ \A i \in DOMAIN FirstInvoices : InvoiceRecorded(FirstInvoices[i], FirstMoves)

-----------------------------------------------------------------------------
(* The service *)

Billed(i) == invoices[i] # Nothing /\ invoices[i].status # "VOID"

\* Slip: a draft does not hold its sources yet.
SourceOpenForDrafts(m) ==
  \A i \in DOMAIN invoices :
    Billed(i) /\ invoices[i].status # "DRAFT" /\ invoices[i].customer = CustomerOf[m.container]
    /\ Compatible(invoices[i].containers, TypeOf[m.container]) => invoices[i].end < m.day

\* What an invoice was computed from is refused.
SourceOpen(m) ==
  \A i \in DOMAIN invoices :
    Billed(i) /\ invoices[i].customer = CustomerOf[m.container]
    /\ Compatible(invoices[i].containers, TypeOf[m.container]) => invoices[i].end < m.day

Move(m) ==
  /\ Len(moves) < MaxMoves /\ SourceOpen(m)
  /\ \A d \in {m.day} \cup {n.day : n \in ToSet(moves)} :
       d >= m.day => BalanceAt(moves, m.container, d) + m.delta >= 0
  /\ moves' = PutAfter(moves, Cardinality({i \in DOMAIN moves : moves[i].day <= m.day}), m)
  /\ UNCHANGED <<invoices, page, desk, editor, stay, loads, creation, request, fetches, context, clicks>>

CustomersOf(scope) == IF scope.customer = AllCustomers THEN Customers ELSE {scope.customer}

\* One preview for each customer, merged when there are several.
PreviewOf(scope) ==
  LET customers == Ascending(Customers)
  IN IF scope.customer # AllCustomers THEN ServicePreview(moves, scope)
     ELSE Merged([i \in DOMAIN customers |->
                   Mapped(ServicePreview(moves, [scope EXCEPT !.customer = customers[i]]))], scope)

Overlaps(scope) ==
  \E i \in DOMAIN invoices :
    /\ Billed(i) /\ invoices[i].customer = scope.customer
    /\ Compatible(invoices[i].containers, scope.type)
    /\ invoices[i].start <= scope.end /\ invoices[i].end >= scope.start

Recalculated(invoice, lines) ==
  LET subtotal == TotalOf(LAMBDA l : l.amount, Only(lines, {l \in ToSet(lines) : l.type # "DISCOUNT"}))
      discount == AmountOf("DISCOUNT", lines)
  IN [invoice EXCEPT !.lines = lines, !.subtotal = subtotal, !.discountTotal = discount,
                     !.grandTotal = subtotal + discount]

NewInvoice(id, scope, settlement, lines) ==
  Recalculated([id |-> id, status |-> "DRAFT", customer |-> scope.customer, start |-> scope.start, end |-> scope.end,
                containers |-> scope.type, settlement |-> settlement, lines |-> lines,
                subtotal |-> 0, discountTotal |-> 0, grandTotal |-> 0, snapshot |-> <<>>], lines)

\* Slip: the preview that was asked for is billed, whatever happened since.
StaleUnchecked(call, preview) == FALSE

Stale(call, preview) == call.preview.fingerprint # preview.fingerprint

\* The outcome of GenerateInvoice: 409, refused, or the lines to bill.
Billing(call, preview, lines) ==
  [lines |-> lines,
   status |-> IF Stale(call, preview) THEN "stale"
              ELSE IF \/ call.settlement /\ call.scope.type = All
                      \/ lines = <<>> \/ Overlaps(call.scope) THEN "refused"
              ELSE "ok"]

BillingOf(call, preview) == Billing(call, preview, InvoiceLines(preview, call.settlement))

GenerateInvoice(call) == BillingOf(call, ServicePreview(moves, call.scope))

\* A line that is typed, or typed over, is a manual line without a record.
Typed(id, form, container, day) ==
  [id |-> id, type |-> form.type, container |-> container, day |-> day, quantity |-> 1,
   amount |-> form.amount, manual |-> TRUE, details |-> NoDetails]

NextLine(invoice) == 1 + Max({0} \cup {l.id : l \in ToSet(invoice.lines)})

\* What a call of the editor makes of the invoice it names, if it may.
Served(call) ==
  LET invoice == invoices[call.id]
      Edit(l) == IF l.id = call.line THEN Typed(l.id, call.form, l.container, l.day) ELSE l
  IN CASE call.kind = "add-line" ->
            Recalculated(invoice, Append(invoice.lines,
              Typed(NextLine(invoice), call.form, call.form.container, NoDate)))
       [] call.kind = "edit-line" ->
            Recalculated(invoice, [i \in DOMAIN invoice.lines |-> Edit(invoice.lines[i])])
       [] call.kind = "delete-line" ->
            Recalculated(invoice, Only(invoice.lines, {l \in ToSet(invoice.lines) : l.id # call.line}))
       [] call.kind = "finalize" ->
            [invoice EXCEPT !.status = "FINALIZED", !.snapshot = LedgerRows(invoice.lines)]
       [] call.kind = "mark-paid" -> [invoice EXCEPT !.status = "PAID"]
       [] call.kind = "void" -> [invoice EXCEPT !.status = "VOID"]
       [] call.kind = "delete" -> Nothing
       [] OTHER -> invoice

Serves(call) ==
  /\ invoices[call.id] # Nothing
  /\ LET invoice == invoices[call.id]
     IN CASE call.kind = "mark-paid" -> invoice.status = "FINALIZED"
          [] call.kind = "void" -> invoice.status # "VOID"
          [] call.kind \in {"edit-line", "delete-line"} ->
               invoice.status = "DRAFT" /\ call.line \in {l.id : l \in ToSet(invoice.lines)}
          [] call.kind = "finalize" -> invoice.status = "DRAFT" /\ MovementReconciles(invoice)
          [] OTHER -> invoice.status = "DRAFT"

-----------------------------------------------------------------------------
(* Pages and calls *)

NoPage == [open |-> FALSE]
NoCall == [kind |-> "none"]

FreshDesk ==
  [open |-> TRUE, scope |-> FirstScope, settlement |-> FALSE, preview |-> Nothing,
   previous |-> Nothing, loading |-> TRUE, keep |-> FALSE, error |-> "",
   filter |-> Containers, history |-> {}, asked |-> TRUE, busy |-> "", creating |-> FALSE]

FreshEditor(id) ==
  [open |-> TRUE, id |-> id, invoice |-> Nothing, loading |-> TRUE, error |-> "", busy |-> "",
   dialog |-> Nothing, confirm |-> "", line |-> 0, header |-> FALSE, notes |-> FALSE]

Pending(owner, scope) ==
  [owner |-> owner, scope |-> scope, active |-> TRUE, answer |-> Nothing]

\* The cleanup of an effect: what it asked for will be ignored.  When MaxLoads
\* are in flight, or no page is mounted that asks for previews, the earlier
\* ones never come back (bound).
Abandoned ==
  IF Cardinality(loads) < MaxLoads THEN {[l EXCEPT !.active = FALSE] : l \in loads} ELSE {}

Orphan(call) == IF call = NoCall THEN call ELSE [call EXCEPT !.live = FALSE]

Click == clicks < MaxClicks /\ clicks' = clicks + 1

\* Leaving a page unmounts it.
Mount(name) ==
  /\ Click
  /\ page' = name
  /\ desk' = IF name = "desk" THEN FreshDesk ELSE NoPage
  /\ creation' = Orphan(creation)
  /\ request' = Orphan(request)

OpenDesk ==
  /\ page # "desk"
  /\ Mount("desk")
  /\ editor' = NoPage /\ stay' = NoPage /\ fetches' = {}
  /\ loads' = Abandoned \cup {Pending("desk", FirstScope)}
  /\ context' = FirstScope
  /\ UNCHANGED server

\* From the history; an invoice may be gone by then.
OpenEditor(id) ==
  /\ page = "desk" /\ id \in {h.id : h \in desk.history}
  /\ Mount("editor")
  /\ editor' = FreshEditor(id) /\ fetches' = {id}
  /\ loads' = {}
  /\ UNCHANGED <<server, stay, context>>

-----------------------------------------------------------------------------
(* The desk *)

\* A new scope, or a reload: what is shown goes, and the earlier load with it.
Reload(d, scope) ==
  /\ desk' = [d EXCEPT !.scope = scope, !.preview = Nothing, !.previous = Nothing, !.loading = TRUE,
                       !.asked = @ \/ scope.customer # d.scope.customer]
  /\ loads' = Abandoned \cup {Pending("desk", scope)}

SelectScope(scope) ==
  /\ Click
  /\ page = "desk" /\ scope # desk.scope
  /\ Reload(desk, scope)
  /\ context' = scope
  /\ UNCHANGED <<server, page, editor, stay, creation, request, fetches>>

\* What is typed into the search field narrows what is shown at once.
TypeFilter(filter) ==
  /\ Click
  /\ page = "desk" /\ filter # desk.filter
  /\ desk' = [desk EXCEPT !.filter = filter]
  /\ UNCHANGED <<server, page, editor, stay, loads, creation, request, fetches, context>>

ChooseMode ==
  /\ Click
  /\ page = "desk"
  /\ desk' = [desk EXCEPT !.settlement = ~@]
  /\ UNCHANGED <<server, page, editor, stay, loads, creation, request, fetches, context>>

\* The service answers; the previous period's answer may fail alone.
Answered(load, previous) ==
  LET days == PreviousPeriod(load.scope.start, load.scope.end)
      earlier == [load.scope EXCEPT !.start = days[1], !.end = days[2]]
  IN [ok |-> TRUE, preview |-> PreviewOf(load.scope),
      previous |-> IF load.owner = "desk" /\ previous THEN PreviewOf(earlier) ELSE Nothing,
      moves |-> IF load.owner = "stay" THEN moves ELSE <<>>]

AnswerLoad(load, answer) ==
  /\ load.answer = Nothing
  /\ loads' = (loads \ {load}) \cup {[load EXCEPT !.answer = answer]}
  /\ UNCHANGED <<server, page, desk, editor, stay, creation, request, fetches, context, clicks>>

Answer(load) ==
  \/ \E previous \in BOOLEAN : AnswerLoad(load, Answered(load, previous))
  \/ AnswerLoad(load, [ok |-> FALSE])

\* Slip: an answer is shown whenever it comes.
ShownWhenever(load) == page = load.owner

Shown(load) == page = load.owner /\ load.active

\* Slip: after a failure the page goes on loading.
DeskAfterSuccess(answer) ==
  IF answer.ok
  THEN [desk EXCEPT !.preview = answer.preview, !.previous = answer.previous, !.loading = FALSE,
                    !.error = IF desk.keep THEN @ ELSE "", !.keep = FALSE]
  ELSE [desk EXCEPT !.error = "failed"]

DeskAfter(answer) ==
  IF answer.ok
  THEN [desk EXCEPT !.preview = answer.preview, !.previous = answer.previous, !.loading = FALSE,
                    !.error = IF desk.keep THEN @ ELSE "", !.keep = FALSE]
  ELSE [desk EXCEPT !.error = "failed", !.loading = FALSE]

StayAfter(answer) ==
  IF answer.ok
  THEN [stay EXCEPT !.preview = answer.preview, !.events = MovesOf(answer.moves, stay.container),
                    !.loading = FALSE]
  ELSE [stay EXCEPT !.error = "failed", !.loading = FALSE]

Receive(load) ==
  /\ load.answer # Nothing
  /\ loads' = loads \ {load}
  /\ desk' = IF Shown(load) /\ page = "desk" THEN DeskAfter(load.answer) ELSE desk
  /\ stay' = IF Shown(load) /\ page = "stay" THEN StayAfter(load.answer) ELSE stay
  /\ UNCHANGED <<server, page, editor, creation, request, fetches, context, clicks>>

\* The headings of the invoices of the scope's customer; a failure is silent.
Heading(i) ==
  [id |-> i, customer |-> invoices[i].customer, start |-> invoices[i].start, end |-> invoices[i].end,
   containers |-> invoices[i].containers, settlement |-> invoices[i].settlement,
   status |-> invoices[i].status]

ReceiveHistory(ok) ==
  /\ page = "desk" /\ desk.asked
  /\ desk' = [desk EXCEPT !.asked = FALSE, !.history =
       IF ok THEN {Heading(i) : i \in {x \in DOMAIN invoices :
                     invoices[x] # Nothing /\ invoices[x].customer \in CustomersOf(desk.scope)}}
       ELSE @]
  /\ UNCHANGED <<server, page, editor, stay, loads, creation, request, fetches, context, clicks>>

DeskIdle == page = "desk" /\ desk.busy = "" /\ ~desk.creating

Billable ==
  IF desk.settlement THEN StorageShown(desk.preview, desk.filter) # <<>>
  ELSE LinesShown(desk.preview, desk.filter) # <<>>

StartBusy(action) ==
  /\ Click
  /\ DeskIdle
  /\ action = "preview-pdf" => desk.preview # Nothing /\ Billable
  /\ desk' = [desk EXCEPT !.busy = action, !.error = IF action = "preview-pdf" THEN "" ELSE @]
  /\ UNCHANGED <<server, page, editor, stay, loads, creation, request, fetches, context>>

\* Slip: the button stays disabled.
EndRefreshBusy ==
  /\ page = "desk" /\ desk.busy = "refresh"
  /\ Reload([desk EXCEPT !.error = ""], desk.scope)
  /\ UNCHANGED <<server, page, editor, stay, creation, request, fetches, context, clicks>>

EndRefresh ==
  /\ page = "desk" /\ desk.busy = "refresh"
  /\ Reload([desk EXCEPT !.busy = "", !.error = ""], desk.scope)
  /\ UNCHANGED <<server, page, editor, stay, creation, request, fetches, context, clicks>>

EndPreviewPdf(ok) ==
  /\ page = "desk" /\ desk.busy = "preview-pdf"
  /\ desk' = [desk EXCEPT !.busy = "", !.error = IF ok THEN @ ELSE "failed"]
  /\ UNCHANGED <<server, page, editor, stay, loads, creation, request, fetches, context, clicks>>

ExistingSettlement ==
  \E h \in desk.history :
    /\ h.settlement /\ h.status # "VOID" /\ h.customer = desk.scope.customer
    /\ h.containers = desk.scope.type /\ h.start = desk.scope.start /\ h.end = desk.scope.end

CanCreate ==
  /\ Role \in {"admin", "operator"} /\ desk.scope.customer # AllCustomers /\ desk.preview # Nothing
  /\ IF desk.settlement
     THEN desk.scope.type # All /\ desk.preview.storage # <<>> /\ ~ExistingSettlement
     ELSE desk.preview.lines # <<>>

CreateInvoice ==
  /\ Click
  /\ DeskIdle /\ CanCreate /\ creation = NoCall
  /\ desk' = [desk EXCEPT !.creating = TRUE, !.error = ""]
  /\ creation' = [kind |-> "create", scope |-> desk.scope, settlement |-> desk.settlement,
                  preview |-> desk.preview, live |-> TRUE]
  /\ UNCHANGED <<server, page, editor, stay, loads, request, fetches, context>>

\* The page follows the new invoice, wherever the user has gone meanwhile.
Created ==
  LET outcome == GenerateInvoice(creation)
      id == Len(invoices) + 1
  IN /\ creation # NoCall /\ outcome.status = "ok" /\ id <= MaxInvoices
     /\ invoices' = Append(invoices, NewInvoice(id, creation.scope, creation.settlement, outcome.lines))
     /\ page' = "editor" /\ desk' = NoPage /\ stay' = NoPage /\ creation' = NoCall
     /\ loads' = {}
     /\ editor' = IF page = "editor" THEN [editor EXCEPT !.id = id, !.loading = TRUE, !.error = ""]
                  ELSE FreshEditor(id)
     /\ fetches' = fetches \cup {id}
     /\ UNCHANGED <<moves, request, context, clicks>>

\* The sources have changed: say so, and load the preview again.
CreationStale ==
  /\ creation # NoCall /\ GenerateInvoice(creation).status = "stale"
  /\ creation' = NoCall
  /\ IF creation.live
     THEN Reload([desk EXCEPT !.creating = FALSE, !.error = "stale", !.keep = TRUE], desk.scope)
     ELSE UNCHANGED <<desk, loads>>
  /\ UNCHANGED <<server, page, editor, stay, request, fetches, context, clicks>>

\* The service refuses, or cannot be reached.
CreationRefused ==
  /\ creation # NoCall /\ GenerateInvoice(creation).status # "stale"
  /\ creation' = NoCall
  /\ desk' = IF creation.live THEN [desk EXCEPT !.creating = FALSE, !.error = "failed"] ELSE desk
  /\ UNCHANGED <<server, page, editor, stay, loads, request, fetches, context, clicks>>

-----------------------------------------------------------------------------
(* The editor *)

\* An answer sets the invoice that is shown, whichever is asked for by now.
Fetch(id, ok) ==
  /\ id \in fetches
  /\ fetches' = fetches \ {id}
  /\ editor' = IF ok /\ invoices[id] # Nothing
               THEN [editor EXCEPT !.invoice = invoices[id], !.loading = FALSE]
               ELSE [editor EXCEPT !.error = "failed", !.loading = FALSE]
  /\ UNCHANGED <<server, page, desk, stay, loads, creation, request, context, clicks>>

Editing == page = "editor" /\ ~editor.loading /\ editor.invoice # Nothing
EditorIdle == Editing /\ editor.busy = ""
Chosen == EditorIdle /\ Click
Toggled == EditorIdle /\ UNCHANGED clicks
Draft == editor.invoice.status = "DRAFT"
Modal == editor.dialog # Nothing \/ editor.confirm # ""

Set(e) ==
  /\ editor' = e
  /\ UNCHANGED <<server, page, desk, stay, loads, creation, request, fetches, context>>

OpenLine(mode, line) ==
  /\ Toggled /\ Draft /\ ~Modal
  /\ mode = "add-line" => line = 0
  /\ mode = "edit-line" => line \in {l.id : l \in ToSet(VisibleLines(editor.invoice.lines))}
  /\ Set([editor EXCEPT !.dialog = [mode |-> mode, line |-> line]])

CloseLine == Toggled /\ editor.dialog # Nothing /\ Set([editor EXCEPT !.dialog = Nothing])

Allowed(action) ==
  CASE action = "finalize" -> Draft /\ Role = "admin" /\ MovementReconciles(editor.invoice)
    [] action = "mark-paid" -> editor.invoice.status = "FINALIZED" /\ Role = "admin"
    [] action = "void" -> editor.invoice.status # "VOID" /\ Role = "admin"
    [] action = "delete" -> Draft /\ Role = "admin"

Ask(action) ==
  /\ Toggled /\ ~Modal /\ Allowed(action)
  /\ Set([editor EXCEPT !.confirm = action])

AskDeleteLine(line) ==
  /\ Toggled /\ ~Modal /\ Draft /\ line \in {l.id : l \in ToSet(VisibleLines(editor.invoice.lines))}
  /\ Set([editor EXCEPT !.confirm = "delete-line", !.line = line])

CancelConfirm ==
  Toggled /\ editor.confirm # "" /\ Set([editor EXCEPT !.confirm = "", !.line = 0])

EditSection(section) ==
  /\ Toggled /\ ~Modal
  /\ CASE section = "header" ->
            (Draft \/ editor.header) /\ Set([editor EXCEPT !.header = ~@])
       [] section = "notes" ->
            (Draft \/ editor.notes) /\ Set([editor EXCEPT !.notes = ~@])

\* One call at a time: every button is disabled while one is in flight.
Send(kind, line, form) ==
  /\ request = NoCall
  /\ editor' = [editor EXCEPT !.busy = kind]
  /\ request' = [kind |-> kind, id |-> editor.invoice.id, line |-> line, form |-> form, live |-> TRUE]
  /\ UNCHANGED <<server, page, desk, stay, loads, creation, fetches, context>>

\* A discount of nothing is no line.
SaveLine(form) ==
  /\ Chosen /\ editor.dialog # Nothing
  /\ IF form.type = "DISCOUNT" /\ form.amount = 0
     THEN IF editor.dialog.mode = "edit-line" THEN Send("delete-line", editor.dialog.line, form)
          ELSE Set([editor EXCEPT !.dialog = Nothing])
     ELSE Send(editor.dialog.mode, editor.dialog.line, form)

NoForm == [type |-> "MANUAL", amount |-> 0, container |-> InvoiceLevel]

Confirm == Chosen /\ editor.confirm # "" /\ Send(editor.confirm, editor.line, NoForm)

SaveSection(section) ==
  /\ Chosen /\ ~Modal
  /\ \/ section = "save-header" /\ editor.header
     \/ section = "save-notes" /\ editor.notes
  /\ Send(section, 0, NoForm)

\* What a finished call closes, however it ended; and if it was carried out.
ClosedBy(call) == [editor EXCEPT !.busy = "", !.confirm = "", !.line = 0]

Succeeded(call, invoice) ==
  LET e == [ClosedBy(call) EXCEPT !.invoice = invoice]
  IN CASE call.kind \in {"add-line", "edit-line", "delete-line"} -> [e EXCEPT !.dialog = Nothing]
       [] call.kind = "finalize" -> [e EXCEPT !.header = FALSE, !.notes = FALSE]
       [] call.kind = "save-header" -> [e EXCEPT !.header = FALSE]
       [] call.kind = "save-notes" -> [e EXCEPT !.notes = FALSE]
       [] OTHER -> e

Respond ==
  /\ request # NoCall /\ request.kind # "delete" /\ Serves(request)
  /\ invoices' = [invoices EXCEPT ![request.id] = Served(request)]
  /\ request' = NoCall
  /\ editor' = IF request.live THEN Succeeded(request, Served(request)) ELSE editor
  /\ UNCHANGED <<moves, page, desk, stay, loads, creation, fetches, context, clicks>>

\* Refused, or the answer is lost: then the service may have done it.
RespondError(done) ==
  /\ request # NoCall
  /\ done => Serves(request)
  /\ invoices' = IF done THEN [invoices EXCEPT ![request.id] = Served(request)] ELSE invoices
  /\ request' = NoCall
  /\ editor' = IF request.live THEN [ClosedBy(request) EXCEPT !.error = "failed"] ELSE editor
  /\ UNCHANGED <<moves, page, desk, stay, loads, creation, fetches, context, clicks>>

\* Deleting a draft leads back to the desk, wherever the user is by then.
Deleted ==
  /\ request # NoCall /\ request.kind = "delete" /\ Serves(request)
  /\ invoices' = [invoices EXCEPT ![request.id] = Nothing]
  /\ request' = NoCall
  /\ IF page = "desk" THEN UNCHANGED <<page, desk, editor, stay, loads, creation, fetches, context>>
     ELSE
          /\ page' = "desk" /\ desk' = FreshDesk /\ editor' = NoPage /\ stay' = NoPage
          /\ fetches' = {} /\ loads' = Abandoned \cup {Pending("desk", FirstScope)}
          /\ creation' = Orphan(creation) /\ context' = FirstScope
  /\ UNCHANGED <<moves, clicks>>

ExportDocument(kind) ==
  /\ Chosen /\ ~Modal /\ VisibleLines(editor.invoice.lines) # <<>>
  /\ MovementReconciles(editor.invoice)
  /\ kind = "export-container-zip" => Statements(editor.invoice) # <<>>
  /\ Set([editor EXCEPT !.busy = kind, !.error = IF kind = "export-pdf" THEN "" ELSE @])

EndExport(ok) ==
  /\ page = "editor" /\ editor.busy \in {"export-pdf", "export-container-zip"}
  /\ Set([editor EXCEPT !.busy = "", !.error = IF ok THEN @ ELSE "failed"])
  /\ UNCHANGED clicks

-----------------------------------------------------------------------------
(* The detail page of a container *)

\* Slip: the rates are always the default ones.
StayScopeDefault(scope) == [scope EXCEPT !.type = All, !.grace = TRUE, !.rates = DefaultRates]

\* The desk's scope if the address names the same period and customer; else
\* the default rates, all containers and the grace period.
StayScope(scope) ==
  IF <<context.start, context.end, context.customer>> = <<scope.start, scope.end, scope.customer>>
  THEN context
  ELSE [scope EXCEPT !.type = All, !.grace = TRUE, !.rates = DefaultRates]

\* seen is what the desk showed of the container.
FreshStay(container, scope, seen) ==
  [open |-> TRUE, container |-> container, scope |-> scope, preview |-> Nothing,
   events |-> <<>>, loading |-> TRUE, error |-> "", seen |-> seen]

OpenStay(container, scope, seen) ==
  /\ Mount("stay")
  /\ editor' = NoPage /\ fetches' = {}
  /\ stay' = FreshStay(container, StayScope(scope), seen)
  /\ loads' = Abandoned \cup {Pending("stay", StayScope(scope))}
  /\ UNCHANGED <<server, context>>

\* A row of the desk leads to the stay of its container, with its customer.
ViewContainer(row) ==
  /\ page = "desk" /\ desk.preview # Nothing
  /\ OpenStay(row.container, [desk.scope EXCEPT !.customer = CustomerOf[row.container]],
       IF desk.settlement \/ desk.scope.customer = AllCustomers THEN Nothing
       ELSE [sources |-> desk.preview.fingerprint[2], amount |-> row.amount])

\* An address typed, or the browser's history.
VisitStay(container, scope) ==
  /\ page = "stay" /\ <<container, scope>> # <<stay.container, stay.scope>>
  /\ OpenStay(container, scope, Nothing)

-----------------------------------------------------------------------------
Init ==
  /\ moves = FirstMoves /\ invoices = FirstInvoices
  /\ page = "desk" /\ desk = FreshDesk /\ editor = NoPage /\ stay = NoPage
  /\ loads = {Pending("desk", FirstScope)}
  /\ creation = NoCall /\ request = NoCall /\ fetches = {} /\ context = FirstScope /\ clicks = 0

TableShown == ContainerTable(desk.preview, desk.settlement, desk.filter)

Viewed(i) == page = "desk" /\ desk.preview # Nothing /\ i <= Len(TableShown) /\ ViewContainer(TableShown[i])

DeskSteps ==
  \/ \E scope \in Scopes : SelectScope(scope)
  \/ ChooseMode
  \/ \E filter \in Filters : TypeFilter(filter)
  \/ \E action \in {"refresh", "preview-pdf"} : StartBusy(action)
  \/ CreateInvoice

EditorSteps ==
  \/ \E id \in 1..MaxInvoices : OpenEditor(id)
  \/ \E mode \in {"add-line", "edit-line"}, line \in 0..9 : OpenLine(mode, line)
  \/ CloseLine
  \/ \E action \in {"finalize", "mark-paid", "void", "delete"} : Ask(action)
  \/ \E line \in 1..9 : AskDeleteLine(line)
  \/ CancelConfirm
  \/ \E section \in {"header", "notes"} : EditSection(section)
  \/ \E form \in Forms : SaveLine(form)
  \/ Confirm
  \/ \E section \in {"save-header", "save-notes"} : SaveSection(section)
  \/ \E kind \in {"export-pdf", "export-container-zip"} : ExportDocument(kind)

\* What is in flight comes back, one way or another.
Arrivals ==
  \/ \E load \in loads : Answer(load) \/ Receive(load)
  \/ \E ok \in BOOLEAN : ReceiveHistory(ok) \/ EndPreviewPdf(ok) \/ EndExport(ok)
  \/ EndRefresh
  \/ Created \/ CreationStale \/ CreationRefused
  \/ \E id \in fetches, ok \in BOOLEAN : Fetch(id, ok)
  \/ Respond \/ Deleted
  \/ \E done \in BOOLEAN : RespondError(done)

Next ==
  \/ \E m \in Candidates : Move(m)
  \/ OpenDesk
  \/ \E i \in 1..Cardinality(Containers) : Viewed(i)
  \/ \E container \in Containers, scope \in Scopes : VisitStay(container, scope)
  \/ DeskSteps
  \/ EditorSteps
  \/ Arrivals

\* What is in flight comes back: the service answers or the connection fails,
\* and a document is made or not.
Fetched == \E id \in fetches, ok \in BOOLEAN : Fetch(id, ok)
DocumentMade == \E ok \in BOOLEAN : EndPreviewPdf(ok) \/ EndExport(ok)

Fairness ==
  /\ WF_creation(creation' = NoCall) /\ WF_request(request' = NoCall)
  /\ WF_vars(Fetched) /\ WF_vars(DocumentMade) /\ WF_vars(EndRefresh)

Spec == Init /\ [][Next]_vars /\ Fairness

-----------------------------------------------------------------------------
(* Properties *)

LineIds(lines) == {lines[i].id : i \in DOMAIN lines}

\* The flags of the pages fit together: a desk that creates has a creation in
\* flight, a busy editor a call or a document, a loading page something to wait for.
TypeOK ==
  /\ page \in {"desk", "editor", "stay"}
  /\ (page = "desk") = desk.open /\ (page = "editor") = editor.open /\ (page = "stay") = stay.open
  /\ page = "desk" =>
       /\ desk.scope \in Scopes /\ context = desk.scope
       /\ desk.creating = (creation # NoCall /\ creation.live)
       /\ desk.loading => \E l \in loads : l.active /\ l.owner = "desk"
       /\ desk.loading => desk.preview = Nothing
  /\ page = "editor" =>
       /\ editor.busy # "" => (editor.busy \in {"export-pdf", "export-container-zip"}) # (request # NoCall /\ request.live)
       /\ editor.loading => fetches # {}
       /\ editor.invoice # Nothing => Cardinality(LineIds(editor.invoice.lines)) = Len(editor.invoice.lines)
  /\ page = "stay" /\ stay.loading => \E l \in loads : l.active /\ l.owner = "stay"
  /\ Cardinality(loads) <= MaxLoads /\ Len(moves) <= MaxMoves /\ Len(invoices) <= MaxInvoices

\* What a page shows is the preview of what its filters say, however late and
\* in whatever order the answers come (the active guards of the effects).
PreviewMatchesScope ==
  /\ page = "desk" /\ desk.preview # Nothing => desk.preview.scope = desk.scope
  /\ page = "stay" /\ stay.preview # Nothing => stay.preview.scope = stay.scope

\* An invoice has the lines of the preview that was on the screen when the
\* button was pressed, or is not made: handleCreateInvoice sends the preview's
\* fingerprint, and GenerateInvoice answers 409 to another.
BillsPreview ==
  Len(invoices') > Len(invoices) =>
    LET new == invoices'[Len(invoices')]
    IN /\ new.lines = InvoiceLines(creation.preview, creation.settlement)
       /\ ~creation.settlement => new.grandTotal = creation.preview.summary.grandTotal

\* Every step that adds an invoice bills the preview that was on the screen.
InvoiceBillsPreview == [][BillsPreview]_vars

MovesBetween(history, c, lo, hi) == Only(MovesOf(history, c), {m \in ToSet(history) : m.day \in lo..hi})
Gained(seq) == TotalOf(LAMBDA m : Larger(m.delta, 0), seq)
Lost(seq) == TotalOf(LAMBDA m : Larger(-m.delta, 0), seq)

\* The movements that a statement prints are those of the yard, for as long as
\* the invoice stands: balances on its first and last day, pallets received
\* and pallets released, whatever happens to its lines and in the yard.
StatementsMatchYard ==
  \A i \in DOMAIN invoices : Billed(i) =>
    \A s \in ToSet(Statements(invoices[i])) :
      LET sources == StorageSources(invoices[i], s.container)
          before == MovesBetween(moves, s.container, 1, invoices[i].start - 1)
          during == MovesBetween(moves, s.container, invoices[i].start, invoices[i].end)
      IN s.container # InvoiceLevel /\ sources # <<>> /\ Last(sources).details.moves =>
           /\ s.opening = Gained(before) - Lost(before)
           /\ s.received = Gained(during) /\ s.released = Lost(during)
           /\ s.closing = s.opening + s.received - s.released

\* The two tables of the editor: the ledger and the lines.
LedgerAgrees(ledger, table) ==
  /\ TotalOf(LAMBDA r : r.total, ledger.rows) = ledger.foot
  /\ TotalOf(LAMBDA r : r.amount, table.rows) = ledger.foot /\ Last(table.foot) = ledger.foot

PdfAgrees(pdf) ==
  ~pdf.refused =>
    /\ TotalOf(LAMBDA r : r.amount, pdf.lines) = pdf.totals.grandTotal
    /\ TotalOf(LAMBDA n : n, pdf.discounts) = pdf.totals.discountTotal
    /\ TotalOf(LAMBDA r : r[1], pdf.summary.rows) = pdf.totals.subtotal
    /\ pdf.containers.total \in {Blank, pdf.totals.grandTotal}

BookAgrees(book, facts, due) ==
  /\ book.ledgerTotal = due /\ book.chargeTotal = due
  /\ TotalOf(LAMBDA c : c.amount, book.charges) = due
  /\ facts.storage = book.storageTotal /\ facts.storage + facts.other = due
  /\ facts.billable = TotalOf(LAMBDA r : r.billable, book.ledger)
  /\ TotalOf(LAMBDA r : r.fee, book.storage) = book.storageTotal

\* The total of the ledger, the editor's amount due and the PDF's are one
\* number, and each sheet of the workbook adds up to it, in drafts edited line
\* by line and in the snapshot of a finalized invoice (discounts are typed as
\* negative amounts here).
AmountDueAgrees ==
  Editing =>
    /\ LedgerReconciles(editor.invoice)
    /\ LedgerAgrees(EditorLedger(editor.invoice, Statements(editor.invoice)),
                    EditorLineTable(VisibleLines(editor.invoice.lines), EditorTotals(editor.invoice)))
    /\ DisplayTotals(editor.invoice).grandTotal = EditorTotals(editor.invoice).grandTotal
    /\ EditorTotals(editor.invoice).subtotal + EditorTotals(editor.invoice).discountTotal
         = editor.invoice.grandTotal
    /\ PdfAgrees(InvoicePdf(editor.invoice))
    /\ BookAgrees(Workbook(editor.invoice, Statements(editor.invoice)),
                  InvoiceFacts(Statements(editor.invoice)), editor.invoice.grandTotal)

FilesAddUp(archive) ==
  ~archive.refused =>
    /\ TotalOf(LAMBDA p : p.fees.total, archive.pdfs) = archive.invoice.totals.grandTotal
    /\ TotalOf(LAMBDA w : w.amountDue, archive.workbooks) = archive.invoice.containers.total
    /\ TotalOf(LAMBDA r : r.fees[4], archive.manifest)
         = TotalOf(LAMBDA r : r.amount["STORAGE"], ContainerDetails(editor.invoice))
    /\ TotalOf(LAMBDA r : r.released, archive.invoice.storage)
         = TotalOf(LAMBDA r : r.released, SelectSeq(archive.manifest, LAMBDA r : r.released # Blank))

\* The archive bills each container once: its files add up to the invoice, and
\* the releases dated in the storage sheet to those of the statements.
ArchiveAddsUp == Editing => FilesAddUp(ContainerArchive(editor.invoice))

RunsOf(runs, preview, chart) ==
  /\ TotalOf(LAMBDA r : r.palletDays, runs) = TotalOf(LAMBDA r : r.palletDays, preview.storage)
  /\ TotalOf(LAMBDA r : r.free, runs) = TotalOf(LAMBDA r : r.free, preview.storage)
  /\ TotalOf(LAMBDA r : r.amount, runs) = TotalOf(LAMBDA r : r.amount, preview.storage)
  /\ \A i \in DOMAIN runs : \A d \in runs[i].start..runs[i].end : chart[d] = runs[i].pallets

\* The preview's PDF cuts the storage of all containers into common runs of
\* days; no pallet-day and no fee is lost or billed twice by it.
RunsKeepTheStorage ==
  page = "desk" /\ desk.preview # Nothing =>
    RunsOf(AggregatedSegments(desk.preview.storage), desk.preview, BalanceChart(desk.preview))

RunningTotal(rows) == TotalOf(LAMBDA r : r.amount, rows)

DocumentsAgree(settlement, due, metrics, table, detail, pdf, sheet) ==
  /\ metrics.total.value = due /\ RunningTotal(table) = due /\ RunningTotal(detail) = due
  /\ pdf.totals.grandTotal = due /\ pdf.totals.subtotal + pdf.totals.discountTotal = due
  /\ TotalOf(LAMBDA n : n, pdf.lines) = due
  /\ TotalOf(LAMBDA r : r.gross, pdf.summary.rows) = pdf.summary.subtotal
  /\ TotalOf(LAMBDA r : r.discount, pdf.summary.rows) = -pdf.summary.discountTotal
  /\ TotalOf(LAMBDA n : n, pdf.summary.sources) = pdf.summary.discountTotal
  /\ Last(sheet.summary) = due
  /\ RunningTotal(SelectSeq(sheet.rows, LAMBDA r : r.kind = IF settlement THEN "summary" ELSE "line")) = due
  /\ settlement => TotalOf(LAMBDA r : r.segment, sheet.rows) = due

DeskAgrees(preview, previous, settlement, filter) ==
  DocumentsAgree(settlement,
    IF settlement THEN TotalOf(LAMBDA r : r.amount, StorageShown(preview, filter)) ELSE preview.summary.grandTotal,
    Metrics(preview, previous, settlement, StorageShown(preview, filter)),
    ContainerTable(preview, settlement, filter),
    IF settlement THEN SegmentTable(StorageShown(preview, filter)) ELSE LineTable(preview),
    DeskPdf(preview, settlement, filter),
    DeskSheet(preview, settlement, filter))

\* The card, the table of containers, the PDF (totals, lines and the amounts by
\* service or segment) and the spreadsheet of the desk show one total, for one
\* customer or all of them merged; of a settlement, narrowed to some containers
\* too.  And nothing is lost: unnarrowed, it is what the banner offers to bill,
\* which of a settlement is the total of its storage lines, not of its stays.
PreviewAddsUp ==
  page = "desk" /\ desk.preview # Nothing =>
    /\ DeskAgrees(desk.preview, desk.previous, desk.settlement, IF desk.settlement THEN desk.filter ELSE Containers)
    /\ CreateBanner(desk.preview, desk.settlement).amount
         = RunningTotal(ContainerTable(desk.preview, desk.settlement, Containers))

ChargesOf(preview, container) == ContainerSummary(LinesOfContainer(preview, container)).total

SameMovements(preview, seen) == seen # Nothing /\ preview.fingerprint[2] = seen.sources

\* The detail page charges a container what the desk showed when its row was
\* opened, from the same movements: the desk's rates, grace period and period
\* reach the page through the session's storage.  Its timeline ends at the
\* balance of the last day.
StayMatchesDesk ==
  page = "stay" /\ stay.preview # Nothing =>
    /\ SameMovements(stay.preview, stay.seen) => ChargesOf(stay.preview, stay.container) = stay.seen.amount
    /\ TimelineSummary(Timeline(stay.events, stay.container, stay.scope.start, stay.scope.end)).net
         = BalanceAt(stay.events, stay.container, stay.scope.end)
           - BalanceAt(stay.events, stay.container, stay.scope.start - 1)

\* Buttons do not stay disabled: a creation, a call, a document and a load of
\* the editor end, in success or with a message.
BusyEnds ==
  /\ (page = "desk" /\ desk.creating) ~> ~(page = "desk" /\ desk.creating)
  /\ (page = "desk" /\ desk.busy # "") ~> ~(page = "desk" /\ desk.busy # "")
  /\ (page = "editor" /\ editor.busy # "") ~> ~(page = "editor" /\ editor.busy # "")
  /\ (page = "editor" /\ editor.loading) ~> ~(page = "editor" /\ editor.loading)
=============================================================================
