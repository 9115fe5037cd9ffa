------------------------------- MODULE Workspace -------------------------------
(***************************************************************************)
(* The browser's workspace as a whole: a user signs in, goes from page to  *)
(* page, asks the server for changes and sees what the workspace loads     *)
(* again, while others change the yard.                                    *)
(***************************************************************************)
EXTENDS WorkspaceMasters

Init ==
  /\ log = <<FirstYard>> /\ data = NoData /\ local = NoState
  /\ loads = <<>> /\ call = None /\ view = NoState
  /\ mine = [version |-> 0, overtaken |-> FALSE]
  /\ \E s \in Starts :
       /\ session = [at |-> "checking", role |-> s.role, signed |-> s.signed]
       /\ path = s.path /\ contexts = s.contexts
       /\ budget = [clicks |-> s.clicks, faults |-> s.faults, others |-> s.others, menu |-> s.menu]

Sessions == SessionFound \/ SessionMissing \/ Login \/ Logout \/ OpenPortal \/ ExitPortal

Clicks ==
  /\ SignedIn /\ budget.clicks > 0 /\ ~Away
  /\ \/ \E lead \in Leads(path, local, G, log, view, Role, budget.menu) : Navigate(lead)
     \/ DocumentClicks \/ StockClicks \/ ContainerClicks
     \/ RecordClicks \/ WarehouseClicks \/ ReportClicks

(* Whatever happens, the page is drawn from what there is then. *)
Render ==
  view' = IF session'.at = "in" THEN Screen(path', local', Given(log', data', session'.role), log') ELSE NoState

Next ==
  /\ Sessions \/ Clicks \/ Fetch \/ Answer \/ OthersWork \/ FinishLoad
  /\ Render

(* Calls and loads come back, one way or the other, and what a page asks   *)
(* for on its own is answered.                                             *)
Fairness ==
  /\ WF_call(call' = None)
  /\ WF_loads(\E i \in DOMAIN loads : loads' = RemoveAt(loads, i))
  /\ WF_core(Fetch)

Spec == Init /\ [][Next]_vars /\ Fairness

-----------------------------------------------------------------------------
(* Types and permissions *)

(* The variables have their types, and nobody is on a page that is not      *)
(* shown to them (App.tsx, the redirect of the routes).                    *)
TypeOK ==
  /\ session.at \in {"checking", "loading", "in", "out", "portal"} /\ session.role = Role
  /\ \A p \in Parts : data[p] \in 0..Newest
  /\ data.loading \in BOOLEAN /\ data.failed \in BOOLEAN
  /\ \A i \in DOMAIN loads : loads[i].from \in 1..Newest
  /\ Len(loads) <= MaxLoads + 1 /\ mine.version \in 0..Newest
  /\ budget.clicks >= 0 /\ budget.faults >= 0
  /\ SignedIn => Shows(Page, Role)

(* No page asks for what the server refuses to the role of its user,        *)
(* whatever was opened on it, left for it or loaded meanwhile (`canManage`  *)
(* of the pages against the groups of the routes).  The exception is the    *)
(* page of a container's life, which is drawn alike for all.               *)
AsksWhatIsServed ==
  call # None => MayAsk(Role, call.request) \/ call.page = "container-lifecycle"

-----------------------------------------------------------------------------
(* What the server keeps *)

\* What the documents say of their lines, as the server reads and writes them.
IsReceipt(d) ==
  \A j \in DOMAIN d.lines :
    /\ d.lines[j].received \in Int
    /\ d.lines[j].received > 0 => BucketsOf(d.container, d.location, d.lines[j].sku) # {}
IsShipment(d) ==
  /\ IsDraft(d) => d.tracking \notin {"SHIPPED", "BO_RECEIVED"}
  /\ \A j \in DOMAIN d.lines :
       /\ "allocations" \in DOMAIN d.lines[j] /\ Decoded(d.lines[j].allocations)
       /\ \A k \in DOMAIN d.lines[j].allocations :
            /\ d.lines[j].allocations[k].allocated \in Nat
            /\ d.lines[j].allocations[k].bucket \in DOMAIN Buckets
IsPosting(d) ==
  /\ d.kind = "POST" /\ d.status = "CONFIRMED"
  /\ \A j \in DOMAIN d.lines : d.lines[j].change \in Int /\ d.lines[j].bucket \in DOMAIN Buckets
IsDocument(d) ==
  /\ Decoded(d.lines) /\ d.status \in {"DRAFT", "CONFIRMED"}
  /\ CASE d.kind = "IN" -> IsReceipt(d)
       [] d.kind = "OUT" -> IsShipment(d)
       [] OTHER -> IsPosting(d)

(* What is left of a bucket when what is held has left too, and what was    *)
(* moved to a container's SKU less what was moved from it.                 *)
Unpromised(documents, b) == Total(LAMBDA m : m.change, At(b, Movements(documents) \cup Reserved(documents)))
Pieces(b) == <<Buckets[b].container, Buckets[b].sku>>
Shifted(movements, piece) ==
  Total(LAMBDA m : m.change, {m \in movements : Pieces(m.bucket) = piece /\ IsTransfer(m)})

(* A yard as the server keeps it: the items and the ledger follow from the  *)
(* documents, what is damaged or held stands there, and whatever was moved *)
(* has arrived.                                                            *)
IsKept(yard) ==
  /\ {"documents", "items", "movements"} \subseteq DOMAIN yard
  /\ \A i \in Ids(yard.documents) : yard.documents[i].id = i /\ IsDocument(yard.documents[i])
  /\ yard.movements = Movements(yard.documents) /\ yard.items = Items(yard.documents)
  /\ \A b \in DOMAIN Buckets : Unpromised(yard.documents, b) >= Unfit[b].damaged + Unfit[b].hold
  /\ \A b \in DOMAIN Buckets : Shifted(yard.movements, Pieces(b)) = 0

ASSUME UnfitAssumption == \A b \in DOMAIN Buckets : Unfit[b].damaged \in Nat /\ Unfit[b].hold \in Nat
ASSUME FirstYardAssumption == IsKept(FirstYard)

Documented(yard, piece) ==
  Total(LAMBDA m : m.change, {m \in yard.movements : Pieces(m.bucket) = piece /\ ~IsTransfer(m)})

(* Whatever the pages ask for, and whatever others did since those were     *)
(* drawn: no item holds fewer cartons than are held back or promised of it, *)
(* and what stands of a container's SKU, wherever that is, is what          *)
(* receipts, shipments and corrections made of it: moving changes nothing. *)
StockAddsUp ==
  \E yard \in {log[Newest]} :
    /\ \A b \in DOMAIN yard.items :
         /\ yard.items[b].allocated >= 0
         /\ yard.items[b].quantity >= yard.items[b].allocated + yard.items[b].damaged + yard.items[b].hold
    /\ \A piece \in {Pieces(b) : b \in DOMAIN yard.items} :
         OnHand(yard.items, {b \in DOMAIN yard.items : Pieces(b) = piece}) = Documented(yard, piece)

(* A sealed container is never counted into stock, though it was sealed     *)
(* after the page that confirms it was drawn (confirmInboundDocumentTx).   *)
SealedStaysDraft == SealedAreDrafts(log[Newest])

(* An adjustment to a final balance leaves that balance, whatever the stock *)
(* was when the dialog was filled in (applyInventoryAdjustment).           *)
FinalBalancesHold ==
  [][(call # None /\ call' = None /\ call.request.op = "adjust" /\ Len(log') > Len(log))
       => LET lines == call.request.payload
          IN \A b \in DOMAIN lines : lines[b].final => log'[Len(log')].items[b].quantity = lines[b].quantity]_vars

-----------------------------------------------------------------------------
(* What the user sees *)

Quiet == SignedIn /\ call = None /\ loads = <<>>

(* When everything has come back the workspace shows at least what the user *)
(* made of it, unless a part of a load failed, which the page says, or an   *)
(* earlier load came back last.                                            *)
OwnWorkIsShown ==
  Quiet /\ ~data.failed /\ ~mine.overtaken => \A p \in Parts : data[p] >= mine.version

(* What a page got for a question is shown for that question only, once it  *)
(* has stopped waiting.                                                    *)
AnswersMatchQuestions ==
  SignedIn =>
    CASE Page \in ListPageKeys -> local.asked \/ Ids(local.found) \subseteq RowsIn(local, local.found)
      [] Page \in {"all-activity", "container-contents"} ->
           local.asked \/ local.failed \/ local.rows.query = local.query
      [] Page = "reports" ->
           \/ Shown(local).asked \/ Shown(local).answer = NoAnswer
           \/ Shown(local).answer.scope = ScopeOf(Shown(local).form, Today)
      [] Page = "container-lifecycle" ->
           Scope = None \/ local.asked \/ local.failed \/ local.answer.container = Scope[2]
      [] OTHER -> TRUE

(* The list that a card opens, once the server has answered its filter, from *)
(* the documents that the load was of.                                     *)
ListOfCard(kind, documents) ==
  ListFound(LaunchList(FreshList(kind), [ListContext EXCEPT !.status = CardFilter.status], G.documents), documents)
CardAgrees(card, kind, documents) ==
  LET listed == ListedRows(ListOfCard(kind, documents), G.documents)
  IN /\ card = Cardinality(listed \cap Ids(G.documents))
     /\ Cardinality(Of(kind, documents)) <= MaxLoaded => card = Cardinality(listed)
CardsAgree ==
  LET documents == YardAt(log, data.documents).documents
  IN /\ CardAgrees(view.cards.receipts, "IN", documents)
     /\ CardAgrees(view.cards.shipments, "OUT", documents)

OnHandIn(parts) == Total(LAMBDA r : r.onHand, parts)
SummaryAgrees ==
  (view.drawer # None /\ local.filter.search = All /\ local.filter.type = All /\ data.stock = data.ledger)
    => /\ OnHandIn(view.drawer.warehouses) = view.drawer.row.onHand
       /\ OnHandIn(view.drawer.containers) = view.drawer.row.onHand

Planned(sheet, b) == SumOf(LAMBDA r : IF r.bucket = b THEN r.allocated ELSE 0, sheet)
SheetFits ==
  (view.drawer # None /\ AllocationsOf(Live(local, G.documents)[local.selected]) = {}) =>
    \A b \in DOMAIN G.items : Planned(view.drawer.sheet, b) <= AvailableOn(G.items, {b})

(* The figures agree: a card of the dashboard counts what the page that it  *)
(* opens lists once the server has answered its filter, as far as the load *)
(* brought it, which is all of it unless there are more documents of the   *)
(* kind than the load asks for (the filter does not stop at those); the    *)
(* breakdowns of a row of the summary add up to the row, the containers, or *)
(* the map, to the whole stock, and the lines of a draft's pick sheet to no *)
(* more than there is in any container.                                    *)
TotalsAgree ==
  SignedIn =>
    CASE Page = "dashboard" -> CardsAgree
      [] Page = "inventory-summary" -> SummaryAgrees
      [] Page = "container-contents" /\ local.query = NoQuery ->
           /\ view.onHand = OnHand(G.items, DOMAIN G.items)
           /\ OnHandIn(ContentsExport(view.rows, G.items)) = view.onHand
      [] Page = "outbound-management" -> SheetFits
      [] Page = "warehouse-map" /\ local.filter = NoFilter -> view.total.onHand = OnHand(G.items, DOMAIN G.items)
      [] OTHER -> TRUE

NextSteps(flow, from) == {e[2] : e \in {e \in flow.edges : e[1] \in from}} \cup from
(* Every edge leads on to another kind of step. *)
StepKinds == <<"container", "tracking", "pickup", "received", "inventory", "transfer", "picking", "delivery", "papers">>
ReachedFrom(flow, step) == Accumulate(LAMBDA from, kind : NextSteps(flow, from), {step}, StepKinds)

(* The life of a container is drawn as one flow: every edge joins steps that *)
(* are drawn, and every step follows from the first.                       *)
FlowIsConnected ==
  (OnLifecycle /\ view.life # None /\ view.life.ready) =>
    /\ \A e \in view.life.flow.edges : e[1] \in view.life.flow.nodes /\ e[2] \in view.life.flow.nodes
    /\ ReachedFrom(view.life.flow, <<"container", 0, "">>) = view.life.flow.nodes

-----------------------------------------------------------------------------
(* Waiting *)

DialogBusy(dialog) == dialog # None /\ dialog.submitting
RecordsBusy(l) == l.saving \/ l.table.saving

Busy(page, l) ==
  CASE page = "daily-operations" -> l.busy # None
    [] page \in ListPageKeys -> l.asked \/ l.key # None \/ l.noting \/ l.bulk
    [] page = "inbound-detail" -> l.saving \/ DialogBusy(l.dialog)
    [] page = "receipt-editor" -> l.submitting \/ l.copying
    [] page \in StockPageKeys -> DialogBusy(l.dialog) \/ DialogBusy(l.whole)
    [] page = "container-contents" -> l.loading \/ DialogBusy(l.bulk)
    [] page = "container-detail" -> DialogBusy(l.dialog)
    [] page = "container-lifecycle" -> l.listing \/ l.busy # None \/ (Scope # None /\ l.loading)
    [] page = "all-activity" -> l.loading
    [] page \in RecordPages -> RecordsBusy(l) \/ l.table.asked
    [] page \in {"storage-management", "storage-location-editor"} -> l.saving
    [] page = "reports" -> Shown(l).loading
    [] OTHER -> FALSE

(* Calls, loads and questions are lost, refused or answered in any order,   *)
(* pages are left and opened again: no page waits forever.                 *)
BusyEnds == (SignedIn /\ Busy(Page, local)) ~> ~(SignedIn /\ Busy(Page, local))
=============================================================================
