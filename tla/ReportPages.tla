----------------------------- MODULE ReportPages -----------------------------
(***************************************************************************)
(* The reports of the warehouse (ReportsPage.tsx): the ledger of pallets   *)
(* over a period with what storing them costs, and the flow of one SKU.    *)
(* Each tab asks the server again whenever its scope changes and while it  *)
(* is shown; the answer to an earlier question is dropped.                 *)
(*                                                                         *)
(* A period is a pair of days.  An answer is kept as the version of the    *)
(* yard it was computed from and the scope it was asked for; wording and   *)
(* drawing are left out.                                                   *)
(***************************************************************************)
EXTENDS YardViews

CONSTANT Today  \* the last day there are documents of

NoFigures == [palletsIn |-> 0, palletsOut |-> 0, transferIn |-> 0, transferOut |-> 0, net |-> 0,
              ending |-> 0, peak |-> 0, onHand |-> 0, containers |-> 0]
NoReport == [scope |-> None, rows |-> <<>>, summary |-> NoFigures, places |-> {}, skus |-> {}]

(* The server's reports, by what the page relies on. *)
InReport(m, scope) ==
  /\ InScope(m.bucket, scope)
  /\ scope.search \in {All, Buckets[m.bucket].sku}
PalletsOf(moves, types) == Total(LAMBDA m : m.pallets, {m \in moves : m.type \in types})

PalletRow(moves, day) ==
  LET that == {m \in moves : m.date = day}
  IN [date |-> day, inbound |-> PalletsOf(that, {"IN"}), outbound |-> -PalletsOf(that, {"OUT"}),
      transferIn |-> PalletsOf(that, {"TRANSFER_IN"}), transferOut |-> -PalletsOf(that, {"TRANSFER_OUT"}),
      adjusted |-> PalletsOf(that, {"ADJUST"}),
      endOfDay |-> Total(LAMBDA m : m.pallets, {m \in moves : m.date <= day})]

PalletRows(moves, first, last) == [i \in 1..(last - first + 1) |-> PalletRow(moves, first + i - 1)]

Highest(numbers) == FoldLeft(LAMBDA n, m : IF m > n THEN m ELSE n, 0, numbers)

ReportSummary(rows) ==
  LET in == SumOf(LAMBDA r : r.inbound, rows)
      out == SumOf(LAMBDA r : r.outbound, rows)
      transferIn == SumOf(LAMBDA r : r.transferIn, rows)
      transferOut == SumOf(LAMBDA r : r.transferOut, rows)
  IN [palletsIn |-> in, palletsOut |-> out, transferIn |-> transferIn, transferOut |-> transferOut,
      net |-> in - out + transferIn - transferOut + SumOf(LAMBDA r : r.adjusted, rows),
      ending |-> IF rows = <<>> THEN 0 ELSE Last(rows).endOfDay,
      peak |-> Highest(Each(LAMBDA r : r.endOfDay, rows))]

(* What is in stock now, whatever the period. *)
StockSections(items, here) ==
  [onHand |-> OnHand(items, here),
   containers |-> Cardinality({Buckets[b].container : b \in {b \in here : items[b].quantity > 0}})]
Shares(items, here, field) ==
  LET held == {b \in here : items[b].quantity > 0}
  IN {[label |-> k, value |-> OnHand(items, {b \in held : Buckets[b][field] = k})] :
        k \in {Buckets[b][field] : b \in held}}

InStockReport(b, scope) == InScope(b, scope) /\ scope.search \in {All, Buckets[b].sku}

ReportOf(items, here, rows, scope) ==
  [scope |-> scope, rows |-> rows, summary |-> ReportSummary(rows) @@ StockSections(items, here),
   places |-> Shares(items, here, "location"),
   skus |-> Shares(items, here, "sku")]

OperationsReport(items, moves, scope) ==
  ReportOf(items, {b \in DOMAIN items : InStockReport(b, scope)},
           PalletRows({m \in moves : InReport(m, scope)}, scope.first, scope.last), scope)

FlowSummary(rows, current) ==
  LET Of(type) == SelectSeq(rows, LAMBDA r : r.type = type)
      Cartons(type) == SumOf(LAMBDA r : IF r.change < 0 THEN -r.change ELSE r.change, Of(type))
  IN [inbound |-> Cartons("IN"), outbound |-> Cartons("OUT"), net |-> Cartons("IN") - Cartons("OUT"),
      current |-> current, last |-> Highest(Each(LAMBDA r : r.date, Of("OUT")))]

FlowReportOf(rows, current, scope) ==
  [NoReport EXCEPT !.scope = scope, !.rows = rows, !.summary = FlowSummary(rows, current)]

SKUFlowReport(items, moves, scope) ==
  FlowReportOf(SetToSortSeq({m \in moves : InReport(m, scope) /\ m.type \in {"IN", "OUT"}
                                          /\ m.date \in scope.first..scope.last},
                            LAMBDA m, n : m.date > n.date),
               OnHand(items, {b \in DOMAIN items : InStockReport(b, scope)}), scope)

-----------------------------------------------------------------------------
(* What the page asks for *)

Ordered(first, last) == IF first <= last THEN <<first, last>> ELSE <<last, first>>

(* A date that was cleared is the default one. *)
DefaultFirst(today) == 1
Period(form, today) ==
  Ordered(IF form.first = 0 THEN DefaultFirst(today) ELSE form.first, IF form.last = 0 THEN today ELSE form.last)

ScopeOf(form, today) ==
  LET period == Period(form, today)
  IN [customer |-> form.customer, location |-> form.location, search |-> form.search,
      first |-> period[1], last |-> period[2]]

(* Storage is one price per day only if every type of container costs the same. *)
DailyRate(rates) == IF rates.normal = rates.westCoast THEN rates.normal ELSE None

NoAnswer == [version |-> 0, scope |-> None]
NewForm(search) ==
  [customer |-> All, location |-> All, search |-> search, first |-> DefaultFirst(Today), last |-> Today]
NewTab(search) == [form |-> NewForm(search), answer |-> NoAnswer, loading |-> FALSE, asked |-> FALSE, failed |-> FALSE]

FreshReports(rates) ==
  [tab |-> "overview", rate |-> DailyRate(rates), typed |-> All,
   overview |-> NewTab(All), flow |-> NewTab(None)]

(* Asking: the answer to what was asked before no longer counts. *)
AskAgain(tab) == [tab EXCEPT !.loading = TRUE, !.failed = FALSE, !.asked = TRUE]
Dropped(tab) == [tab EXCEPT !.asked = FALSE]

OverviewAsks(local) ==
  IF local.tab = "overview" THEN [local EXCEPT !.overview = AskAgain(@)]
  ELSE [local EXCEPT !.overview = Dropped(@)]

FlowAsks(local) ==
  IF local.tab # "sku-flow" THEN [local EXCEPT !.flow = Dropped(@)]
  ELSE IF local.flow.form.search = None THEN [local EXCEPT !.flow = [Dropped(@) EXCEPT !.answer = NoAnswer]]
  ELSE [local EXCEPT !.flow = AskAgain(@)]

(* The first SKU is chosen as soon as there is one. *)
WithFirstSku(local, skus) ==
  IF local.flow.form.search # None \/ skus = {} THEN local
  ELSE FlowAsks([local EXCEPT !.flow.form.search = CHOOSE s \in skus : TRUE])

OpenedReports(rates, skus) == WithFirstSku(OverviewAsks(FreshReports(rates)), skus)

SetTab(local, tab) == IF tab = local.tab THEN local ELSE OverviewAsks(FlowAsks([local EXCEPT !.tab = tab]))

(* A form that asks for the same asks for nothing. *)
SetForm(local, form) ==
  IF local.tab = "overview"
  THEN LET changed == [local EXCEPT !.overview.form = form]
       IN IF ScopeOf(form, Today) = ScopeOf(local.overview.form, Today) THEN changed ELSE OverviewAsks(changed)
  ELSE LET changed == [local EXCEPT !.flow.form = form]
       IN IF ScopeOf(form, Today) = ScopeOf(local.flow.form, Today) THEN changed ELSE FlowAsks(changed)

SubmitSearch(local) ==
  SetForm(local, [local.overview.form EXCEPT !.search = local.typed])

SetRate(local, typed) == [local EXCEPT !.rate = IF typed < 0 THEN None ELSE typed]

Answered(tab, version) ==
  [tab EXCEPT !.answer = [version |-> version, scope |-> ScopeOf(tab.form, Today)], !.loading = FALSE, !.asked = FALSE]
Failed(tab) == [tab EXCEPT !.answer = NoAnswer, !.failed = TRUE, !.loading = FALSE, !.asked = FALSE]

-----------------------------------------------------------------------------
(* What the page shows *)

(* A day opens with what the day before closed with. *)
DailyStorageRows(rows, rate) ==
  [i \in DOMAIN rows |->
    LET r == rows[i]
        opening == IF i > 1 THEN rows[i - 1].endOfDay
                   ELSE Positive(r.endOfDay - r.inbound + r.outbound - r.transferIn + r.transferOut - r.adjusted)
    IN r @@ [opening |-> opening, amount |-> IF rate = None THEN 0 ELSE r.endOfDay * rate]]

StorageCards(rows, rate) ==
  IF rate = None THEN [latest |-> None, period |-> None, peak |-> None]
  ELSE [latest |-> IF rows = <<>> THEN 0 ELSE Last(rows).amount,
        period |-> SumOf(LAMBDA r : r.amount, rows),
        peak |-> Highest(Each(LAMBDA r : r.amount, rows))]

(* The note in place of rows, and the cards, charts and ledger of the overview. *)

OverviewTab(local, report) ==
  LET rows == DailyStorageRows(report.rows, local.rate)
  IN [ledger |-> rows, cards |-> report.summary, storage |-> StorageCards(rows, local.rate),
      places |-> report.places, skus |-> report.skus,
      note |-> IF rows # <<>> THEN None ELSE IF local.overview.loading THEN "loading" ELSE "empty"]

(* Cartons in and out per day that has any. *)
FlowTrend(rows) ==
  [d \in {r.date : r \in ToSet(rows)} |->
    [inbound |-> SumOf(LAMBDA r : Positive(r.change), SelectSeq(rows, LAMBDA r : r.date = d /\ r.type = "IN")),
     outbound |-> SumOf(LAMBDA r : Positive(-r.change), SelectSeq(rows, LAMBDA r : r.date = d /\ r.type = "OUT"))]]

FlowTab(local, report, skus) ==
  LET rows == report.rows
  IN [sku |-> local.flow.form.search, rows |-> rows, trend |-> FlowTrend(rows),
      cards |-> report.summary,
      note |-> IF rows # <<>> THEN None ELSE IF skus = {} THEN "no SKU"
               ELSE IF local.flow.loading THEN "loading" ELSE "empty"]

Shown(local) == IF local.tab = "overview" THEN local.overview ELSE local.flow

(* From the yard of the version that answered. *)
ReportsView(local, items, movements, skus) ==
  LET answer == Shown(local).answer
  IN IF local.tab = "overview"
     THEN OverviewTab(local, IF answer.version = 0 THEN NoReport ELSE OperationsReport(items, movements, answer.scope))
     ELSE FlowTab(local, IF answer.version = 0 THEN NoReport ELSE SKUFlowReport(items, movements, answer.scope), skus)
=============================================================================
