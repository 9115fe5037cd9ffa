--------------------------- MODULE BillingPreviews ---------------------------
(***************************************************************************)
(* The preview of what a customer owes for a period: how the service       *)
(* computes it from the movements of pallets (billing_preview_store.go),    *)
(* how the pages map and merge previews (lib/billingPreview.ts), and what   *)
(* they show and export of one (BillingPage.tsx, BillingContainerDetail-    *)
(* Page.tsx, billingPreviewPdf.ts).  Pure operators, no state.             *)
(*                                                                         *)
(* A movement adds (a receipt) or takes away (a shipment) the pallets of a  *)
(* container on a day.  There is one warehouse, and one position of each    *)
(* container in it.                                                        *)
(***************************************************************************)
EXTENDS InvoiceDocuments

CONSTANTS Containers, Customers, CustomerOf, TypeOf, GraceDays

ASSUME ContainersAssumption ==
  /\ Containers \subseteq 1..(InvoiceLevel - 1) /\ GraceDays \in Nat
  /\ Customers \subseteq Nat \ {0} /\ IsFiniteSet(Customers)
  /\ \A c \in Containers : CustomerOf[c] \in Customers
  /\ \A c \in Containers : TypeOf[c] \in {"NORMAL", "WEST_COAST_TRANSFER"}

All == "all"

-----------------------------------------------------------------------------
(* The service's computation *)

MovesOf(moves, c) == Only(moves, {m \in ToSet(moves) : m.container = c})

MovesUntil(moves, c, day) == Only(MovesOf(moves, c), {m \in ToSet(moves) : m.day <= day})

BalanceAt(moves, c, day) == TotalOf(LAMBDA m : m.delta, MovesUntil(moves, c, day))

ReceiptDays(moves, c) == {m.day : m \in {x \in ToSet(MovesOf(moves, c)) : x.delta > 0}}

(* A pallet leaves a day when something is taken away, whatever arrives on it. *)
TakenIn(moves, c, start, end) ==
  Only(MovesOf(moves, c), {m \in ToSet(MovesOf(moves, c)) : m.delta < 0 /\ m.day \in start..end})

TakenOn(taken, d) == TotalOf(LAMBDA m : -m.delta, Only(taken, {m \in ToSet(taken) : m.day = d}))

ReleasesOf(taken) ==
  Each(LAMBDA d : [day |-> d, pallets |-> TakenOn(taken, d)], OrderedOnce(Each(LAMBDA m : m.day, taken)))

ReleasesIn(moves, c, start, end) == ReleasesOf(TakenIn(moves, c, start, end))

(* A day prolongs the last run of days that are alike, or starts another:   *)
(* [start, end, like].                                                      *)
RunsWith(runs, d) ==
  IF runs # <<>> /\ Last(runs).end = d.day - 1 /\ Last(runs).like = d.like
  THEN [runs EXCEPT ![Len(runs)].end = d.day]
  ELSE Append(runs, [start |-> d.day, end |-> d.day, like |-> d.like])

Runs(days) == Accumulate(RunsWith, <<>>, days)

(* The balance of the days that have one, in runs with the same part free. *)
SegmentOf(run, daily) ==
  LET days == run.end - run.start + 1
      palletDays == run.like.pallets * days
      free == run.like.free * days
  IN [start |-> run.start, end |-> run.end, pallets |-> run.like.pallets, days |-> days,
      palletDays |-> palletDays, free |-> free, billable |-> palletDays - free,
      gross |-> palletDays * daily, discount |-> free * daily,
      amount |-> (palletDays - free) * daily]

Segments(balances, daily) ==
  Each(LAMBDA run : SegmentOf(run, daily), Runs(Only(balances, {d \in ToSet(balances) : d.like.pallets > 0})))

Days(start, end) == [i \in 1..(end - start + 1) |-> start + i - 1]

DailyRate(scope, c) == scope.rates.daily[TypeOf[c]]
FreeDays(scope, c) == IF scope.grace /\ TypeOf[c] = "NORMAL" THEN GraceDays ELSE 0

(* The balance of a day, and the part of it in its grace period. *)
BalanceOfDay(d, pallets, until) ==
  [day |-> d, like |-> [pallets |-> pallets, free |-> IF d < until THEN pallets ELSE 0]]

DailyBalancesOf(moves, scope, c, until) ==
  Each(LAMBDA d : BalanceOfDay(d, BalanceAt(moves, c, d), until), Days(scope.start, scope.end))

StorageRowOf(moves, scope, c, first, segments) ==
  LET Total(Of(_)) == TotalOf(Of, segments)
  IN [customer |-> CustomerOf[c], container |-> c, type |-> TypeOf[c], received |-> first,
      opening |-> BalanceAt(moves, c, scope.start - 1), closing |-> BalanceAt(moves, c, scope.end),
      releases |-> ReleasesIn(moves, c, scope.start, scope.end),
      tracked |-> Max({0} \cup {s.pallets : s \in ToSet(segments)}),
      palletDays |-> Total(LAMBDA s : s.palletDays), free |-> Total(LAMBDA s : s.free),
      billable |-> Total(LAMBDA s : s.billable), gross |-> Total(LAMBDA s : s.gross),
      discount |-> Total(LAMBDA s : s.discount), amount |-> Total(LAMBDA s : s.amount),
      segments |-> segments]

StorageRowFrom(moves, scope, c, first) ==
  StorageRowOf(moves, scope, c, first,
    Segments(DailyBalancesOf(moves, scope, c, first + FreeDays(scope, c)), DailyRate(scope, c)))

StorageRow(moves, scope, c) == StorageRowFrom(moves, scope, c, Min(ReceiptDays(moves, c)))

InScope(scope, c) ==
  /\ scope.customer = CustomerOf[c] /\ scope.type \in {All, TypeOf[c]}

(* Containers, or customers, by number. *)
Ascending(numbers) == Only([n \in 1..Max({0} \cup numbers) |-> n], numbers)

StorageRows(moves, scope) ==
  LET received == {c \in Containers : InScope(scope, c) /\ ReceiptDays(moves, c) # {}}
      rows == Each(LAMBDA c : StorageRow(moves, scope, c), Ascending(received))
  IN Only(rows, {r \in ToSet(rows) : r.palletDays > 0 \/ r.opening > 0 \/ r.closing > 0 \/ r.releases # <<>>})

Line(type, c, day, quantity, amount) ==
  [type |-> type, customer |-> CustomerOf[c], container |-> c, day |-> day,
   quantity |-> quantity, amount |-> amount]

(* A container is received once; transfers pay for each pallet. *)
ReceiptLines(moves, scope, m) ==
  LET c == m.container
      pallets == m.delta
  IN IF TypeOf[c] = "WEST_COAST_TRANSFER"
     THEN <<Line("INBOUND", c, m.day, pallets, pallets * scope.rates.transfer)>>
     ELSE (IF m.day = Min(ReceiptDays(moves, c))
           THEN <<Line("INBOUND", c, m.day, 1, scope.rates.inbound)>> ELSE <<>>)
          \o <<Line("WRAPPING", c, m.day, pallets, pallets * scope.rates.wrapping)>>

MoveLines(moves, scope, m) ==
  IF m.delta > 0 THEN ReceiptLines(moves, scope, m)
  ELSE <<Line("OUTBOUND", m.container, m.day, -m.delta, -m.delta * scope.rates.outbound)>>

LastDay(row) == IF row.segments = <<>> THEN NoDate ELSE Last(row.segments).end

StorageLine(row) == Line("STORAGE", row.container, LastDay(row), row.billable, row.amount)

(* By day, by container, then by service; otherwise as they come. *)
Rank == [INBOUND |-> 1, WRAPPING |-> 2, STORAGE |-> 3, OUTBOUND |-> 4]

Precedes(left, right) ==
  \/ left.day < right.day
  \/ left.day = right.day /\ left.container < right.container
  \/ left.day = right.day /\ left.container = right.container /\ Rank[left.type] < Rank[right.type]

InPlace(sorted, line) ==
  PutAfter(sorted, Cardinality({i \in DOMAIN sorted : ~Precedes(line, sorted[i])}), line)

InLineOrder(lines) == Accumulate(InPlace, <<>>, lines)

PreviewLines(moves, scope, rows) ==
  LET counted == Only(moves, {m \in ToSet(moves) : m.day \in scope.start..scope.end /\ InScope(scope, m.container)})
  IN InLineOrder(Joined(Each(LAMBDA m : MoveLines(moves, scope, m), counted)) \o Each(StorageLine, rows))

AmountOf(type, lines) == TotalOf(LAMBDA l : l.amount, Only(lines, {l \in ToSet(lines) : l.type = type}))

IsReceivedPallets(line) ==
  \/ line.type = "WRAPPING"
  \/ line.type = "INBOUND" /\ TypeOf[line.container] = "WEST_COAST_TRANSFER"

Summary(lines, rows) ==
  [containers |-> Cardinality({l.container : l \in {x \in ToSet(lines) : x.type = "INBOUND"}}),
   pallets |-> TotalOf(LAMBDA l : l.quantity, SelectSeq(lines, IsReceivedPallets)),
   palletDays |-> TotalOf(LAMBDA r : r.palletDays, rows),
   gross |-> TotalOf(LAMBDA r : r.gross, rows), discount |-> TotalOf(LAMBDA r : r.discount, rows),
   amount |-> [type \in Services |-> AmountOf(type, lines)],
   grandTotal |-> TotalOf(LAMBDA l : l.amount, lines)]

DailyRows(rows, start, end) ==
  [d \in start..end |-> TotalOf(LAMBDA r : BalanceOn(r.segments, d), rows)]

(* The answer of the service.  Its fingerprint is of the scope and of every *)
(* movement it read.                                                       *)
PreviewWith(moves, scope, rows, lines) ==
  [scope |-> scope, lines |-> lines, storage |-> rows, fingerprint |-> <<scope, moves>>,
   daily |-> DailyRows(rows, scope.start, scope.end), summary |-> Summary(lines, rows)]

PreviewFrom(moves, scope, rows) == PreviewWith(moves, scope, rows, PreviewLines(moves, scope, rows))

PreviewOfSources(moves, scope) == PreviewFrom(moves, scope, StorageRows(moves, scope))

(* What it reads: the customer's movements up to the end of the period. *)
SourcesOf(moves, scope) ==
  Only(moves, {m \in ToSet(moves) : CustomerOf[m.container] = scope.customer /\ m.day <= scope.end})

ServicePreview(moves, scope) == PreviewOfSources(SourcesOf(moves, scope), scope)

(* The lines of an invoice: the preview's, with the record of each stay. *)
StayDetails(row) ==
  [summary |-> TRUE, moves |-> TRUE, opening |-> row.opening, closing |-> row.closing,
   releases |-> row.releases, received |-> row.received, tracked |-> row.tracked,
   palletDays |-> row.palletDays, free |-> row.free, billable |-> row.billable,
   gross |-> row.gross, discount |-> row.discount, segments |-> row.segments]

InvoiceLines(preview, settlement) ==
  LET billed == Only(preview.lines, {l \in ToSet(preview.lines) : ~settlement \/ l.type = "STORAGE"})
      Stay(c) == CHOOSE r \in ToSet(preview.storage) : r.container = c
  IN [i \in DOMAIN billed |->
       [id |-> i, type |-> billed[i].type, container |-> billed[i].container,
        day |-> billed[i].day, quantity |-> billed[i].quantity, amount |-> billed[i].amount,
        manual |-> FALSE,
        details |-> IF billed[i].type = "STORAGE" THEN StayDetails(Stay(billed[i].container))
                    ELSE NoDetails]]

-----------------------------------------------------------------------------
(* What the pages make of previews *)

NoAmounts == [type \in Services |-> 0]
EmptySummary ==
  [containers |-> 0, pallets |-> 0, palletDays |-> 0, gross |-> 0, discount |-> 0, amount |-> NoAmounts, grandTotal |-> 0]

(* A page keeps what it shows, without the fingerprint. *)
Mapped(preview) ==
  [scope |-> preview.scope, lines |-> preview.lines, storage |-> preview.storage,
   daily |-> preview.daily, summary |-> preview.summary]

AddSummaries(a, b) ==
  [containers |-> a.containers + b.containers, pallets |-> a.pallets + b.pallets,
   palletDays |-> a.palletDays + b.palletDays,
   gross |-> a.gross + b.gross, discount |-> a.discount + b.discount,
   amount |-> [type \in Services |-> a.amount[type] + b.amount[type]],
   grandTotal |-> a.grandTotal + b.grandTotal]

MergedLineBefore(left, right) ==
  \/ left.day < right.day \/ (left.day = right.day /\ left.customer < right.customer)

StayBefore(left, right) ==
  \/ left.customer < right.customer \/ (left.customer = right.customer /\ left.container < right.container)

StayInPlace(sorted, row) ==
  PutAfter(sorted, Cardinality({i \in DOMAIN sorted : ~StayBefore(row, sorted[i])}), row)

StaysInPlace(rows) == Accumulate(StayInPlace, <<>>, rows)

Merged(previews, scope) ==
  LET days == UNION {DOMAIN p.daily : p \in ToSet(previews)}
      DailyOf(p, d) == IF d \in DOMAIN p.daily THEN p.daily[d] ELSE 0
  IN [scope |-> scope,
      lines |-> SortSeq(FlattenSeq(Each(LAMBDA p : p.lines, previews)), MergedLineBefore),
      storage |-> StaysInPlace(Joined(Each(LAMBDA p : p.storage, previews))),
      daily |-> [d \in days |-> TotalOf(LAMBDA p : DailyOf(p, d), previews)],
      summary |-> FoldLeft(LAMBDA s, p : AddSummaries(s, p.summary), EmptySummary, previews)]

(* As many days again, up to the day before. *)
PreviousPeriod(start, end) == <<start - 1 - (end - start), start - 1>>

(* One row for each container; its storage comes from the container's stay. *)
ContainerRow(preview, c) ==
  LET mine == SelectSeq(preview.lines, LAMBDA l : l.container = c)
      stays == SelectSeq(preview.storage, LAMBDA r : r.container = c)
      inbound == AmountOf("INBOUND", mine)
      wrapping == AmountOf("WRAPPING", mine)
      storage == FoldLeft(LAMBDA n, r : Larger(n, r.amount), AmountOf("STORAGE", mine), stays)
      lines == TotalOf(LAMBDA l : l.amount, mine)
  IN [container |-> c, inbound |-> inbound, wrapping |-> wrapping, storage |-> storage,
      total |-> IF stays = <<>> THEN lines ELSE inbound + wrapping + storage]

ContainerRows(preview) ==
  LET seen == {l.container : l \in ToSet(preview.lines)} \cup {r.container : r \in ToSet(preview.storage)}
      Earlier(l, r) == \/ CustomerOf[l.container] < CustomerOf[r.container]
                       \/ /\ CustomerOf[l.container] = CustomerOf[r.container]
                          /\ l.total > r.total \/ (l.total = r.total /\ l.container < r.container)
  IN SetToSortSeq({ContainerRow(preview, c) : c \in seen}, Earlier)

SegmentRows(rows) ==
  Joined(Each(LAMBDA r : Each(LAMBDA g : [container |-> r.container, segment |-> g], r.segments), rows))

(* The spreadsheet: of a settlement each stay and its segments, otherwise   *)
(* the lines too; a stay is both a line and a summary of its segments.  What *)
(* a segment costs has a column of its own; of a settlement, each repeats   *)
(* what its stay costs.                                                    *)
SheetRow(kind, container, amount, segment) ==
  [kind |-> kind, container |-> container, amount |-> amount, segment |-> segment]

StayExport(row, settlement) ==
  <<SheetRow("summary", row.container, row.amount, 0)>>
  \o Each(LAMBDA g : SheetRow("segment", row.container, IF settlement THEN row.amount ELSE 0, g.amount),
          row.segments)

ByContainer(rows) == SortSeq(rows, LAMBDA l, r : l.container < r.container)

ExportRows(preview, settlement) ==
  LET stays == FlattenSeq(Each(LAMBDA r : StayExport(r, settlement), preview.storage))
      lines == Each(LAMBDA l : SheetRow("line", l.container, l.amount, 0), preview.lines)
  IN ByContainer(IF settlement THEN stays ELSE lines \o stays)

-----------------------------------------------------------------------------
(* The PDF of a preview *)

PreviewTotals(preview, settlement) ==
  IF settlement
  THEN [subtotal |-> TotalOf(LAMBDA r : r.gross, preview.storage),
        discountTotal |-> -Magnitude(TotalOf(LAMBDA r : r.discount, preview.storage)),
        grandTotal |-> TotalOf(LAMBDA r : r.amount, preview.storage)]
  ELSE [subtotal |-> preview.summary.amount["INBOUND"] + preview.summary.amount["WRAPPING"]
                     + preview.summary.gross,
        discountTotal |-> -Magnitude(preview.summary.discount),
        grandTotal |-> preview.summary.grandTotal]

ChargeSources(preview, settlement) ==
  IF ~settlement THEN preview.lines ELSE Each(StorageLine, preview.storage)

StayOf(preview, line) ==
  SelectSeq(preview.storage, LAMBDA r : line.type = "STORAGE" /\ r.container = line.container)

PreviewChargeRows(preview, lines) ==
  LET Of(type) == SelectSeq(lines, LAMBDA l : l.type = type)
      Sum(l, stays, Op(_), other) == IF stays = <<>> THEN other ELSE Op(stays[1])
      Gross(l) == Sum(l, StayOf(preview, l), LAMBDA r : r.gross, l.amount)
      Free(l) == Sum(l, StayOf(preview, l), LAMBDA r : r.discount, 0)
      Net(l) == Sum(l, StayOf(preview, l), LAMBDA r : r.amount, l.amount)
  IN [type \in {l.type : l \in ToSet(lines)} |->
       [gross |-> TotalOf(Gross, Of(type)), discount |-> TotalOf(Free, Of(type)),
        net |-> TotalOf(Net, Of(type))]]

PreviewDiscountRows(preview) ==
  Each(LAMBDA r : [container |-> r.container, amount |-> -Magnitude(r.discount)],
       SelectSeq(preview.storage, LAMBDA r : r.discount > 0))

(* Slip: the net amount, and the discount below it once more. *)
PreviewLineRowsNet(preview, lines) ==
  LET Rows(l) ==
        LET stays == StayOf(preview, l)
        IN IF stays = <<>> THEN <<l.amount>> ELSE <<l.amount, -Magnitude(stays[1].discount)>>
  IN FlattenSeq(Each(Rows, lines))

PreviewLineRows(preview, lines) ==
  LET Rows(l) ==
        LET stays == StayOf(preview, l)
        IN IF stays = <<>> THEN <<l.amount>>
           ELSE <<stays[1].gross>> \o (IF stays[1].discount > 0 THEN <<-Magnitude(stays[1].discount)>> ELSE <<>>)
  IN FlattenSeq(Each(Rows, lines))

(* Slip: a segment ends the day before its last. *)
DayBucketShort(rows, d) ==
  LET covering == Only(SegmentRows(rows),
                       {s \in ToSet(SegmentRows(rows)) : s.segment.start <= d /\ d < s.segment.end})
  IN [pallets |-> TotalOf(LAMBDA s : s.segment.pallets, covering),
      free |-> TotalOf(LAMBDA s : s.segment.free \div s.segment.days, covering),
      gross |-> TotalOf(LAMBDA s : s.segment.gross \div s.segment.days, covering),
      discount |-> TotalOf(LAMBDA s : s.segment.discount \div s.segment.days, covering)]

(* All containers together: the days that any of them stayed, in runs with  *)
(* the same balance, the same part of it free and the same charge.          *)
DayBucket(rows, d) ==
  LET covering == Only(SegmentRows(rows),
                       {s \in ToSet(SegmentRows(rows)) : s.segment.start <= d /\ d <= s.segment.end})
  IN [pallets |-> TotalOf(LAMBDA s : s.segment.pallets, covering),
      free |-> TotalOf(LAMBDA s : s.segment.free \div s.segment.days, covering),
      gross |-> TotalOf(LAMBDA s : s.segment.gross \div s.segment.days, covering),
      discount |-> TotalOf(LAMBDA s : s.segment.discount \div s.segment.days, covering)]

BilledDays(rows) ==
  OrderedOnce(Joined(Each(LAMBDA s : Days(s.segment.start, s.segment.end), SegmentRows(rows))))

AggregatedSegments(rows) ==
  LET Run(run) ==
        LET n == run.end - run.start + 1
            b == run.like
        IN [start |-> run.start, end |-> run.end, pallets |-> b.pallets, days |-> n,
            palletDays |-> b.pallets * n, free |-> b.free * n, gross |-> b.gross * n,
            discount |-> b.discount * n, amount |-> b.gross * n - b.discount * n]
      days == Each(LAMBDA d : [day |-> d, like |-> DayBucket(rows, d)], BilledDays(rows))
  IN Each(Run, Runs(days))

(* A segment is printed gross, its free days below it. *)
SegmentDetailRows(runs) ==
  FlattenSeq(Each(LAMBDA g : <<g.gross>> \o (IF g.discount > 0 THEN <<-Magnitude(g.discount)>> ELSE <<>>), runs))

(* The segments stand for the charge of storage, when there are any; what   *)
(* each container's grace period saved is listed again, as a source.        *)
ChargeSummaryRows(charges, segments) ==
  LET Row(c) == [gross |-> c.gross, discount |-> c.discount]
      Segment(n) == [gross |-> Larger(n, 0), discount |-> Larger(-n, 0)]
      Rows(type) == IF type = "STORAGE" /\ segments # <<>> THEN Each(Segment, segments)
                    ELSE <<Row(charges[type])>>
  IN FlattenSeq(Each(Rows, SetToSeq(DOMAIN charges)))

PreviewAmountTable(totals, charges, discounts, segments) ==
  [rows |-> ChargeSummaryRows(charges, segments), sources |-> Each(LAMBDA d : d.amount, discounts),
   subtotal |-> totals.subtotal, discountTotal |-> totals.discountTotal, due |-> totals.grandTotal]

PreviewPdfOf(preview, settlement, lines, totals, segments) ==
  [totals |-> totals, lines |-> PreviewLineRows(preview, lines),
   summary |-> PreviewAmountTable(totals, PreviewChargeRows(preview, lines), PreviewDiscountRows(preview), segments)]

PreviewPdf(preview, settlement) ==
  PreviewPdfOf(preview, settlement, ChargeSources(preview, settlement), PreviewTotals(preview, settlement),
               SegmentDetailRows(AggregatedSegments(preview.storage)))

-----------------------------------------------------------------------------
(* The detail page of one container *)

LinesOfContainer(preview, c) == SelectSeq(preview.lines, LAMBDA l : l.container = c)

ContainerSummary(lines) ==
  [amount |-> [type \in Services |-> AmountOf(type, lines)],
   total |-> TotalOf(LAMBDA l : l.amount, lines)]

Timeline(moves, c, start, end) ==
  LET shown == SortSeq(SelectSeq(MovesOf(moves, c), LAMBDA m : m.day \in start..end),
                       LAMBDA l, r : l.day < r.day)
  IN [i \in DOMAIN shown |->
       [day |-> shown[i].day, delta |-> shown[i].delta,
        running |-> TotalOf(LAMBDA m : m.delta, SubSeq(shown, 1, i))]]

TimelineSummary(rows) == [events |-> Len(rows), net |-> TotalOf(LAMBDA r : r.delta, rows)]
=============================================================================
