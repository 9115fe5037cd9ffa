-------------------------- MODULE InvoiceDocuments --------------------------
(***************************************************************************)
(* The documents made of an invoice: the editor's totals and spreadsheet   *)
(* (BillingInvoiceEditorPage.tsx), the PDF (billingInvoicePdf.ts), the     *)
(* invoice of one container (billingContainerInvoice.ts) and the archive   *)
(* of all of them (billingContainerZip.ts).  Pure operators, no state.  A  *)
(* document is the numbers in its tables; wording and layout are left out. *)
(***************************************************************************)
EXTENDS InvoiceStatements

IsVisibleLine(line) == line.type # "DISCOUNT" \/ line.amount # 0

VisibleLines(lines) == SelectSeq(lines, IsVisibleLine)

(* By container, the lines of the invoice itself last; then as entered. *)
LineBefore(left, right) ==
  \/ left.container < right.container
  \/ left.container = right.container /\ left.id < right.id

LinesByContainer(lines) == SortSeq(VisibleLines(lines), LineBefore)

GraceDiscount(lines) == TotalOf(LAMBDA l : l.details.discount, lines)

-----------------------------------------------------------------------------
(* The editor: the server's totals, with the grace period shown apart *)

EditorTotals(invoice) ==
  LET grace == GraceDiscount(invoice.lines)
  IN [subtotal |-> invoice.subtotal + grace,
      discountTotal |-> invoice.discountTotal - grace, grandTotal |-> invoice.grandTotal]

LedgerReconciles(invoice) ==
  LedgerTotal(ContainerDetails(invoice)) = EditorTotals(invoice).grandTotal

MovementReconciles(invoice) == Unreconciled(Statements(invoice)) = <<>>

(* The overview above the ledger. *)
InvoiceFacts(statements) ==
  [containers |-> Count(LAMBDA s : s.container # InvoiceLevel, statements),
   storage |-> TotalOf(LAMBDA s : s.row.amount["STORAGE"], statements),
   other |-> TotalOf(LAMBDA s : s.other, statements),
   billable |-> TotalOf(LAMBDA s : s.row.billable, statements)]

(* A row of the ledger, as the page and the spreadsheet print it.  Blank   *)
(* stands for a movement that nothing recorded.                            *)
Blank == -1
LedgerCells(s) ==
  LET Moved(n) == IF s.available THEN n ELSE Blank
  IN [container |-> s.container, opening |-> Moved(s.opening), received |-> Moved(s.received),
      released |-> Moved(s.released), closing |-> Moved(s.closing), releases |-> s.releases,
      billable |-> s.row.billable,
      fees |-> <<s.row.amount["INBOUND"], s.row.amount["WRAPPING"], s.row.amount["OUTBOUND"],
                 s.row.amount["STORAGE"], s.row.adjustment>>,
      gross |-> s.row.gross, discount |-> -Magnitude(s.row.discount), total |-> s.row.total]

LedgerSheet(statements) == Each(LedgerCells, statements)

ChargeSheet(invoice) ==
  Each(LAMBDA l : [container |-> l.container, amount |-> l.amount], LinesByContainer(invoice.lines))

Workbook(invoice, statements) ==
  [ledger |-> LedgerSheet(statements),
   ledgerTotal |-> LedgerTotal(ContainerDetails(invoice)),
   charges |-> ChargeSheet(invoice), chargeTotal |-> EditorTotals(invoice).grandTotal,
   storage |-> StatementRows(invoice, statements),
   storageTotal |-> TotalOf(LAMBDA s : s.row.amount["STORAGE"], statements)]

-----------------------------------------------------------------------------
(* The PDF of the invoice *)

(* Slip: a discount typed as a negative amount is added. *)
DisplayTotalsSigned(invoice) ==
  LET charges == SelectSeq(invoice.lines, LAMBDA l : l.type # "DISCOUNT")
      subtotal == TotalOf(LAMBDA l : l.amount + l.details.discount, charges)
      discount == -Magnitude(GraceDiscount(invoice.lines)
                             + TotalOf(LAMBDA l : l.amount,
                                       SelectSeq(invoice.lines, LAMBDA l : l.type = "DISCOUNT")))
  IN [subtotal |-> subtotal, discountTotal |-> discount, grandTotal |-> subtotal + discount]

(* A discount line is subtracted, however it was typed. *)
DisplayTotals(invoice) ==
  LET charges == SelectSeq(invoice.lines, LAMBDA l : l.type # "DISCOUNT")
      discounts == SelectSeq(invoice.lines, LAMBDA l : l.type = "DISCOUNT")
      subtotal == TotalOf(LAMBDA l : l.amount + l.details.discount, charges)
      discount == -Magnitude(GraceDiscount(invoice.lines)
                             + TotalOf(LAMBDA l : Magnitude(l.amount), discounts))
  IN IF invoice.lines = <<>>
     THEN [subtotal |-> invoice.subtotal, discountTotal |-> -Magnitude(invoice.discountTotal),
           grandTotal |-> invoice.subtotal - Magnitude(invoice.discountTotal)]
     ELSE [subtotal |-> subtotal, discountTotal |-> discount, grandTotal |-> subtotal + discount]

ChargeSummary(lines) ==
  LET charges == SelectSeq(lines, LAMBDA l : l.type # "DISCOUNT")
      Of(type) == SelectSeq(charges, LAMBDA l : l.type = type)
  IN [type \in {l.type : l \in ToSet(charges)} |->
       [gross |-> TotalOf(LAMBDA l : l.amount + l.details.discount, Of(type)),
        discount |-> TotalOf(LAMBDA l : l.details.discount, Of(type)),
        net |-> TotalOf(LAMBDA l : l.amount, Of(type)), lineCount |-> Len(Of(type)),
        billable |-> TotalOf(LAMBDA l : l.details.billable, Of(type)),
        containers |-> Cardinality({l.container : l \in ToSet(Of(type))} \ {InvoiceLevel})]]

(* Where the discounts come from: grace periods, then discount lines. *)
DiscountSources(lines) ==
  LET Source(l) ==
        (IF l.details.summary /\ l.details.discount > 0
         THEN <<[line |-> l.id, amount |-> -Magnitude(l.details.discount)]>> ELSE <<>>)
        \o (IF l.type = "DISCOUNT" /\ l.amount # 0
            THEN <<[line |-> l.id, amount |-> -Magnitude(l.amount)]>> ELSE <<>>)
  IN FlattenSeq(Each(Source, lines))

(* A line with a grace discount is printed gross, its discount below it. *)
LineDetail(lines) ==
  LET Rows(l) ==
        IF l.type = "DISCOUNT" THEN <<[line |-> l.id, amount |-> l.amount]>>
        ELSE <<[line |-> l.id, amount |-> l.amount + Larger(0, l.details.discount)]>>
             \o (IF l.details.discount > 0
                 THEN <<[line |-> l.id, amount |-> -Magnitude(l.details.discount)]>> ELSE <<>>)
  IN FlattenSeq(Each(Rows, VisibleLines(lines)))

Refused == [refused |-> TRUE]

(* The charges by service; the columns of discounts only when there are any. *)
ChargeRows(charges, showDiscounts) ==
  LET Row(c) == IF showDiscounts THEN <<c.gross, -Magnitude(c.discount), c.net>> ELSE <<c.net>>
  IN Each(LAMBDA type : Row(charges[type]), SetToSeq(DOMAIN charges))

AmountSummaryTable(totals, charges) ==
  LET showDiscounts == totals.discountTotal # 0 \/ \E type \in DOMAIN charges : charges[type].discount # 0
  IN [rows |-> ChargeRows(charges, showDiscounts), due |-> totals.grandTotal,
      totals |-> IF showDiscounts THEN <<totals.subtotal, totals.discountTotal>> ELSE <<>>]

DiscountDetail(sources) == Each(LAMBDA s : s.amount, sources)

(* A row for each statement, and the total of the invoice. *)
ReconciliationTable(statements) ==
  [rows |-> LedgerSheet(statements),
   total |-> IF statements = <<>> THEN Blank ELSE TotalOf(LAMBDA s : s.row.total, statements)]

StorageDetailTable(rows) ==
  IF \A i \in DOMAIN rows : rows[i].segment.start = NoDate /\ rows[i].released = 0 THEN <<>>
  ELSE Each(LAMBDA r : [container |-> r.container, opening |-> r.opening, received |-> r.received,
                        released |-> r.released, closing |-> r.closing, pallets |-> r.segment.pallets,
                        days |-> r.segment.days, gross |-> r.gross, fee |-> r.fee], rows)

(* Without reconciled movements there is no PDF. *)
PdfOf(invoice, statements, lines, totals, discounts) ==
  IF Unreconciled(statements) # <<>> THEN Refused
  ELSE [refused |-> FALSE, totals |-> totals, summary |-> AmountSummaryTable(totals, ChargeSummary(lines)),
        discounts |-> DiscountDetail(discounts), containers |-> ReconciliationTable(statements),
        storage |-> StorageDetailTable(StatementRows(invoice, statements)), lines |-> LineDetail(lines)]

PdfFrom(invoice, lines) ==
  PdfOf(invoice, Statements(invoice), lines, DisplayTotals(invoice), DiscountSources(lines))

InvoicePdf(invoice) == PdfFrom(invoice, LinesByContainer(invoice.lines))

-----------------------------------------------------------------------------
(* The invoice of one container, and the archive of all of them *)

Charge(item, quantity, amount) ==
  IF amount = 0 THEN <<>>
  ELSE <<[item |-> item, quantity |-> IF quantity = 0 THEN 1 ELSE quantity, amount |-> amount]>>

(* Slip: the adjustments of a container are left out. *)
ContainerItemsWithoutAdjustment(s) ==
  Charge("INBOUND", s.row.units["INBOUND"], s.row.amount["INBOUND"])
  \o Charge("WRAPPING", s.row.units["WRAPPING"], s.row.amount["WRAPPING"])
  \o Charge("OUTBOUND", s.row.units["OUTBOUND"], s.row.amount["OUTBOUND"])
  \o Charge("STORAGE", s.row.billable, s.row.amount["STORAGE"])

ContainerItems(s) ==
  LET items ==
        Charge("INBOUND", s.row.units["INBOUND"], s.row.amount["INBOUND"])
        \o Charge("WRAPPING", s.row.units["WRAPPING"], s.row.amount["WRAPPING"])
        \o Charge("OUTBOUND", s.row.units["OUTBOUND"], s.row.amount["OUTBOUND"])
        \o Charge("STORAGE", s.row.billable, s.row.amount["STORAGE"])
        \o Charge("ADJUSTMENT", 1, s.row.adjustment)
  IN IF items = <<>> THEN <<[item |-> "NO CHARGE", quantity |-> 0, amount |-> 0]>> ELSE items

ItemsTotal(items) == TotalOf(LAMBDA i : i.amount, items)

FeeTable(items) == [rows |-> items, total |-> ItemsTotal(items)]

PalletTable(s) ==
  [opening |-> s.opening, received |-> s.received, released |-> s.released,
   closing |-> s.closing, releases |-> s.releases]

StorageTable(s) ==
  Each(LAMBDA g : [start |-> g.start, days |-> g.days, billable |-> g.billable, amount |-> g.amount],
       s.segments)

ContainerFile(s, items) ==
  [refused |-> FALSE, container |-> s.container, amountDue |-> s.row.total,
   fees |-> FeeTable(items),
   pallets |-> IF s.container # InvoiceLevel /\ s.available THEN <<PalletTable(s)>> ELSE <<>>,
   storage |-> StorageTable(s)]

ContainerPdf(s) == IF Unreconciled(<<s>>) # <<>> THEN Refused ELSE ContainerFile(s, ContainerItems(s))

ContainerWorkbook(s) ==
  [container |-> s.container, amountDue |-> s.row.total, fees |-> FeeTable(ContainerItems(s))]

(* The whole invoice, two files for each statement, and their index. *)
ArchiveOf(statements, pdf) ==
  IF statements = <<>> \/ pdf.refused THEN Refused
  ELSE [refused |-> FALSE, invoice |-> pdf,
        pdfs |-> Each(ContainerPdf, statements), workbooks |-> Each(ContainerWorkbook, statements),
        manifest |-> LedgerSheet(statements),
        containerFiles |-> Count(LAMBDA s : s.container # InvoiceLevel, statements)]

ContainerArchive(invoice) == ArchiveOf(Statements(invoice), InvoicePdf(invoice))
=============================================================================
