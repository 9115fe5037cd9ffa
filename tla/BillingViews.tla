----------------------------- MODULE BillingViews -----------------------------
(***************************************************************************)
(* What the billing pages put on the screen: the cards, the tables and the *)
(* sheet of the desk (BillingPage.tsx), the tables of an invoice's editor   *)
(* (BillingInvoiceEditorPage.tsx).  Pure operators, no state.              *)
(*                                                                         *)
(* The filter of the desk is the set of containers whose numbers contain   *)
(* what was typed.                                                         *)
(***************************************************************************)
EXTENDS BillingPreviews

\* A value that is not there.
Nothing == [none |-> TRUE]

-----------------------------------------------------------------------------
(* The desk.  The filter narrows the tables, never the totals of a preview. *)

StorageShown(preview, filter) == SelectSeq(preview.storage, LAMBDA r : r.container \in filter)
LinesShown(preview, filter) == SelectSeq(preview.lines, LAMBDA l : l.container \in filter)
ContainersShown(preview, filter) == SelectSeq(ContainerRows(preview), LAMBDA r : r.container \in filter)

HasDiscount(rows) == TotalOf(LAMBDA r : r.discount, rows) > 0

(* Each card compares a number with that of the period before, if known. *)
Delta(value, previous) ==
  CASE previous = Nothing -> "none"
    [] previous # Nothing /\ previous.value = 0 -> IF value = 0 THEN "flat" ELSE "up"
    [] OTHER -> LET diff == value - previous.value
                IN IF 200 * Magnitude(diff) < Magnitude(previous.value) THEN "flat"
                   ELSE IF diff >= 0 THEN "up" ELSE "down"

Figures(preview, settlement, rows) ==
  IF settlement
  THEN [containers |-> Len(rows), pallets |-> TotalOf(LAMBDA r : r.tracked, rows),
        palletDays |-> TotalOf(LAMBDA r : r.palletDays, rows), total |-> TotalOf(LAMBDA r : r.amount, rows)]
  ELSE [containers |-> preview.summary.containers, pallets |-> preview.summary.pallets,
        palletDays |-> preview.summary.palletDays, total |-> preview.summary.grandTotal]

(* With settlement the cards of the period before are not filtered. *)
Before(previous, settlement) ==
  IF settlement
  THEN [Figures(previous, TRUE, previous.storage) EXCEPT !.palletDays = previous.summary.palletDays]
  ELSE Figures(previous, FALSE, <<>>)

Card(value, before) == [value |-> value, delta |-> Delta(value, before)]

Metrics(preview, previous, settlement, rows) ==
  LET now == Figures(preview, settlement, rows)
  IN [figure \in DOMAIN now |->
       Card(now[figure], IF previous = Nothing THEN Nothing ELSE [value |-> Before(previous, settlement)[figure]])]

(* The charges, without those of outbound pallets. *)
ChargeBars(summary) ==
  <<summary.amount["INBOUND"], summary.amount["WRAPPING"]>>
  \o (IF summary.discount > 0 THEN <<-summary.discount>> ELSE <<>>) \o <<summary.amount["STORAGE"]>>

(* What the banner offers to bill; the filter has no part in it.  It counts *)
(* the stays of a settlement, and adds up the lines they are billed by.    *)
CreateBanner(preview, settlement) ==
  IF settlement
  THEN [count |-> Len(preview.storage), amount |-> preview.summary.amount["STORAGE"]]
  ELSE [count |-> Len(preview.lines), amount |-> preview.summary.grandTotal]

(* The table of containers: each stay, or what each container costs.  Any   *)
(* container that has a number leads to its detail page.                   *)
ContainerTable(preview, settlement, filter) ==
  IF settlement
  THEN Each(LAMBDA r : [container |-> r.container, cells |-> <<r.tracked, r.palletDays, r.discount>>,
                        amount |-> r.amount], StorageShown(preview, filter))
  ELSE Each(LAMBDA r : [container |-> r.container, cells |-> <<r.inbound, r.wrapping, r.storage>>,
                        amount |-> r.total], ContainersShown(preview, filter))

SegmentTable(rows) ==
  Each(LAMBDA s : [container |-> s.container, start |-> s.segment.start, end |-> s.segment.end,
                   pallets |-> s.segment.pallets, days |-> s.segment.days,
                   palletDays |-> s.segment.palletDays, amount |-> s.segment.amount,
                   free |-> IF HasDiscount(rows) THEN s.segment.free ELSE 0,
                   gross |-> IF HasDiscount(rows) THEN s.segment.gross ELSE s.segment.amount,
                   discount |-> IF HasDiscount(rows) THEN s.segment.discount ELSE 0],
       SegmentRows(rows))

\* All the lines of the preview, whatever the filter.
LineTable(preview) ==
  Each(LAMBDA l : [type |-> l.type, container |-> l.container, quantity |-> l.quantity, amount |-> l.amount],
       preview.lines)

BalanceChart(preview) ==
  IF \E d \in DOMAIN preview.daily : preview.daily[d] > 0 THEN preview.daily ELSE [d \in {} |-> 0]

(* The rows below the sheet's table. *)
SheetSummary(preview, settlement, rows) ==
  IF settlement
  THEN <<Len(rows), TotalOf(LAMBDA r : r.tracked, rows), TotalOf(LAMBDA r : r.palletDays, rows)>>
       \o (IF HasDiscount(rows) THEN <<-TotalOf(LAMBDA r : r.discount, rows)>> ELSE <<>>)
       \o <<TotalOf(LAMBDA r : r.amount, rows)>>
  ELSE ChargeBars(preview.summary) \o <<preview.summary.grandTotal>>

DeskSheet(preview, settlement, filter) ==
  [rows |-> ExportRows([preview EXCEPT !.storage = StorageShown(preview, filter),
                                       !.lines = LinesShown(preview, filter)], settlement),
   summary |-> SheetSummary(preview, settlement, StorageShown(preview, filter))]

(* The PDF has the filtered stays, and all the lines of the preview. *)
DeskPdf(preview, settlement, filter) ==
  PreviewPdf([preview EXCEPT !.storage = StorageShown(preview, filter)], settlement)

-----------------------------------------------------------------------------
(* The editor of an invoice *)

(* Its lines as entered, with the grace discount in a column of its own     *)
(* when any line has one.                                                  *)
EditorLineTable(lines, totals) ==
  [rows |-> Each(LAMBDA l : [line |-> l.id, type |-> l.type, container |-> l.container,
                             discount |-> l.details.discount, amount |-> l.amount], lines),
   foot |-> <<totals.subtotal>> \o (IF totals.discountTotal = 0 THEN <<>> ELSE <<totals.discountTotal>>)
            \o <<totals.grandTotal>>]

(* The ledger on the page: a row for each statement; its foot is the total  *)
(* of the rows the invoice keeps, shown or not.                            *)
EditorLedger(invoice, statements) ==
  [rows |-> Each(LedgerCells, statements), foot |-> LedgerTotal(ContainerDetails(invoice)),
   reconciles |-> LedgerReconciles(invoice),
   mismatches |-> Each(LAMBDA s : s.container, Unreconciled(statements))]
===============================================================================
