-------------------------- MODULE InvoiceStatements --------------------------
(***************************************************************************)
(* What the pages and the exported documents say of an invoice: the ledger *)
(* of its containers (lib/billingContainerLedger.ts), the statement of     *)
(* each container (billingContainerStatement.ts), the invoice of one       *)
(* container (billingContainerInvoice.ts), the archive of all of them      *)
(* (billingContainerZip.ts) and the PDF (billingInvoicePdf.ts).  Pure      *)
(* operators, no state.                                                    *)
(*                                                                         *)
(* Amounts are integers of the smallest unit, so rounding them is the      *)
(* identity.  Days are numbers.  Containers are numbered in the order of   *)
(* their names, after the pages have trimmed them and put them in capitals; *)
(* InvoiceLevel is a line without a container, which every page puts last. *)
(***************************************************************************)
EXTENDS Integers, Sequences, SequencesExt, FiniteSetsExt, Lists

InvoiceLevel == 1000
NoDate == 0

Larger(a, b) == IF a >= b THEN a ELSE b
Magnitude(n) == IF n < 0 THEN -n ELSE n
Count(Test(_), seq) == Len(SelectSeq(seq, Test))
Each(Op(_), seq) == <<>> \o [i \in DOMAIN seq |-> Op(seq[i])]
TotalOf(Op(_), seq) == Summed(Each(Op, seq))

(* The keys of a map, sorted. *)
PutOnce(sorted, n) ==
  IF \E i \in DOMAIN sorted : sorted[i] = n THEN sorted
  ELSE PutAfter(sorted, Cardinality({i \in DOMAIN sorted : sorted[i] < n}), n)

OrderedOnce(numbers) == Accumulate(PutOnce, <<>>, numbers)

(* What a line of storage records of the container's stay.  Lines written  *)
(* before movements were recorded have no opening, closing and releases.   *)
NoDetails ==
  [summary |-> FALSE, moves |-> FALSE, opening |-> 0, closing |-> 0, releases |-> <<>>,
   received |-> NoDate, tracked |-> 0, palletDays |-> 0, free |-> 0, billable |-> 0,
   gross |-> 0, discount |-> 0, segments |-> <<>>]

-----------------------------------------------------------------------------
(* The ledger: one row for each container, with what each service costs *)

Services == {"INBOUND", "WRAPPING", "STORAGE", "OUTBOUND"}

LedgerRow(lines, container) ==
  LET mine == SelectSeq(lines, LAMBDA l : l.container = container)
      Of(type) == SelectSeq(mine, LAMBDA l : l.type = type)
      storage == Of("STORAGE")
      Days(l) == IF l.details.summary THEN l.details.palletDays ELSE l.quantity
      Billable(l) == IF l.details.summary THEN l.details.billable ELSE l.quantity
      Gross(l) == IF l.details.summary THEN l.details.gross ELSE l.amount
  IN [container |-> container,
      units |-> [type \in Services |-> TotalOf(LAMBDA l : l.quantity, Of(type))],
      amount |-> [type \in Services |-> TotalOf(LAMBDA l : l.amount, Of(type))],
      adjustment |-> TotalOf(LAMBDA l : l.amount,
                             SelectSeq(mine, LAMBDA l : l.type \notin Services)),
      tracked |-> FoldLeft(LAMBDA n, l : Larger(n, l.details.tracked), 0, storage),
      palletDays |-> TotalOf(Days, storage), free |-> TotalOf(LAMBDA l : l.details.free, storage),
      billable |-> TotalOf(Billable, storage), gross |-> TotalOf(Gross, storage),
      discount |-> TotalOf(LAMBDA l : l.details.discount, storage),
      total |-> TotalOf(LAMBDA l : l.amount, mine), lineCount |-> Len(mine)]

LedgerRows(lines) ==
  Each(LAMBDA c : LedgerRow(lines, c), OrderedOnce(Each(LAMBDA l : l.container, lines)))

RowInPlace(sorted, row) ==
  PutAfter(sorted, Cardinality({i \in DOMAIN sorted : sorted[i].container <= row.container}), row)

RowsInPlace(rows) == Accumulate(RowInPlace, <<>>, rows)

(* The lines of a draft still change; once finalized, its snapshot stands. *)
ContainerDetails(invoice) ==
  IF invoice.status # "DRAFT" /\ invoice.snapshot # <<>>
  THEN RowsInPlace(invoice.snapshot)
  ELSE LedgerRows(invoice.lines)

LedgerTotal(rows) == TotalOf(LAMBDA r : r.total, rows)

-----------------------------------------------------------------------------
(* The statement of a container: its ledger row and its pallets' movements *)

(* The balance of each day that a segment covers. *)
DailyBalances(segments) ==
  [d \in UNION {s.start..s.end : s \in ToSet(segments)} |->
    (CHOOSE s \in ToSet(segments) : s.start <= d /\ d <= s.end).pallets]

On(balances, day) == IF day \in DOMAIN balances THEN balances[day] ELSE 0
BalanceOn(segments, day) == On(DailyBalances(segments), day)

(* Without recorded movements, every fall of the balance is a release. *)
DerivedReleases(balances, start, end) ==
  Each(LAMBDA d : [day |-> d, pallets |-> On(balances, d - 1) - On(balances, d)],
       SetToSortSeq({d \in (start + 1)..end : On(balances, d) < On(balances, d - 1)}, <))

DerivedMovements(balances, start, end) ==
  [opening |-> On(balances, start), closing |-> On(balances, end),
   releases |-> DerivedReleases(balances, start, end)]

Movements(details, start, end) ==
  IF details.moves
  THEN [opening |-> details.opening, closing |-> details.closing, releases |-> details.releases]
  ELSE DerivedMovements(DailyBalances(details.segments), start, end)

(* The last line of storage that records the container's stay. *)
StorageSources(invoice, container) ==
  Only(invoice.lines, {l \in ToSet(invoice.lines) : l.container = container /\ l.details.summary})

InboundDate(invoice, container) ==
  LET days == {l.day : l \in {x \in ToSet(invoice.lines) :
                 x.container = container /\ x.type = "INBOUND" /\ x.day # NoDate}}
  IN IF days = {} THEN NoDate ELSE Min(days)

FirstDate(a, b, c) == IF a # NoDate THEN a ELSE IF b # NoDate THEN b ELSE c

StayDetailsOf(sources) == IF sources = <<>> THEN NoDetails ELSE Last(sources).details

StatementOf(invoice, row, details, movements, segments, released) ==
  LET received == movements.closing + released - movements.opening
  IN [row |-> row, container |-> row.container,
      receivedOn |-> FirstDate(details.received, InboundDate(invoice, row.container),
                               IF segments = <<>> THEN NoDate ELSE segments[1].start),
      available |-> details.summary, opening |-> movements.opening, closing |-> movements.closing,
      releases |-> movements.releases, released |-> released,
      received |-> IF details.summary THEN received ELSE 0,
      reconciles |-> ~details.summary \/ received >= 0,
      segments |-> segments, other |-> row.total - row.amount["STORAGE"]]

StatementFrom(invoice, row, details, movements) ==
  StatementOf(invoice, row, details, movements,
              SortSeq(details.segments, LAMBDA l, r : l.start < r.start),
              TotalOf(LAMBDA e : e.pallets, movements.releases))

StatementWith(invoice, row, details) ==
  StatementFrom(invoice, row, details, Movements(details, invoice.start, invoice.end))

Statement(invoice, row) ==
  StatementWith(invoice, row,
    IF row.container = InvoiceLevel THEN NoDetails
    ELSE StayDetailsOf(StorageSources(invoice, row.container)))

(* A container that owes nothing and moved nothing has no statement. *)
HasImpact(s) ==
  \/ \E type \in Services : s.row.amount[type] # 0 \/ (type # "STORAGE" /\ s.row.units[type] # 0)
  \/ \E n \in {s.row.tracked, s.row.palletDays, s.row.free, s.row.billable, s.row.gross,
               s.row.discount, s.row.adjustment, s.row.total,
               s.opening, s.received, s.closing, s.released} : n # 0
  \/ s.releases # <<>> \/ s.segments # <<>>

Statements(invoice) ==
  LET all == Each(LAMBDA row : Statement(invoice, row), ContainerDetails(invoice))
  IN Only(all, {s \in ToSet(all) : HasImpact(s)})

Unreconciled(statements) ==
  SelectSeq(statements, LAMBDA s : s.container # InvoiceLevel /\ ~s.reconciles)

(* The rows of the storage sheet: the container's segments and releases by *)
(* date, the totals of the container on its last row.                      *)
NoSegment == [start |-> NoDate, end |-> NoDate, pallets |-> 0, days |-> 0, palletDays |-> 0,
              free |-> 0, billable |-> 0, gross |-> 0, discount |-> 0, amount |-> 0]

DatedRow(s, starts, dates, i) ==
  LET first == i = 1
      last == i = Len(dates)
      begins == dates[i] \in starts
      segment == IF begins THEN CHOOSE g \in ToSet(s.segments) : g.start = dates[i] ELSE NoSegment
      only == s.segments = <<>> /\ last
  IN [container |-> s.container, day |-> dates[i], segment |-> segment,
      released |-> TotalOf(LAMBDA e : e.pallets, SelectSeq(s.releases, LAMBDA e : e.day = dates[i])),
      fee |-> IF only THEN s.row.amount["STORAGE"] ELSE segment.amount,
      gross |-> IF only THEN s.row.gross ELSE segment.gross,
      opening |-> IF first THEN s.opening ELSE 0, received |-> IF first THEN s.received ELSE 0,
      closing |-> IF last THEN s.closing ELSE 0, other |-> IF last THEN s.other ELSE 0,
      total |-> IF last THEN s.row.total ELSE 0]

DatesOf(invoice, days) == IF days = {} THEN <<invoice.start>> ELSE SetToSortSeq(days, <)

RowsOn(s, starts, dates) == <<>> \o [i \in DOMAIN dates |-> DatedRow(s, starts, dates, i)]

DatedRows(invoice, s) ==
  LET starts == {g.start : g \in ToSet(s.segments)}
  IN RowsOn(s, starts, DatesOf(invoice, starts \cup {e.day : e \in ToSet(s.releases)}))

HasStorage(s) ==
  \/ s.segments # <<>> \/ s.releases # <<>> \/ s.row.amount["STORAGE"] # 0
  \/ s.opening # 0 \/ s.closing # 0

StatementRows(invoice, statements) ==
  FlattenSeq(Each(LAMBDA s : DatedRows(invoice, s), SelectSeq(statements, HasStorage)))
=============================================================================
