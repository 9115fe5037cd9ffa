---------------------------- MODULE DocumentLists ----------------------------
(***************************************************************************)
(* The two pages that list receipts and shipments, as operators over what  *)
(* they are given (ActivityManagementPage.tsx and                          *)
(* activityManagementHelpers.tsx): which documents are listed, the figures *)
(* above them, the composer that enters a receipt over another page, and   *)
(* the pick sheet of a draft.                                              *)
(***************************************************************************)
EXTENDS YardData

CONSTANTS Alike,    \* pairs of container numbers that look alike
          Descriptions  \* SKUs whose master record has a description

NoFilter == [customer |-> All, location |-> All, status |-> All, search |-> All]

-----------------------------------------------------------------------------
(* What is listed *)

MergeById(primary, extra) == primary @@ extra

Fields(document) ==
  {document.container, document.customer, document.location, document.status, document.note}
    \cup {l.sku : l \in ToSet(document.lines)}
    \cup UNION {{Buckets[a.bucket].container : a \in {a \in ToSet(l.allocations) : a.bucket # NoBucket}} :
                  l \in IF document.kind = "OUT" THEN ToSet(document.lines) ELSE {}}

InboundMatchesSearch(document, search) == search = All \/ search \in Fields(document)
OutboundMatchesSearch(document, search) == search = All \/ search \in Fields(document)

InboundRows(documents, filter) ==
  {i \in Ids(documents) :
    LET d == documents[i]
    IN /\ d.status \notin {"DELETED", "CANCELLED"}
       /\ InboundMatchesSearch(d, filter.search)
       /\ Is(filter.customer, d.customer) /\ Is(filter.location, d.location) /\ Is(filter.status, d.status)}

OutboundRows(documents, filter) ==
  {i \in Ids(documents) :
    LET d == documents[i]
    IN /\ OutboundMatchesSearch(d, filter.search)
       /\ Is(filter.customer, d.customer) /\ Is(filter.status, d.status)
       /\ \/ filter.location = All
          \/ \E l \in ToSet(d.lines) : l.location = filter.location}

Received(document) == SumOf(LAMBDA l : l.received, document.lines)
Shipped(document) == SumOf(LAMBDA l : l.quantity, document.lines)

OverviewStats(documents, rows, mode) ==
  LET Count(P(_)) == Cardinality({i \in rows : P(documents[i])})
  IN [rows |-> Cardinality(rows),
      drafts |-> Count(IsDraft),
      quantity |-> Total(LAMBDA i : IF mode = "IN" THEN Received(documents[i]) ELSE Shipped(documents[i]), rows),
      last |-> IF mode = "IN" THEN Count(LAMBDA d : d.status = "CONFIRMED")
               ELSE Count(LAMBDA d : d.tracking = "PACKED")]

ExportRows(documents, rows) ==
  {[id |-> i, container |-> documents[i].container, customer |-> documents[i].customer,
    lines |-> Len(documents[i].lines), status |-> documents[i].status] : i \in rows}

Selectable(document, mode) ==
  IF mode = "IN" THEN document.status \in {"DRAFT", "CONFIRMED"} ELSE document.status # "DELETED"

(* The box in the header takes or drops the page; nothing beyond the limit. *)
ToggleRows(selection, rows, maximum) ==
  IF rows # {} /\ rows \subseteq selection THEN selection \ rows
  ELSE IF Cardinality(selection \cup rows) > maximum THEN selection ELSE selection \cup rows

Chosen(documents, selection) == {i \in selection : i \in Ids(documents)}

CanConfirmAll(documents, chosen) == chosen # {} /\ \A i \in chosen : IsDraft(documents[i])

AllocationRows(document) ==
  FoldLeft(LAMBDA acc, l : acc \o [j \in DOMAIN l.allocations |->
             [line |-> l.id, bucket |-> l.allocations[j].bucket, allocated |-> l.allocations[j].allocated,
              pallets |-> Positive(l.allocations[j].used)]], <<>>, document.lines)

PickSummary(document) ==
  [containers |-> Cardinality({a.bucket : a \in ToSet(AllocationRows(document))}),
   rows |-> Len(AllocationRows(document)),
   split |-> Cardinality({l \in ToSet(document.lines) :
                            Cardinality({a.bucket : a \in ToSet(l.allocations)}) > 1})]

-----------------------------------------------------------------------------
(* The pick sheet of a draft *)

RequiresPick(line) == Positive(line.quantity) > 0

(* Lines one after the other, each from the oldest container that has some. *)
PlannedPicks(lines, sources) ==
  LET Row(line, c, pick) ==
        [line |-> line.id, bucket |-> c.bucket, location |-> c.location, allocated |-> pick.quantity,
         pallets |-> pick.pallets, startingQty |-> 0, startingPallets |-> pick.starting,
         remaining |-> pick.remaining]
      Next(acc, line) ==
        IF line.source \notin DOMAIN sources \/ Fulfillment(line) = 0 THEN acc
        ELSE LET source == sources[line.source]
                 picks == AutoSelections(Fulfillment(line), source.candidates, acc.reserved)
                 taken == SelectSeq(source.candidates, LAMBDA c : c.id \in DOMAIN picks)
             IN [rows |-> acc.rows \o [j \in DOMAIN taken |->
                            [Row(line, taken[j], picks[taken[j].id]) EXCEPT
                               !.startingQty = Left(taken[j], acc.reserved).onHand]],
                 reserved |-> Reserve(acc.reserved, picks)]
  IN FoldLeft(Next, [rows |-> <<>>, reserved |-> NoPicks], lines).rows

PreviewAllocations(rows) ==
  [i \in DOMAIN rows |->
    LET left == RemainingPallets(rows[i].allocated, rows[i].startingQty, rows[i].startingPallets)
    IN [bucket |-> rows[i].bucket, allocated |-> rows[i].allocated,
        pallets |-> Positive(rows[i].startingPallets - left), used |-> Positive(rows[i].pallets),
        starting |-> Positive(rows[i].startingPallets), remaining |-> Positive(left)]]

NeedsPicks(document) ==
  IsDraft(document) /\ \E l \in ToSet(document.lines) : RequiresPick(l) /\ l.allocations = <<>>

(* Lines that already name their buckets keep them; the rest are planned. *)
PickSheet(document, sources) ==
  IF ~NeedsPicks(document) THEN document
  ELSE LET rows == PlannedPicks(document.lines, sources)
           Filled(l) == IF ~RequiresPick(l) \/ l.allocations # <<>> THEN l
                        ELSE [l EXCEPT !.allocations =
                               PreviewAllocations(SelectSeq(rows, LAMBDA r : r.line = l.id))]
       IN [document EXCEPT !.lines = [i \in DOMAIN @ |-> Filled(@[i])]]

(* A sheet is refused while a line that must be picked names no bucket. *)
SheetRefused(document, sheet) ==
  /\ NeedsPicks(document)
  /\ \E i \in DOMAIN sheet.lines : RequiresPick(sheet.lines[i]) /\ sheet.lines[i].allocations = <<>>

-----------------------------------------------------------------------------
(* Entering a receipt *)

NewLine(id) == [id |-> id, sku |-> None, described |-> FALSE, expected |-> 0, received |-> 0, pallets |-> 0, per |-> 0]

IsEntered(line) == line.sku # None /\ (line.received > 0 \/ line.expected > 0)
EnteredLines(lines) == SelectSeq(lines, IsEntered)

Variance(line) ==
  IF line.expected <= 0 \/ line.received = line.expected THEN "MATCHED"
  ELSE IF line.received > line.expected THEN "OVER" ELSE "SHORT"

VarianceLines(lines, variance) == Len(SelectSeq(lines, LAMBDA l : Variance(l) = variance))

WizardSummary(lines) ==
  [lines |-> Len(lines),
   expected |-> SumOf(LAMBDA l : l.expected, lines), received |-> SumOf(LAMBDA l : l.received, lines),
   pallets |-> SumOf(LAMBDA l : l.pallets, lines), matched |-> VarianceLines(lines, "MATCHED"),
   short |-> VarianceLines(lines, "SHORT"), over |-> VarianceLines(lines, "OVER")]

(* Other standing receipts of the container; look-alikes only if there are none. *)
ContainerWarnings(container, documents, editing) ==
  LET others == {i \in Ids(documents) \ {editing} :
                   documents[i].status # "DELETED" /\ documents[i].container # NoContainer}
      exact == {i \in others : documents[i].container = container}
  IN IF container = NoContainer THEN {}
     ELSE IF exact # {} THEN exact
     ELSE {i \in others : {documents[i].container, container} \in Alike}

HeaderError(form) == form.customer = None \/ form.location = None

(* A SKU is described by the line, by an item in stock or by its master. *)
Described(line, items) ==
  line.described \/ line.sku \in Descriptions \/ \E b \in DOMAIN items : items[b].sku = line.sku

LinesError(form, items) ==
  \/ HeaderError(form)
  \/ EnteredLines(form.lines) = <<>>
  \/ \E l \in ToSet(EnteredLines(form.lines)) : ~Described(l, items)

(* A sealed container stays a draft, without pallets. *)
ReceiptPayload(form, status, tracking) ==
  LET sealed == form.handling = "SEALED_TRANSIT"
      kept == IF sealed THEN "DRAFT" ELSE status
      lines == EnteredLines(form.lines)
  IN [kind |-> "IN", status |-> kept, handling |-> form.handling,
      tracking |-> IF kept = "DRAFT" THEN tracking ELSE "RECEIVED",
      container |-> form.container, customer |-> form.customer, location |-> form.location,
      note |-> form.note, date |-> form.date,
      lines |-> [i \in DOMAIN lines |->
                  [id |-> i, sku |-> lines[i].sku, expected |-> lines[i].expected, received |-> lines[i].received,
                   pallets |-> IF sealed THEN 0 ELSE lines[i].pallets,
                   per |-> IF sealed THEN 0 ELSE lines[i].per]]]
=============================================================================
