------------------------------ MODULE StockPages ------------------------------
(***************************************************************************)
(* The pages and dialogs that correct or move stock without a receipt or a *)
(* shipment: adjustments, transfers of a container, of several and of a    *)
(* whole warehouse, and cycle counts, with the postings the server makes   *)
(* of them (adjustment_store.go, transfer_store.go, cycle_count_store.go). *)
(*                                                                         *)
(* A place is a pair of a warehouse and a section; what is chosen in the   *)
(* dialogs is rebuilt from the items whenever the items are loaded again.  *)
(* Pallets are never held back, so all of an item's pallets are available. *)
(***************************************************************************)
EXTENDS YardViews

NoPlace == <<None, None>>
NoLaunch == [container |-> All, source |-> <<>>]
NoContainerKey == <<>>
Temp == "TEMP"

(* Every warehouse has the default section, before its own. *)
SectionOptions(sections) == <<Temp>> \o SelectSeq(sections, LAMBDA s : s # Temp)

-----------------------------------------------------------------------------
(* Containers to choose from *)

ContainerKey(b) == <<Buckets[b].customer, Buckets[b].location, Buckets[b].container>>

AdjustableContainers(items) ==
  [k \in {ContainerKey(b) : b \in DOMAIN items} |-> {b \in DOMAIN items : ContainerKey(b) = k}]

TransferableContainers(items) ==
  Restrict(AdjustableContainers(items),
           {ContainerKey(b) : b \in {b \in DOMAIN items : \E c \in DOMAIN items :
              ContainerKey(c) = ContainerKey(b) /\ (AvailableOn(items, {c}) > 0 \/ items[c].pallets > 0)}})

IsFree(b, items) == AvailableOn(items, {b}) = items[b].quantity
EntireTransferable(items, set) == set # {} /\ \A b \in set : IsFree(b, items)

(* A launch names a container, a SKU, or both; it is followed if only one *)
(* container answers to it.                                                *)
InitialContainer(options, launch) ==
  LET matches == {k \in DOMAIN options :
                   /\ launch # NoLaunch
                   /\ Is(launch.container, k[3])
                   /\ launch.source = <<>> \/ \E b \in options[k] : ActionSource(b) = launch.source}
  IN IF Cardinality(matches) = 1 THEN CHOOSE k \in matches : TRUE ELSE NoContainerKey

Members(options, key) == IF key \in DOMAIN options THEN options[key] ELSE {}

-----------------------------------------------------------------------------
(* Adjusting a container *)

NoChange == [quantity |-> 0, pallets |-> 0]
Unchanged(set) == [b \in set |-> NoChange]
IsChanged(line) == line # NoChange

(* Opened, and again whenever the items change: nothing typed is kept. *)
AdjustmentDialog(items, launch) ==
  LET options == AdjustableContainers(items)
      key == InitialContainer(options, launch)
  IN [launch |-> launch, container |-> key, mode |-> "FINAL", reason |-> FALSE,
      lines |-> Unchanged(Members(options, key)), submitting |-> FALSE, failed |-> FALSE]

ChooseAdjusted(dialog, items, key) ==
  [dialog EXCEPT !.container = key, !.lines = Unchanged(Members(AdjustableContainers(items), key)), !.failed = FALSE]

(* What is typed is kept as a change, whichever way it was typed. *)
TypeAdjustment(dialog, items, b, quantity) ==
  [dialog EXCEPT !.lines[b].quantity = IF dialog.mode = "FINAL" THEN quantity - items[b].quantity ELSE quantity]

ChangedLines(dialog) == {b \in DOMAIN dialog.lines : IsChanged(dialog.lines[b])}
BelowFloor(dialog, items) ==
  {b \in DOMAIN dialog.lines \cap DOMAIN items :
    items[b].quantity + dialog.lines[b].quantity < items[b].allocated + items[b].damaged + items[b].hold
    \/ items[b].pallets + dialog.lines[b].pallets < 0}

AdjustmentReady(dialog, items) ==
  /\ dialog.container \in DOMAIN AdjustableContainers(items)
  /\ dialog.reason /\ ChangedLines(dialog) # {} /\ BelowFloor(dialog, items) = {} /\ ~dialog.submitting

(* Either the balances that are to be left, or the changes. *)
AdjustmentPayload(dialog, items) ==
  [b \in ChangedLines(dialog) \cap DOMAIN items |->
    [final |-> dialog.mode = "FINAL",
     quantity |-> dialog.lines[b].quantity + (IF dialog.mode = "FINAL" THEN items[b].quantity ELSE 0),
     pallets |-> dialog.lines[b].pallets + (IF dialog.mode = "FINAL" THEN items[b].pallets ELSE 0)]]

AdjustmentView(dialog, items) ==
  LET options == AdjustableContainers(items)
  IN [options |-> DOMAIN options,
      rows |-> {[bucket |-> b, before |-> items[b].quantity, after |-> items[b].quantity + dialog.lines[b].quantity,
                 minimum |-> items[b].allocated + items[b].damaged + items[b].hold,
                 invalid |-> b \in BelowFloor(dialog, items)] : b \in DOMAIN dialog.lines \cap DOMAIN items},
      change |-> Total(LAMBDA b : dialog.lines[b].quantity, DOMAIN dialog.lines),
      ready |-> AdjustmentReady(dialog, items)]

-----------------------------------------------------------------------------
(* Transferring a container *)

TransferLine(items, b, mode) ==
  [quantity |-> IF mode = "ENTIRE" THEN items[b].quantity ELSE 0,
   pallets |-> IF mode = "ENTIRE" THEN items[b].pallets ELSE 0,
   arriving |-> IF mode = "ENTIRE" THEN items[b].pallets ELSE 0]

TransferLines(items, set, mode) == [b \in set |-> TransferLine(items, b, mode)]

(* As with adjustments: opened, and again whenever the items change. *)
TransferDialog(items, launch) ==
  LET options == TransferableContainers(items)
      key == InitialContainer(options, launch)
  IN [launch |-> launch, container |-> key, mode |-> None, to |-> NoPlace, reset |-> FALSE,
      lines |-> TransferLines(items, Members(options, key), None), submitting |-> FALSE, failed |-> FALSE]

ChooseTransferred(dialog, items, key) ==
  [dialog EXCEPT !.container = key, !.mode = None, !.reset = FALSE, !.to = NoPlace,
                 !.lines = TransferLines(items, Members(TransferableContainers(items), key), None)]

SetTransferMode(dialog, items, mode) ==
  IF dialog.container = NoContainerKey \/ (mode = "ENTIRE" /\ ~EntireTransferable(items, DOMAIN dialog.lines))
  THEN dialog
  ELSE [dialog EXCEPT !.mode = mode, !.lines = TransferLines(items, DOMAIN @, mode)]

IsActive(line) == line.quantity > 0 \/ line.pallets > 0 \/ line.arriving > 0
ActiveTransfers(dialog) == {b \in DOMAIN dialog.lines : IsActive(dialog.lines[b])}
TransferSources(dialog) ==
  IF ActiveTransfers(dialog) # {} THEN ActiveTransfers(dialog) ELSE DOMAIN dialog.lines

(* In their own warehouse, the sections that the sources do not stand in. *)
DestinationSections(dialog, warehouses, to) ==
  LET from == TransferSources(dialog)
  IN SelectSeq(SectionOptions(warehouses[to].sections), LAMBDA s :
       ~\E b \in from : Buckets[b].location = to /\ Buckets[b].section = s)

SetDestination(dialog, warehouses, to) ==
  LET sections == DestinationSections(dialog, warehouses, to)
  IN [dialog EXCEPT !.reset = FALSE, !.to = IF sections = <<>> THEN <<to, None>> ELSE <<to, Head(sections)>>]

SetDestinationSection(dialog, section) == [dialog EXCEPT !.reset = FALSE, !.to[2] = section]

SamePlace(dialog) ==
  \E b \in ActiveTransfers(dialog) : <<Buckets[b].location, Buckets[b].section>> = dialog.to

(* A line that stands where the rest is to go takes the destination away. *)
TransferEffects(dialog) ==
  IF SamePlace(dialog) THEN [dialog EXCEPT !.to = NoPlace, !.reset = TRUE] ELSE dialog

TypeTransfer(dialog, b, quantity) == TransferEffects([dialog EXCEPT !.lines[b].quantity = Positive(quantity)])

OverAvailable(dialog, items) ==
  {b \in DOMAIN dialog.lines \cap DOMAIN items :
    dialog.lines[b].quantity > AvailableOn(items, {b}) \/ dialog.lines[b].pallets > items[b].pallets}

TransferIncomplete(dialog, items) ==
  \/ dialog.container \notin DOMAIN TransferableContainers(items) \/ dialog.mode = None
  \/ dialog.mode = "ENTIRE" /\ ~EntireTransferable(items, DOMAIN dialog.lines)
  \/ ActiveTransfers(dialog) = {}
  \/ None \in ToSet(dialog.to)

TransferReady(dialog, items) ==
  /\ ~dialog.submitting /\ OverAvailable(dialog, items) = {}
  /\ ~TransferIncomplete(dialog, items) /\ ~SamePlace(dialog)

(* All of a container is sent by its name, parts of it line by line. *)
TransferPayload(dialog, items) ==
  IF dialog.mode = "ENTIRE" THEN [entire |-> dialog.container, to |-> dialog.to, lines |-> <<>>]
  ELSE [entire |-> NoContainerKey, to |-> dialog.to,
        lines |-> Restrict(dialog.lines, ActiveTransfers(dialog) \cap DOMAIN items)]

TransferDialogView(dialog, items, warehouses) ==
  LET Overall(field) == Total(LAMBDA b : dialog.lines[b][field], ActiveTransfers(dialog))
  IN [options |-> DOMAIN TransferableContainers(items),
      entire |-> EntireTransferable(items, DOMAIN dialog.lines),
      warehouses |-> {w \in DOMAIN warehouses : DestinationSections(dialog, warehouses, w) # <<>>},
      quantity |-> Overall("quantity"), pallets |-> Overall("pallets"), arriving |-> Overall("arriving"),
      rows |-> {[bucket |-> b, available |-> AvailableOn(items, {b}), over |-> b \in OverAvailable(dialog, items)] :
                  b \in DOMAIN dialog.lines \cap DOMAIN items},
      ready |-> TransferReady(dialog, items)]

-----------------------------------------------------------------------------
(* Transferring several containers, or a warehouse *)

Preferred == "308"

(* The rows are kept as they were when the dialog was opened; the rest of   *)
(* the form starts again whenever the warehouses are loaded.               *)
BulkForm(warehouses) ==
  [to |-> IF Preferred \in DOMAIN warehouses THEN <<Preferred, Temp>> ELSE NoPlace,
   submitting |-> FALSE, failed |-> FALSE]
OpenBulk(rows, items, warehouses) == BulkForm(warehouses) @@ [rows |-> rows, frozen |-> items]
SetBulkDestination(bulk, to) == [bulk EXCEPT !.to = IF to = None THEN NoPlace ELSE <<to, Temp>>]

BulkPlan(bulk) == TransferPlan(bulk.rows, bulk.to, bulk.frozen)
BulkReady(bulk, plan) ==
  bulk.to # NoPlace /\ plan.containers # {} /\ plan.blocked = {} /\ ~bulk.submitting
BulkPayload(plan, to) == [entire |-> NoContainerKey, to |-> to, lines |-> plan.lines]

NoWarehouse == [from |-> None, to |-> None, submitting |-> FALSE, failed |-> FALSE]
StockOf(items, warehouse) ==
  {b \in DOMAIN items : IsStocked(b, items) /\ Buckets[b].location = warehouse}
BlockedItems(items, set) == {b \in set : ~IsFree(b, items)}
ChangeSource(form, from) == [form EXCEPT !.from = from, !.to = IF from = form.to THEN None ELSE form.to]
WarehouseReady(form, items) ==
  /\ form.from # None /\ form.to # None /\ form.from # form.to /\ ~form.submitting
  /\ StockOf(items, form.from) # {} /\ BlockedItems(items, StockOf(items, form.from)) = {}
WarehouseView(form, items, warehouses) ==
  LET set == StockOf(items, form.from)
  IN [sources |-> {w \in DOMAIN warehouses : StockOf(items, w) # {}}, blocked |-> BlockedItems(items, set),
      containers |-> Cardinality({Identity(b) : b \in set}), lines |-> Cardinality(set),
      quantity |-> OnHand(items, set), pallets |-> PalletsOn(items, set), ready |-> WarehouseReady(form, items)]

-----------------------------------------------------------------------------
(* Counting *)

CountLine(id, b) == [id |-> id, bucket |-> b, quantity |-> 0, pallets |-> 0]
CountOf(line, b, items) == [line EXCEPT !.bucket = b, !.quantity = items[b].quantity, !.pallets = items[b].pallets]

CountSource(items, source) == {b \in DOMAIN items : ActionSource(b) = source}

(* A line whose item is gone falls back to the only one there is, or to none. *)
CountEffects(count, items) ==
  LET here == CountSource(items, count.source)
      Kept(line) == IF line.bucket \in here THEN line
                    ELSE IF Cardinality(here) = 1 THEN CountOf(line, CHOOSE b \in here : TRUE, items)
                    ELSE CountLine(line.id, NoBucket)
  IN [count EXCEPT !.lines = [i \in DOMAIN @ |-> Kept(@[i])]]

NoCount == [source |-> <<>>, lines |-> <<CountLine(1, NoBucket)>>, submitting |-> FALSE, failed |-> FALSE]

(* The item of the container that was asked for, or the only one. *)
OpenCount(items, launch) ==
  LET here == CountSource(items, launch.source)
      named == {b \in here : Buckets[b].container = launch.container}
      item == IF named # {} THEN CHOOSE b \in named : TRUE
              ELSE IF Cardinality(here) = 1 THEN CHOOSE b \in here : TRUE ELSE NoBucket
  IN [NoCount EXCEPT !.source = launch.source,
                     !.lines = <<IF item = NoBucket THEN @[1] ELSE CountOf(@[1], item, items)>>]

SetCountSource(count, items, source) == CountEffects([count EXCEPT !.source = source], items)
AddCountLine(count) == [count EXCEPT !.lines = Append(@, CountLine(1 + Max({l.id : l \in ToSet(@)}), NoBucket))]
RemoveCountLine(count, i) == [count EXCEPT !.lines = IF Len(@) = 1 THEN @ ELSE RemoveAt(@, i)]
ChooseCounted(count, items, i, b) == [count EXCEPT !.lines[i] = CountOf(@, b, items)]
TypeCount(count, i, quantity) ==
  IF count.lines[i].bucket = NoBucket THEN count ELSE [count EXCEPT !.lines[i].quantity = Positive(quantity)]

CountPayload(count, items) ==
  SelectSeq(count.lines, LAMBDA l : l.bucket \in CountSource(items, count.source))

CountRows(count, items) ==
  [i \in DOMAIN count.lines |->
    LET l == count.lines[i]
    IN IF l.bucket \notin CountSource(items, count.source) THEN [bucket |-> NoBucket, variance |-> 0]
       ELSE [bucket |-> l.bucket, variance |-> l.quantity - items[l.bucket].quantity]]

-----------------------------------------------------------------------------
(* The three pages and their lists *)

(* The dialog for a container, and the one for a whole warehouse. *)
FreshStockPage == [selected |-> 0, dialog |-> None, launched |-> FALSE, whole |-> None]

Postings(documents, types) ==
  {i \in Ids(documents) : documents[i].kind = "POST" /\ \E l \in ToSet(documents[i].lines) : l.type \in types}

PostingLines(document, types) == SelectSeq(document.lines, LAMBDA l : l.type \in types)

Routes(document) ==
  {<<Buckets[l.bucket].location, Buckets[m.bucket].location>> :
     l \in {l \in ToSet(document.lines) : l.type = "TRANSFER_OUT"},
     m \in {m \in ToSet(document.lines) : m.type = "TRANSFER_IN"}}

PostingTotals(document, types) ==
  [lines |-> Len(PostingLines(document, types)),
   quantity |-> SumOf(LAMBDA l : l.change, PostingLines(document, types)),
   pallets |-> SumOf(LAMBDA l : l.pallets, PostingLines(document, types))]

PostingStats(documents, posted, types) ==
  LET Overall(Of(_)) == Total(LAMBDA i : Of(PostingTotals(documents[i], types)), posted)
      Signed(P(_)) == Cardinality({i \in posted : P(PostingTotals(documents[i], types).quantity)})
  IN [rows |-> Cardinality(posted), lines |-> Overall(LAMBDA t : t.lines), quantity |-> Overall(LAMBDA t : t.quantity),
      pallets |-> Overall(LAMBDA t : t.pallets), up |-> Signed(LAMBDA n : n > 0), down |-> Signed(LAMBDA n : n < 0)]

TransferStats(documents) ==
  LET posted == Postings(documents, {"TRANSFER_IN"})
  IN PostingStats(documents, posted, {"TRANSFER_IN"})
       @@ [routes |-> Cardinality({Routes(documents[i]) : i \in posted})]
AdjustmentStats(documents) == PostingStats(documents, Postings(documents, {"ADJUST"}), {"ADJUST"})
CountStats(documents) == PostingStats(documents, Postings(documents, {"COUNT"}), {"COUNT"})

(* The drawer shows what was posted, until the list no longer has it. *)
KeptPosting(local, posted) == IF local.selected \in posted THEN local ELSE [local EXCEPT !.selected = 0]

PostingDrawer(document, types) ==
  PostingTotals(document, types) @@ [id |-> document.id, rows |-> PostingLines(document, types)]

-----------------------------------------------------------------------------
(* What the server posts *)

Posting(id, date, lines) ==
  [id |-> id, kind |-> "POST", status |-> "CONFIRMED", tracking |-> None, container |-> NoContainer,
   customer |-> All, location |-> All, note |-> None, date |-> date, lines |-> lines]
PostedLine(b, type, change, pallets) == [bucket |-> b, type |-> type, change |-> change, pallets |-> pallets]

\* What a request is decoded to: whole numbers.
Whole(lines) == \A b \in DOMAIN lines : lines[b].quantity \in Int /\ lines[b].pallets \in Int

(* Where a bucket's cartons come to stand; a place that can take them is     *)
(* one of the buckets of the yard (bound).                                 *)
Standing(b, to) ==
  {c \in DOMAIN Buckets : /\ <<Buckets[c].location, Buckets[c].section>> = to
                          /\ Identity(c) = Identity(b) /\ Buckets[c].sku = Buckets[b].sku}
Arrival(b, to) == CHOOSE c \in Standing(b, to) : TRUE

(* Lines that move nothing, or less, are left out (sanitizeInventoryTransferInput). *)
Moving(lines) ==
  Restrict(lines, {b \in DOMAIN lines : /\ lines[b].quantity >= 0 /\ lines[b].pallets >= 0 /\ lines[b].arriving >= 0
                                        /\ IsActive(lines[b])})

(* All that the container holds when the server gets to it. *)
EntireLines(items, key) ==
  TransferLines(items, {b \in DOMAIN items : ContainerKey(b) = key /\ IsStocked(b, items)}, "ENTIRE")

TransferRefused(lines, to, items) ==
  \/ DOMAIN lines = {} \/ ~(DOMAIN lines \subseteq DOMAIN items)
  \/ \E b \in DOMAIN lines :
       \/ <<Buckets[b].location, Buckets[b].section>> = to \/ Standing(b, to) = {}
       \/ lines[b].quantity > AvailableOn(items, {b}) \/ lines[b].pallets > items[b].pallets

EntireRefused(lines, to, items) ==
  TransferRefused(lines, to, items) \/ \E b \in DOMAIN lines : ~IsFree(b, items)

(* In and out for every line; the order of the lines is left out. *)
TransferPosted(lines, to) ==
  LET order == SetToSeq(DOMAIN lines)
  IN Each(LAMBDA b : PostedLine(b, "TRANSFER_OUT", -lines[b].quantity, -lines[b].pallets), order)
       \o Each(LAMBDA b : PostedLine(Arrival(b, to), "TRANSFER_IN", lines[b].quantity, lines[b].arriving), order)

(* What changes nothing is not posted. *)
Effective(changes) ==
  {b \in DOMAIN changes : changes[b].quantity # 0 \/ changes[b].pallets # 0}
ChangesPosted(type, changes) ==
  Each(LAMBDA b : PostedLine(b, type, changes[b].quantity, changes[b].pallets), SetToSeq(Effective(changes)))

(* Slip: a final balance is taken to be what is available. *)
ChangeOfAvailable(lines, items) ==
  [b \in DOMAIN lines |->
    IF lines[b].final THEN [quantity |-> lines[b].quantity - AvailableOn(items, {b}),
                            pallets |-> lines[b].pallets - items[b].pallets]
    ELSE [quantity |-> lines[b].quantity, pallets |-> lines[b].pallets]]

AdjustmentChanges(lines, items) ==
  [b \in DOMAIN lines |->
    IF lines[b].final THEN [quantity |-> lines[b].quantity - items[b].quantity,
                            pallets |-> lines[b].pallets - items[b].pallets]
    ELSE [quantity |-> lines[b].quantity, pallets |-> lines[b].pallets]]

(* Slip: what is left is only compared with zero. *)
AdjustedBelowFloor(lines, items) ==
  \/ ~(DOMAIN lines \subseteq DOMAIN items) \/ Effective(AdjustmentChanges(lines, items)) = {}
  \/ \E b \in DOMAIN lines : items[b].quantity + AdjustmentChanges(lines, items)[b].quantity < 0
AdjustmentRefused(lines, items) ==
  \/ ~(DOMAIN lines \subseteq DOMAIN items) \/ ~Whole(lines)
  \/ \E b \in DOMAIN lines : lines[b].final /\ (lines[b].quantity < 0 \/ lines[b].pallets < 0)
  \/ Effective(AdjustmentChanges(lines, items)) = {}
  \/ \E b \in Effective(AdjustmentChanges(lines, items)) :
       LET item == items[b]
           change == AdjustmentChanges(lines, items)[b]
       IN item.quantity + change.quantity < item.allocated + item.damaged + item.hold
            \/ item.pallets + change.pallets < 0

(* The first line of an item is its count (sanitizeCycleCountInput). *)
Counts(lines) ==
  [b \in {lines[i].bucket : i \in DOMAIN lines} |->
    lines[CHOOSE i \in DOMAIN lines : lines[i].bucket = b /\ \A j \in 1..i - 1 : lines[j].bucket # b]]

(* A count is compared with the balance when the server gets to it. *)
CountRefused(counts, items) ==
  \/ DOMAIN counts = {} \/ ~(DOMAIN counts \subseteq DOMAIN items) \/ ~Whole(counts)
  \/ \E b \in DOMAIN counts :
       \/ counts[b].quantity < 0 \/ counts[b].pallets < 0
       \/ counts[b].quantity < items[b].allocated + items[b].damaged + items[b].hold

CountChanges(counts, items) ==
  [b \in DOMAIN counts |-> [quantity |-> counts[b].quantity - items[b].quantity,
                            pallets |-> counts[b].pallets - items[b].pallets]]
=============================================================================
