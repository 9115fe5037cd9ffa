------------------------------ MODULE YardViews ------------------------------
(***************************************************************************)
(* What the inventory pages show of the items and the ledger they are      *)
(* given, as operators: the containers and their contents                  *)
(* (containerInventory.ts), the balances per container                     *)
(* (containerBalances.ts), the summary per SKU with its breakdowns         *)
(* (InventorySummaryPage.tsx), and the plan of a bulk transfer             *)
(* (BulkContainerTransferDialog.tsx).                                      *)
(*                                                                         *)
(* Items are a function of buckets.  A text that is searched for is one of *)
(* the words a row shows; the order of rows is left out.                   *)
(***************************************************************************)
EXTENDS DocumentLists

OnHand(items, set) == Total(LAMBDA b : items[b].quantity, set)
AvailableOn(items, set) ==
  Total(LAMBDA b : items[b].quantity - items[b].allocated - items[b].damaged - items[b].hold, set)
PalletsOn(items, set) == Total(LAMBDA b : Positive(items[b].pallets), set)

(* A date that is not known is 0. *)
Earliest(dates) == IF dates \ {0} = {} THEN 0 ELSE Min(dates \ {0})
Latest(dates) == Max(dates \cup {0})

-----------------------------------------------------------------------------
(* Containers *)

Identity(b) == <<Buckets[b].customer, Buckets[b].container>>
Words(b) == {Buckets[b].container, Buckets[b].sku, Buckets[b].customer, Buckets[b].location, Buckets[b].section}

MatchesContainerSearch(search, buckets) == search = All \/ \E b \in buckets : search \in Words(b)

(* A container is received by its first receipt, or by a transfer if it has *)
(* none; it has left once no item of it is known, emptied items included. *)
MovementSummary(key, items, moves) ==
  LET Dates(types) == {m.date : m \in {m \in moves : m.type \in types}}
      ins == Dates({"IN"})
  IN [buckets |-> {m.bucket : m \in moves},
      received |-> Earliest(IF ins # {} THEN ins ELSE Dates({"TRANSFER_IN"})),
      origin |-> {Buckets[m.bucket].location : m \in {m \in moves : m.type = "IN" /\ m.date = Earliest(ins)}},
      shipped |-> IF \E b \in DOMAIN items : Identity(b) = key THEN 0
                  ELSE Latest(Dates({"OUT", "TRANSFER_OUT"}))]

MovementSummaries(items, movements) ==
  [key \in {Identity(m.bucket) : m \in movements} |->
    MovementSummary(key, items, {m \in movements : Identity(m.bucket) = key})]

(* The row of a container with the items in scope, or of one that is gone. *)
ContentsRow(key, here, items, summary) ==
  LET known == IF here # {} THEN here ELSE summary.buckets
  IN [key |-> key, items |-> here, origin |-> summary.origin,
      warehouses |-> {Buckets[b].location : b \in here},
      locations |-> {Buckets[b].location : b \in known},
      skus |-> {Buckets[b].sku : b \in known},
      onHand |-> OnHand(items, here), available |-> AvailableOn(items, here), pallets |-> PalletsOn(items, here),
      received |-> IF summary.received # 0 THEN summary.received
                   ELSE Earliest({items[b].arrival : b \in here}),
      shipped |-> summary.shipped]

NoSummary == [buckets |-> {}, received |-> 0, origin |-> {}, shipped |-> 0]

InScope(b, filter) == Is(filter.customer, Buckets[b].customer) /\ Is(filter.location, Buckets[b].location)

SummaryInScope(summary, filter) ==
  \E b \in summary.buckets : InScope(b, filter)

(* The search picks containers; it never trims what a container holds. *)
ContentsRowsWith(items, summaries, filter, scoped) ==
  LET historic == {k \in DOMAIN summaries : SummaryInScope(summaries[k], filter)
                                            /\ MatchesContainerSearch(filter.search, summaries[k].buckets)}
      found == historic \cup {Identity(b) : b \in {b \in scoped : MatchesContainerSearch(filter.search, {b})}}
      current == {Identity(b) : b \in scoped} \cap found
      Summary(k) == IF k \in DOMAIN summaries THEN summaries[k] ELSE NoSummary
  IN {ContentsRow(k, {b \in scoped : k \in current /\ Identity(b) = k}, items, Summary(k)) :
        k \in current \cup historic}

ContainerContentsRows(items, movements, filter) ==
  ContentsRowsWith(items, MovementSummaries(items, movements), filter,
                   {b \in DOMAIN items : InScope(b, filter)})

AllContainerContentsRows(items, movements) == ContainerContentsRows(items, movements, NoFilter)

(* A card for each customer and SKU of the items. *)
ContainerSkuCards(items, set) ==
  {LET same == {c \in set : Buckets[c].sku = Buckets[b].sku /\ Buckets[c].customer = Buckets[b].customer}
   IN [sku |-> Buckets[b].sku, customer |-> Buckets[b].customer, rows |-> Cardinality(same),
       storage |-> {<<Buckets[c].location, Buckets[c].section>> : c \in same},
       onHand |-> OnHand(items, same), available |-> AvailableOn(items, same)] : b \in set}

(* The rows of the spreadsheet: the items of a container, or the record of *)
(* one that is gone.                                                       *)
ContentsExport(rows, items) ==
  UNION {IF r.items = {} THEN {[key |-> r.key, bucket |-> NoBucket, skus |-> r.skus, onHand |-> 0, available |-> 0, pallets |-> 0]}
         ELSE {[key |-> r.key, bucket |-> b, skus |-> {Buckets[b].sku}, onHand |-> items[b].quantity,
                available |-> AvailableOn(items, {b}), pallets |-> items[b].pallets] : b \in r.items} :
           r \in rows}

-----------------------------------------------------------------------------
(* Balances *)

ItemSource(b) == <<Buckets[b].customer, Buckets[b].location, Buckets[b].sku>>

Balance(b, onHand, available) == [bucket |-> b, onHand |-> onHand, available |-> available]

CurrentBalances(items, set) ==
  {Balance(b, items[b].quantity, AvailableOn(items, {b})) : b \in set}

(* What the ledger says is left in each container of the source, oldest     *)
(* first, and which of it is available.                                    *)
LedgerBalances(net, since, available) ==
  LET left == {b \in DOMAIN net : net[b] > 0}
      Earlier(b) == {c \in left : since[c] < since[b] \/ (since[c] = since[b] /\ c < b)}
      Ahead(b) == Total(LAMBDA c : net[c], Earlier(b))
  IN {Balance(b, net[b], Min({net[b], Positive(Positive(available) - Ahead(b))})) : b \in left}

NetOf(movements, buckets) == [b \in buckets |-> Total(LAMBDA m : m.change, At(b, movements))]
SinceOf(movements, buckets) == [b \in buckets |-> Earliest({m.date : m \in At(b, movements)})]

LedgerOf(source, movements, available) ==
  LET buckets == {b \in {m.bucket : m \in movements} : ItemSource(b) = source}
  IN LedgerBalances(NetOf(movements, buckets), SinceOf(movements, buckets), available)

(* The items, unless they name one container and the ledger several. *)
ChosenBalances(current, ledger) ==
  IF Cardinality(ledger) <= 1 \/ Cardinality({b.bucket : b \in current}) > 1 THEN current ELSE ledger

SourceBalances(source, items, set, movements) ==
  ChosenBalances(CurrentBalances(items, set), LedgerOf(source, movements, AvailableOn(items, set)))

ItemContainerBalances(items, set, movements) ==
  UNION {SourceBalances(s, items, {b \in set : ItemSource(b) = s}, movements) : s \in {ItemSource(b) : b \in set}}

-----------------------------------------------------------------------------
(* The summary per customer and SKU *)

ActionSource(b) == <<Buckets[b].customer, Buckets[b].sku>>

ActionSourceOptions(items) ==
  {LET same == {c \in DOMAIN items : ActionSource(c) = ActionSource(b)}
   IN [key |-> ActionSource(b), items |-> same, onHand |-> OnHand(items, same),
       available |-> AvailableOn(items, same),
       warehouses |-> Cardinality({Buckets[c].location : c \in same}),
       containers |-> Cardinality({Buckets[c].container : c \in same})] : b \in DOMAIN items}

MatchesSummaryFilter(b, filter) ==
  /\ MatchesContainerSearch(filter.search, {b}) /\ InScope(b, filter)
  /\ Is(filter.type, Buckets[b].type)

SummaryRow(key, items, set, balances) ==
  [key |-> key, items |-> set, balances |-> balances,
   onHand |-> OnHand(items, set), available |-> AvailableOn(items, set), pallets |-> PalletsOn(items, set),
   warehouses |-> Cardinality({Buckets[b.bucket].location : b \in balances}),
   containers |-> Cardinality({Buckets[b.bucket].container : b \in balances}),
   last |-> Latest({items[b].arrival : b \in set})]

InventorySummaryRows(items, movements, filter) ==
  LET matching == {b \in DOMAIN items : MatchesSummaryFilter(b, filter)}
      Of(key) == {b \in matching : ActionSource(b) = key}
  IN {SummaryRow(key, items, Of(key), ItemContainerBalances(items, Of(key), movements)) :
        key \in {ActionSource(b) : b \in matching}}

WarehouseBreakdown(row, items) ==
  {LET there == {b \in row.balances : Buckets[b.bucket].location = w}
   IN [location |-> w, sections |-> {Buckets[b.bucket].section : b \in there},
       onHand |-> Total(LAMBDA b : b.onHand, there), available |-> Total(LAMBDA b : b.available, there),
       pallets |-> PalletsOn(items, {b \in row.items : Buckets[b].location = w}),
       containers |-> Cardinality({Buckets[b.bucket].container : b \in there})] :
    w \in {Buckets[b.bucket].location : b \in row.balances}}

ContainerPlace(b) == <<Buckets[b].location, Buckets[b].section, Buckets[b].container>>

(* Slip: the places of a container are not told apart. *)
BreakdownByContainer(row, items) ==
  {LET there == {b \in row.balances : Buckets[b.bucket].container = p[3]}
   IN [place |-> p, onHand |-> Total(LAMBDA b : b.onHand, there),
       available |-> Total(LAMBDA b : b.available, there),
       pallets |-> PalletsOn(items, {b \in row.items : Buckets[b].container = p[3]})] :
    p \in {ContainerPlace(b.bucket) : b \in row.balances}}
ContainerBreakdown(row, items) ==
  {LET there == {b \in row.balances : ContainerPlace(b.bucket) = p}
   IN [place |-> p, onHand |-> Total(LAMBDA b : b.onHand, there),
       available |-> Total(LAMBDA b : b.available, there),
       pallets |-> PalletsOn(items, {b \in row.items : ContainerPlace(b) = p})] :
    p \in {ContainerPlace(b.bucket) : b \in row.balances}}

SummaryStats(rows) ==
  [rows |-> Cardinality(rows), onHand |-> Total(LAMBDA r : r.onHand, rows),
   available |-> Total(LAMBDA r : r.available, rows), pallets |-> Total(LAMBDA r : r.pallets, rows),
   warehouses |-> Cardinality({Buckets[b].location : b \in UNION {r.items : r \in rows}})]

-----------------------------------------------------------------------------
(* Transferring containers *)

IsStocked(b, items) == items[b].quantity > 0 \/ items[b].pallets > 0

(* What of the row is not where it is to go.  A container with anything held *)
(* back blocks the transfer; one that is there already is left out.        *)
MovingItems(row, to, items) ==
  {b \in row.items : IsStocked(b, items) /\ <<Buckets[b].location, Buckets[b].section>> # to}

TransferPlan(rows, to, items) ==
  LET there == {r \in rows : MovingItems(r, to, items) = {}}
      blocked == {r \in rows : \E b \in MovingItems(r, to, items) : AvailableOn(items, {b}) # items[b].quantity}
      moving == rows \ (there \cup blocked)
  IN [there |-> {r.key : r \in there}, blocked |-> {r.key : r \in blocked}, containers |-> {r.key : r \in moving},
      lines |-> [b \in UNION {MovingItems(r, to, items) : r \in moving} |->
                   [quantity |-> items[b].quantity, pallets |-> items[b].pallets, arriving |-> items[b].pallets]]]
=============================================================================
