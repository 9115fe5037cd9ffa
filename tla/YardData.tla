------------------------------ MODULE YardData ------------------------------
(***************************************************************************)
(* The documents of the warehouse, and the stock and movements that follow *)
(* from them, as the browser is given them.                                *)
(*                                                                         *)
(* A bucket is one container, warehouse and SKU, numbered in the order of  *)
(* the names; it is an item of stock while it holds cartons.  Documents    *)
(* are a function from their ids: receipts (IN) with lines per SKU, and    *)
(* shipments (OUT) whose lines name a source, and postings (POST): transfers *)
(* and adjustments, whose lines name a bucket.                             *)
(***************************************************************************)
EXTENDS PickPlan

CONSTANTS Buckets,  \* bucket -> [container, customer, location, section, sku, source, type]
          Unfit     \* bucket -> [damaged, hold], the cartons found damaged or held

NoContainer == "none"
All == "all"
Is(wanted, value) == wanted \in {All, value}
Ids(documents) == DOMAIN documents
IsDraft(document) == document.status = "DRAFT"

BucketsOf(container, location, sku) ==
  {b \in DOMAIN Buckets : /\ Buckets[b].container = container /\ Buckets[b].location = location
                          /\ Buckets[b].sku = sku}
BucketOf(container, location, sku) == CHOOSE b \in BucketsOf(container, location, sku) : TRUE

(* A row of the ledger for each carton count that a document moved, and for *)
(* each allocation of a shipment; the line of the document tells rows apart. *)
ReceiptRow(document, j) ==
  [document |-> document.id, line |-> <<j>>, type |-> "IN", date |-> document.date,
   change |-> document.lines[j].received, pallets |-> document.lines[j].pallets,
   bucket |-> BucketOf(document.container, document.location, document.lines[j].sku)]
ShipmentRow(document, j, k) ==
  LET a == document.lines[j].allocations[k]
  IN [document |-> document.id, line |-> <<j, k>>, type |-> "OUT", date |-> document.date,
      change |-> -a.allocated, pallets |-> -a.pallets, bucket |-> a.bucket]
PostedRow(document, j) ==
  LET l == document.lines[j]
  IN [document |-> document.id, line |-> <<j>>, type |-> l.type, date |-> document.date,
      change |-> l.change, pallets |-> l.pallets, bucket |-> l.bucket]

Counted(lines) == {j \in DOMAIN lines : lines[j].received > 0}
LineMovements(document) ==
  CASE document.kind = "IN" -> {ReceiptRow(document, j) : j \in Counted(document.lines)}
    [] document.kind = "OUT" ->
         UNION {{ShipmentRow(document, j, k) : k \in DOMAIN document.lines[j].allocations} :
                  j \in DOMAIN document.lines}
    [] OTHER -> {PostedRow(document, j) : j \in DOMAIN document.lines}
MovedBy(documents, ids) == UNION {LineMovements(documents[i]) : i \in ids}

Movements(documents) == MovedBy(documents, {i \in Ids(documents) : documents[i].status = "CONFIRMED"})

Total(Op(_), set) == Net([x \in set |-> Op(x)])
At(b, movements) == {m \in movements : m.bucket = b}

(* Drafts in picking hold what they allocate. *)
Holds(document) == document.kind = "OUT" /\ RestoresReservations(document)
Reserved(documents) == MovedBy(documents, {i \in Ids(documents) : Holds(documents[i])})
HeldOf(b, documents) == Total(LAMBDA m : -m.change, At(b, Reserved(documents)))

\* What is decoded from a list of the request, or of the database.
Decoded(s) == s \in Seq(ToSet(s))

\* What @@ makes, written out for the proofs.
Over(f, g) == [x \in DOMAIN f \cup DOMAIN g |-> IF x \in DOMAIN f THEN f[x] ELSE g[x]]

(* The items: every bucket that was ever filled, empty ones included. *)
ItemsFrom(movements, documents) ==
  [b \in {m.bucket : m \in movements} |->
    Over([quantity |-> Total(LAMBDA m : m.change, At(b, movements)),
     pallets |-> Total(LAMBDA m : m.pallets, At(b, movements)),
     allocated |-> HeldOf(b, documents), damaged |-> Unfit[b].damaged, hold |-> Unfit[b].hold,
     arrival |-> LET dates == {m.date : m \in {m \in At(b, movements) : m.type = "IN"}}
                 IN IF dates = {} THEN 0 ELSE CHOOSE d \in dates : \A e \in dates : d <= e],
         Buckets[b])]

Items(documents) == ItemsFrom(Movements(documents), documents)
=============================================================================
