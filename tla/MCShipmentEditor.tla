-------------------------- MODULE MCShipmentEditor --------------------------
(* Two warehouses that may hold one SKU; stock only in the first. *)
EXTENDS ShipmentEditor

MCSources ==
  [s1 |-> [sku |-> "upc", location |-> "w1"], s2 |-> [sku |-> "upc", location |-> "w2"]]

Bucket(q, a, p, t) ==
  [source |-> "s1", sku |-> "upc", location |-> "w1",
   quantity |-> q, allocated |-> a, damaged |-> 0, hold |-> 0, pallets |-> p, arrival |-> t]

(* A carton of the first bucket may be damaged. *)
MCStocks ==
  {<<[Bucket(4, 2, 2, 2) EXCEPT !.damaged = 1], Bucket(1, 0, 1, 1)>>, <<Bucket(3, 3, 2, 2), Bucket(2, 1, 1, 1)>>}

(* With another draft holding all that this one does not. *)
MCReserved == {<<Bucket(3, 3, 2, 2), Bucket(1, 0, 1, 1)>>}

Allocation(b, n, s, r) ==
  [bucket |-> b, allocated |-> n, pallets |-> s - r, used |-> s - r, starting |-> s, remaining |-> r]

DraftLine(n, allocations) ==
  [source |-> "s1", planned |-> n, quantity |-> n, pallets |-> 1, allocations |-> allocations]

Scheduled ==
  [status |-> "DRAFT", tracking |-> "SCHEDULED",
   lines |-> <<DraftLine(2, <<Allocation(1, 2, 2, 2)>>)>>]
Picking ==
  [status |-> "DRAFT", tracking |-> "PICKING",
   lines |-> <<DraftLine(2, <<Allocation(1, 2, 2, 2)>>)>>]
PickingByTwoLines ==
  [Picking EXCEPT !.lines = <<DraftLine(1, <<Allocation(1, 1, 2, 2)>>),
                              DraftLine(1, <<Allocation(1, 1, 2, 2)>>)>>]
Confirmed == [Picking EXCEPT !.status = "CONFIRMED", !.tracking = "SHIPPED"]

Opening(doc, canManage, maxLines) ==
  [document |-> doc, canManage |-> canManage, maxLines |-> maxLines]

(* Two lines of a new order; one line of a draft; the others are only read. *)
MCOpenings ==
  {Opening(NoDocument, TRUE, 2), Opening(Scheduled, TRUE, 1), Opening(Picking, TRUE, 1),
   Opening(PickingByTwoLines, FALSE, 2), Opening(Confirmed, TRUE, 1)}
MCPickingOnly == {Opening(Picking, TRUE, 1)}
=============================================================================
