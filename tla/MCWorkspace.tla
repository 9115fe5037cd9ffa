------------------------------ MODULE MCWorkspace ------------------------------
(* Two containers of two customers; the first stands in two warehouses, the *)
(* second is expected.  A draft of a shipment and a copy of one, a sealed  *)
(* container, one transfer, and an old draft that the load leaves behind.  *)
(* A user starts at one of the pages, with what another page may have left *)
(* for it.                                                                 *)
EXTENDS Workspace

Bucket(container, customer, sku, location, section) ==
  [container |-> container, customer |-> customer, location |-> location, section |-> section, sku |-> sku,
   source |-> <<customer, location, sku>>, type |-> "NORMAL"]
MCBuckets ==
  <<Bucket("K1", "c1", "A", "308", Temp), Bucket("K2", "c2", "B", "308", Temp),
    Bucket("K1", "c1", "A", "W2", Temp), Bucket("K2", "c2", "B", "W2", Temp),
    Bucket("K1", "c1", "A", "W2", "A1"), Bucket("K2", "c2", "B", "W2", "A1")>>
(* A carton of the first bucket is on hold. *)
MCUnfit == [b \in 1..6 |-> [damaged |-> 0, hold |-> IF b = 1 THEN 1 ELSE 0]]
MCAlike == {{"K1", "K2"}}
MCDescriptions == {"A", "B"}
MCRates == [normal |-> 1, westCoast |-> 1]

InLine(sku, expected, received, pallets) ==
  [id |-> 1, sku |-> sku, expected |-> expected, received |-> received, pallets |-> pallets, per |-> 2]
Receipt(id, status, tracking, handling, container, customer, date, line) ==
  [id |-> id, kind |-> "IN", status |-> status, tracking |-> tracking, handling |-> handling,
   container |-> container, customer |-> customer, location |-> "308", note |-> None, date |-> date,
   type |-> "NORMAL", lines |-> <<line>>]
Shipment ==
  [id |-> 4, kind |-> "OUT", status |-> "DRAFT", tracking |-> "SCHEDULED", container |-> NoContainer,
   customer |-> "c1", location |-> "308", note |-> None, date |-> 10, scheduled |-> 10,
   lines |-> <<[id |-> 1, quantity |-> 2, planned |-> 2, source |-> <<"c1", "308", "A">>, location |-> "308",
                sku |-> "A", allocations |-> <<[bucket |-> 1, allocated |-> 2, pallets |-> 1, used |-> 1,
                                                starting |-> 2, remaining |-> 1]>>]>>]
Order(id, quantity) == [Shipment.lines[1] EXCEPT !.id = id, !.quantity = quantity, !.allocations = <<>>]
Copied == [Shipment EXCEPT !.id = 6, !.date = 11, !.scheduled = 11, !.lines = <<Order(1, 2), Order(2, 2)>>]
Transfer == Posting(5, 4, <<PostedLine(1, "TRANSFER_OUT", -1, 0), PostedLine(3, "TRANSFER_IN", 1, 1)>>)

MCDocuments ==
  <<Receipt(1, "CONFIRMED", "RECEIVED", "PALLETIZED", "K1", "c1", 3, InLine("A", 4, 4, 2)),
    Receipt(2, "DRAFT", "ARRIVED", "PALLETIZED", "K2", "c2", 10, InLine("B", 3, 3, 1)),
    Receipt(3, "DRAFT", "SCHEDULED", "SEALED_TRANSIT", "K2", "c2", 8, InLine("B", 2, 0, 0)),
    Shipment, Transfer, Copied,
    Receipt(7, "DRAFT", "SCHEDULED", "PALLETIZED", "K2", "c2", 1, InLine("B", 1, 0, 0))>>

Sku(name) == [sku |-> name, description |-> name, category |-> "General", unit |-> "pcs"]
Warehouse2 ==
  [name |-> "W2", sections |-> <<Temp, "A1">>,
   blocks |-> <<Block("temporary", 1, "area"), Block("section", 2, "A1")>>]
MCMasters ==
  [customers |-> "c1" :> [name |-> "c1", note |-> Blank] @@ "c2" :> [name |-> "c2", note |-> Blank],
   skus |-> "A" :> Sku("A") @@ "B" :> Sku("B"),
   locations |-> "308" :> [name |-> "308", sections |-> <<Temp>>, blocks |-> <<>>] @@ "W2" :> Warehouse2,
   orders |-> <<>>]
MCFirstYard == Yard(MCDocuments, {}, "K1" :> "NORMAL", MCMasters)

(* What others do while a call or a load is on its way. *)
Pick == [op |-> "track", id |-> 4, target |-> "PICKING"]
Receive == [op |-> "confirm", id |-> 2]
Undo == [op |-> "remove", id |-> 2]
Seal == [op |-> "receipt", id |-> 2,
         payload |-> [kind |-> "IN", status |-> "DRAFT", handling |-> "SEALED_TRANSIT", tracking |-> "ARRIVED",
                      container |-> "K2", customer |-> "c2", location |-> "308", note |-> None, date |-> 10,
                      lines |-> <<InLine("B", 3, 3, 0)>>]]

-----------------------------------------------------------------------------
(* Where a user starts *)

Start(role, at, context, clicks, faults, others) ==
  [role |-> role, signed |-> TRUE, path |-> at, contexts |-> context, clicks |-> clicks, faults |-> faults,
   others |-> others, menu |-> {}]
Launch(page, context) == page :> context
WithMenu(start, pages) == [start EXCEPT !.menu = pages]

Visits ==
  {WithMenu(Start("admin", PagePath("dashboard"), <<>>, 1, 1, {Receive}), {"customers", "billing"}),
   WithMenu(Start("operator", PagePath("audit-logs"), <<>>, 1, 0, {}), {"reports"}),
   Start("customer", PagePath("dashboard"), <<>>, 1, 0, {}),
   [Start("customer", PagePath("dashboard"), <<>>, 0, 0, {}) EXCEPT !.signed = FALSE],
   [Start("viewer", ToDetail(2), <<>>, 1, 1, {}) EXCEPT !.signed = FALSE],
   Start("operator", ToDay(10), <<>>, 2, 1, {}),
   Start("operator", PagePath("inbound-management"), <<>>, 3, 0, {Seal}),
   Start("operator", PagePath("outbound-management"), Launch("outbound-management", [ListContext EXCEPT !.document = 4]),
         2, 1, {Pick}),
   Start("operator", PagePath("outbound-management"), Launch("outbound-management", [ListContext EXCEPT !.document = 6]),
         2, 0, {Pick}),
   Start("operator", ToDetail(1), <<>>, 3, 0, {}),
   Start("operator", ToReceipt(2), <<>>, 2, 1, {Receive}),
   Start("operator", ToReceipt(NoValue), <<>>, 2, 0, {})}

Stocks ==
  {Start("viewer", ToLifecycle("c1", "K1"), <<>>, 2, 0, {}),
   Start("viewer", PagePath("container-contents"), <<>>, 2, 0, {}),
   Start("viewer", PagePath("transfers"), Launch("transfers", NoLaunch), 4, 0, {}),
   Start("operator", PagePath("adjustments"), Launch("adjustments", [NoLaunch EXCEPT !.source = <<"c1", "A">>]), 4, 0, {Pick}),
   Start("operator", PagePath("transfers"), Launch("transfers", NoLaunch), 4, 0, {Pick}),
   Start("operator", PagePath("cycle-counts"), Launch("cycle-counts", [NoLaunch EXCEPT !.source = <<"c1", "A">>]), 3, 1, {}),
   Start("operator", PagePath("inventory-summary"), <<>>, 3, 0, {}),
   Start("operator", PagePath("warehouse-map"), <<>>, 2, 0, {}),
   Start("operator", PagePath("container-contents"), <<>>, 4, 0, {}),
   Start("operator", ToContainer("c1", "K1"), <<>>, 4, 0, {}),
   Start("operator", ToLifecycle("c1", "K1"), <<>>, 2, 1, {}),
   Start("operator", PagePath("container-lifecycle"), <<>>, 2, 1, {}),
   Start("operator", PagePath("all-activity"), <<>>, 2, 1, {Receive, Undo})}

Records ==
  {Start("admin", PagePath(p), <<>>, 2, 1, {}) : p \in {"customers", "storage-management", "reports"}}
    \cup {Start("admin", PagePath("sku-master"), <<>>, 2, 0, {}), Start("admin", ToWarehouse("W2"), <<>>, 3, 0, {}), Start("admin", ToNewWarehouse, <<>>, 3, 0, {})}

MCStarts == Visits \cup Stocks \cup Records

MCInputs ==
  [texts |-> {"K1"}, filters |-> {[location |-> "308"]}, notes |-> {"damaged"},
   types |-> {"NORMAL", "WEST_COAST_TRANSFER"},
   headers |-> {[container |-> "K2", customer |-> "c2", location |-> "308", date |-> 10]}, skus |-> {"B"},
   quantities |-> {1, 2}, lines |-> 2, sections |-> {Temp, "A1"}, warehouses |-> {"308", "W2"},
   queries |-> {[customer |-> "c1"], [location |-> "W2"]}, containers |-> {[status |-> "IN_STOCK"], [customer |-> "c2"]},
   events |-> {"BOL_RECEIVED"}, places |-> {[location |-> "W2"], [customer |-> "c1"]},
   customers |-> {[name |-> "c3"]},
   records |-> {Sku("C"), [description |-> Blank]}, names |-> {"W3", Blank}, blocks |-> 3,
   forms |-> {[first |-> 11], [location |-> "W2"]}, rates |-> {2}]
=============================================================================
