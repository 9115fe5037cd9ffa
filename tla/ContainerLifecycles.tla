-------------------------- MODULE ContainerLifecycles --------------------------
(***************************************************************************)
(* The life of one container, as the server tells it                       *)
(* (container_service.go), as the flow that is drawn of it                 *)
(* (ContainerLifecycleView.tsx), and the page where the office adds to it  *)
(* (AdminContainerLifecyclePage.tsx).                                      *)
(*                                                                         *)
(* What the office enters are events: [container, kind, type, order, id,   *)
(* public].  A container has a record once the ledger names it, and the    *)
(* boxes are the records with the type the office gave them.  Positions,   *)
(* wording and drivers are left out.                                       *)
(***************************************************************************)
EXTENDS ActivityPages

-----------------------------------------------------------------------------
(* What the server answers *)

PackingLists(documents, container) == {i \in Of("IN", documents) : documents[i].container = container}

References(document, container) ==
  \E l \in ToSet(document.lines) : \E a \in ToSet(l.allocations) : Buckets[a.bucket].container = container

(* The latest first, and of one day the one entered last. *)
PickingOrders(documents, container) ==
  SetToSortSeq({i \in Of("OUT", documents) : References(documents[i], container)},
               LAMBDA i, j : documents[i].scheduled > documents[j].scheduled
                             \/ (documents[i].scheduled = documents[j].scheduled /\ i > j))

(* The record of a container says what the ledger made of it: whether it    *)
(* still holds something and whether anything of it was shipped.           *)
RecordStatus(holds, shipped) ==
  CASE holds /\ shipped -> "PARTIAL" [] holds -> "IN_STOCK" [] shipped -> "SHIPPED" [] OTHER -> "DEPLETED"

(* Without a record the counts of its receipts say it, drafts included.     *)
ContainerStatus(summary) ==
  LET holds == summary.current > 0 \/ summary.pallets > 0
  IN CASE holds /\ summary.shipped > 0 -> "PARTIAL"
       [] holds -> "IN_STOCK"
       [] summary.shipped > 0 /\ (summary.received = 0 \/ summary.shipped >= summary.received) -> "SHIPPED"
       [] summary.received > 0 -> "DEPLETED"
       [] OTHER -> "PENDING"

MovesOf(movements, container) == {m \in movements : Buckets[m.bucket].container = container}
ItemsOf(items, container) == {b \in DOMAIN items : Buckets[b].container = container}
IsTransfer(m) == m.type \in {"TRANSFER_IN", "TRANSFER_OUT"}

SummaryOf(container, documents, lists, here, moves, items) ==
  LET summary == [container |-> container,
                  expected |-> Total(LAMBDA i : Expected(documents[i]), lists),
                  received |-> Total(LAMBDA i : Received(documents[i]), lists),
                  current |-> OnHand(items, here), available |-> AvailableOn(items, here),
                  pallets |-> PalletsOn(items, here),
                  shipped |-> Total(LAMBDA m : -m.change, {m \in moves : m.type = "OUT"}),
                  orders |-> {m.document : m \in {m \in moves : m.type = "OUT"}},
                  transfers |-> Cardinality({m.document : m \in {m \in moves : IsTransfer(m)}}),
                  warehouses |-> {documents[i].location : i \in lists}
                                   \cup {Buckets[m.bucket].location : m \in moves}]
  IN summary @@ [status |-> IF moves = {} THEN ContainerStatus(summary)
                            ELSE RecordStatus(\E b \in here : IsStocked(b, items), summary.shipped > 0)]

ContainerSummary(container, documents, items, movements) ==
  SummaryOf(container, documents, PackingLists(documents, container), ItemsOf(items, container),
            MovesOf(movements, container), items)

Containers(documents, items, movements) ==
  {documents[i].container : i \in Of("IN", documents)} \cup {Buckets[b].container : b \in DOMAIN items}
    \cup {Buckets[m.bucket].container : m \in movements}

OwnerOf(container) == Buckets[CHOOSE b \in DOMAIN Buckets : Buckets[b].container = container].customer

MatchesSummary(summary, customer, filter) ==
  /\ Is(filter.customer, customer)
  /\ filter.search \in {All, summary.container, summary.status} \cup summary.warehouses

Lifecycle(container, documents, items, movements, events, boxes) ==
  [summary |-> ContainerSummary(container, documents, items, movements),
   lists |-> PackingLists(documents, container), orders |-> PickingOrders(documents, container),
   moves |-> MovesOf(movements, container),
   box |-> container \in DOMAIN boxes \/ MovesOf(movements, container) # {},
   events |-> {e \in events : e.container = container}]

-----------------------------------------------------------------------------
(* The flow *)

(* A customer is not told of what is marked internal. *)
Told(events, mode) == {e \in events : mode = "admin" \/ e.public}
OfKind(events, kind) == {e \in events : e.kind = kind}
LatestEvent(events) == IF events = {} THEN None ELSE CHOOSE e \in events : \A f \in events : f.id <= e.id

OrDefault(n, otherwise) == IF n # 0 THEN n ELSE otherwise
InboundExpected(life, documents) ==
  OrDefault(Total(LAMBDA i : Expected(documents[i]), life.lists), life.summary.expected)
InboundReceived(life, documents) ==
  OrDefault(Total(LAMBDA i : Received(documents[i]), life.lists), life.summary.received)
InboundPallets(life, documents) ==
  OrDefault(Total(LAMBDA i : SumOf(LAMBDA l : l.pallets, documents[i].lines), life.lists), life.summary.pallets)
InboundSkus(life, documents) == {l.sku : l \in UNION {ToSet(documents[i].lines) : i \in life.lists}}

(* The counts decide first; a note that names a fault only if they agree. *)
Discrepancy(life, documents) ==
  LET expected == InboundExpected(life, documents)
      received == InboundReceived(life, documents)
      notes == {documents[i].note : i \in life.lists}
  IN CASE expected > 0 /\ received < expected -> "shortage"
       [] expected > 0 /\ received > expected -> "overage"
       [] "damaged" \in notes -> "damaged"
       [] "short" \in notes -> "shortage"
       [] "over" \in notes -> "overage"
       [] OTHER -> "none"

TransferCount(life) ==
  IF life.summary.transfers > 0 THEN life.summary.transfers
  ELSE Cardinality({m.document : m \in {m \in life.moves : IsTransfer(m)}})

(* What of an order came out of the container; all of it if nothing was picked. *)
OrderGoods(document, container) ==
  LET picked == \E l \in ToSet(document.lines) : l.allocations # <<>>
      From(l) == SumOf(LAMBDA a : IF Buckets[a.bucket].container = container THEN a.allocated ELSE 0, l.allocations)
  IN [i \in DOMAIN document.lines |->
       [sku |-> document.lines[i].sku, quantity |-> document.lines[i].quantity,
        allocated |-> IF picked THEN From(document.lines[i]) ELSE document.lines[i].quantity]]

DeliveryOf(order, events) == LatestEvent({e \in OfKind(events, "delivery") : e.order = order})

MaxOrders == 5
ShownOrders(life) == SubSeq(life.orders, 1, Min({MaxOrders, Len(life.orders)}))

MainSteps(life, events, interactive) ==
  Only(<<"container", "tracking", "pickup", "received", "inventory">>,
       {s \in {"container", "tracking", "pickup", "received", "inventory"} :
          \/ s \in {"received", "inventory"} \/ interactive
          \/ s = "container" /\ (life.box \/ events # {})
          \/ s \in {"tracking", "pickup"} /\ OfKind(events, s) # {}})

HasTransfer(life, mode) == mode = "admin" /\ TransferCount(life) > 0

(* Picking an order, or its delivery, hangs its papers below it. *)
Anchored(selected) == IF selected[1] = "papers" /\ selected[3] # "received" THEN <<selected[3], selected[2], "">> ELSE selected
PapersOf(life, selected, interactive) ==
  LET anchor == Anchored(selected)
  IN IF interactive /\ anchor[1] \in {"picking", "delivery"} /\ anchor[2] \in DOMAIN ShownOrders(life)
     THEN {<<"papers", anchor[2], anchor[1]>>} ELSE {}

(* Slip: the papers hang below whatever is selected. *)
PapersBelowSelection(life, selected, interactive) == {<<selected, n>> : n \in PapersOf(life, selected, interactive)}
PaperEdges(life, selected, interactive) ==
  {<<<<n[3], n[2], "">>, n>> : n \in PapersOf(life, selected, interactive)}

FlowNodes(life, events, mode, interactive, selected) ==
  {<<s, 0, "">> : s \in ToSet(MainSteps(life, events, interactive))}
    \cup {n \in {<<"transfer", 0, "">>} : HasTransfer(life, mode)}
    \cup {<<k, i, "">> : k \in {"picking", "delivery"}, i \in DOMAIN ShownOrders(life)}
    \cup {<<"papers", i, "received">> : i \in life.lists}
    \cup PapersOf(life, selected, interactive)

(* One step after the other, then the transfers, and from there each order. *)
FlowEdges(life, events, mode, interactive, selected) ==
  LET steps == MainSteps(life, events, interactive)
      source == IF HasTransfer(life, mode) THEN <<"transfer", 0, "">> ELSE <<"inventory", 0, "">>
  IN {<<<<steps[i], 0, "">>, <<steps[i + 1], 0, "">>>> : i \in 1..(Len(steps) - 1)}
       \cup {e \in {<<<<"inventory", 0, "">>, <<"transfer", 0, "">>>>} : HasTransfer(life, mode)}
       \cup {<<source, <<"picking", i, "">>>> : i \in DOMAIN ShownOrders(life)}
       \cup {<<<<"picking", i, "">>, <<"delivery", i, "">>>> : i \in DOMAIN ShownOrders(life)}
       \cup {<<<<"received", 0, "">>, <<"papers", i, "received">>>> : i \in life.lists}
       \cup PaperEdges(life, selected, interactive)

FlowOf(life, documents, told, mode, interactive, selected) ==
  [nodes |-> FlowNodes(life, told, mode, interactive, selected),
   edges |-> FlowEdges(life, told, mode, interactive, selected),
   status |-> life.summary.status, told |-> told,
   received |-> InboundReceived(life, documents), pallets |-> InboundPallets(life, documents),
   skus |-> InboundSkus(life, documents), discrepancy |-> Discrepancy(life, documents),
   current |-> life.summary.current,
   reference |-> OrDefault(OrDefault(InboundReceived(life, documents), life.summary.received), life.summary.current),
   places |-> IF life.summary.current <= 0 THEN {} ELSE life.summary.warehouses]

LifecycleFlow(life, documents, mode, interactive, selected) ==
  FlowOf(life, documents, Told(life.events, mode), mode, interactive, selected)

-----------------------------------------------------------------------------
(* The side panel *)

ReceivingRows(lists, documents) ==
  LET lines == UNION {{<<i, l>> : l \in ToSet(documents[i].lines)} : i \in lists}
  IN {LET same == {p \in lines : p[2].sku = k}
      IN [sku |-> k, expected |-> Total(LAMBDA p : p[2].expected, same),
          received |-> Total(LAMBDA p : p[2].received, same), pallets |-> Total(LAMBDA p : p[2].pallets, same)] :
        k \in {p[2].sku : p \in lines}}

(* The ledger of the container per SKU, never below nothing. *)
InventoryRows(moves, receiving) ==
  {LET same == {m \in moves : Buckets[m.bucket].sku = k}
   IN [sku |-> k, pallets |-> Positive(Total(LAMBDA m : m.pallets, same)),
       quantity |-> Positive(Total(LAMBDA m : m.change, same))] :
     k \in {r.sku : r \in receiving} \cup {Buckets[m.bucket].sku : m \in moves}}

NoNode == <<"none", 0, "">>
(* What the panel asks for, by the node that is selected. *)
PanelOf(selected) ==
  CASE selected[1] \in {"none", "container"} -> "container"
    [] selected[1] = "received" -> "receiving"
    [] selected[1] = "papers" -> "documents"
    [] OTHER -> selected[1]

-----------------------------------------------------------------------------
(* The page *)

EmptyAnswer == [version |-> 0, container |-> NoContainer]
NoDelivery == [event |-> 0, order |-> 0]

FreshLifecycle(scope) ==
  [filter |-> [customer |-> IF scope = None THEN All ELSE scope[1], search |-> IF scope = None THEN All ELSE scope[2],
               status |-> All],
   list |-> [version |-> 0, customer |-> All, search |-> All], listing |-> TRUE, unlisted |-> FALSE,
   answer |-> EmptyAnswer, loading |-> scope # None, asked |-> scope # None, failed |-> FALSE,
   node |-> NoNode, busy |-> None, type |-> "NORMAL", delivery |-> NoDelivery]

(* A change of the search or the customer asks for the list again, a change *)
(* of the status only picks from it.                                       *)
Refilter(local, filter) ==
  IF filter.customer = local.filter.customer /\ filter.search = local.filter.search
  THEN [local EXCEPT !.filter = filter]
  ELSE [local EXCEPT !.filter = filter, !.listing = TRUE, !.unlisted = FALSE]

Listed(local, version) ==
  [local EXCEPT !.listing = FALSE,
                !.list = [version |-> version, customer |-> local.filter.customer, search |-> local.filter.search]]
NotListed(local) == [local EXCEPT !.listing = FALSE, !.unlisted = TRUE]

ListRows(local, documents, items, movements) ==
  {s \in {ContainerSummary(c, documents, items, movements) : c \in Containers(documents, items, movements)} :
    /\ MatchesSummary(s, OwnerOf(s.container), local.list)
    /\ Is(local.filter.status, s.status)}

(* Another container: what is shown stays until the answer comes. *)
Rescope(local, scope) ==
  IF scope = None
  THEN [local EXCEPT !.answer = EmptyAnswer, !.asked = FALSE, !.failed = FALSE]
  ELSE Refilter([local EXCEPT !.node = NoNode, !.loading = TRUE, !.asked = TRUE, !.failed = FALSE],
                [local.filter EXCEPT !.customer = scope[1], !.search = scope[2]])
Reload(local) == [local EXCEPT !.loading = TRUE, !.asked = TRUE, !.failed = FALSE]

(* The form of a delivery starts from the order, and the event, of its node. *)
DeliveryForm(life, node) ==
  LET events == OfKind(life.events, "delivery")
      order == IF node[1] = "delivery" /\ node[2] \in DOMAIN life.orders THEN life.orders[node[2]] ELSE 0
      latest == IF order # 0 THEN DeliveryOf(order, life.events) ELSE LatestEvent(events)
  IN [event |-> IF latest = None THEN 0 ELSE latest.id,
      order |-> IF order # 0 THEN order ELSE IF latest # None THEN latest.order
                ELSE IF life.orders = <<>> THEN 0 ELSE life.orders[1]]

(* The answer fills every form anew, whatever was typed. *)
LifecycleAnswered(local, version, container, life, type) ==
  [local EXCEPT !.answer = [version |-> version, container |-> container], !.loading = FALSE, !.asked = FALSE,
                !.type = type, !.delivery = DeliveryForm(life, local.node)]
LifecycleFailed(local) == [local EXCEPT !.answer = EmptyAnswer, !.loading = FALSE, !.asked = FALSE, !.failed = TRUE]

SelectNode(local, life, node) ==
  [local EXCEPT !.node = node, !.delivery = IF node[1] = "delivery" THEN DeliveryForm(life, node) ELSE @]

(* A bill that came back is one more event of the delivery that it completes. *)
EventOf(local, container, kind, type, public, id) ==
  [container |-> container, kind |-> kind, type |-> type, public |-> public, id |-> id,
   order |-> IF kind = "delivery" THEN local.delivery.order ELSE 0]

(* What can be listed is found before it is counted. *)
ListView(local, documents, items, movements) ==
  [rows |-> ListRows(local, documents, items, movements), loading |-> local.listing, failed |-> local.unlisted]

(* The panel of the node that is selected; a container without a record has *)
(* nothing to save, an order nothing to deliver before it is one.          *)
NodePanel(local, life, documents) ==
  LET receiving == ReceivingRows(life.lists, documents)
      panel == PanelOf(local.node)
      order == IF local.node[2] \in DOMAIN life.orders THEN life.orders[local.node[2]] ELSE 0
  IN [panel |-> panel, receiving |-> receiving, stock |-> InventoryRows(life.moves, receiving),
      goods |-> IF panel = "picking" /\ order # 0 THEN OrderGoods(documents[order], life.summary.container) ELSE <<>>,
      papers |-> IF panel # "documents" THEN 0 ELSE IF local.node[3] = "received" THEN local.node[2] ELSE order,
      saves |-> local.busy = None /\ (panel # "container" \/ life.box)]

(* Nothing of the container is shown, or can be saved, while it loads. *)
LifecycleView(local, life, documents) ==
  IF local.loading \/ local.answer.version = 0
  THEN [ready |-> FALSE, flow |-> None, side |-> None]
  ELSE [ready |-> TRUE, flow |-> LifecycleFlow(life, documents, "admin", TRUE, local.node),
        side |-> NodePanel(local, life, documents)]
=============================================================================
