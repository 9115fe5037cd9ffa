---------------------------- MODULE WarehouseMap ----------------------------
(***************************************************************************)
(* The map of the warehouses (WarehouseMapPage.tsx): the containers of each *)
(* section, their status, and the selection that walks from a warehouse to *)
(* one SKU of one container.  Blocks and colours are left out; the first of *)
(* a list is its least element.                                            *)
(***************************************************************************)
EXTENDS YardViews

(* A container stands once in each section that holds some of it. *)
NodePlace(b) == <<Buckets[b].location, Buckets[b].section, Buckets[b].customer, Buckets[b].container>>
Warehouse(place) == <<place[1]>>
Section(place) == <<place[1], place[2]>>

NodeStatus(items, set) ==
  LET flags == {f \in {"damaged", "hold", "mixed"} :
                 \/ f = "damaged" /\ \E b \in set : items[b].damaged > 0
                 \/ f = "hold" /\ \E b \in set : items[b].hold > 0
                 \/ f = "mixed" /\ Cardinality({ActionSource(b) : b \in set}) > 1}
  IN IF flags = {} THEN "normal" ELSE IF Cardinality(flags) > 1 THEN "mixed" ELSE CHOOSE f \in flags : TRUE

AggregateStatus(statuses) ==
  IF statuses \subseteq {"normal"} THEN "normal"
  ELSE IF Cardinality(statuses \ {"normal"}) = 1 THEN CHOOSE s \in statuses : s # "normal"
  ELSE "mixed"

(* The containers of the map: place -> the items there, and their status. *)
MapNodes(items, filter) ==
  LET scoped == {b \in DOMAIN items : InScope(b, filter)}
      At2(place) == {b \in scoped : NodePlace(b) = place}
  IN [place \in {NodePlace(b) : b \in scoped} |->
       [items |-> At2(place), status |-> NodeStatus(items, At2(place))]]

FilterByStatus(nodes, status) ==
  [p \in {p \in DOMAIN nodes : Is(status, nodes[p].status)} |-> nodes[p]]

WarehouseMap(items, filter) == FilterByStatus(MapNodes(items, filter), filter.status)

ItemsAt(nodes, places) == UNION {nodes[p].items : p \in places}

(* What is shown of a section or a warehouse comes from the containers left. *)
MapNode(items, nodes, places) ==
  [containers |-> Cardinality(places), sections |-> Cardinality({Section(p) : p \in places}),
   skus |-> Cardinality({Buckets[b].sku : b \in ItemsAt(nodes, places)}),
   onHand |-> OnHand(items, ItemsAt(nodes, places)), available |-> AvailableOn(items, ItemsAt(nodes, places)),
   status |-> AggregateStatus({nodes[p].status : p \in places})]

Warehouses(nodes) == {Warehouse(p) : p \in DOMAIN nodes}
SectionsOf(nodes, warehouse) == {Section(p) : p \in {p \in DOMAIN nodes : Warehouse(p) = warehouse}}
ContainersOf(nodes, section) == {p \in DOMAIN nodes : Section(p) = section}

-----------------------------------------------------------------------------
(* The selection *)

NoSelection == [warehouse |-> None, section |-> None, container |-> None, sku |-> None]
FreshMap == [filter |-> NoFilter, selected |-> NoSelection]

First(set) == IF set = {} THEN None ELSE CHOOSE x \in set : TRUE

(* What the container panel lists. *)
ContainerSkuRows(items, set) ==
  {LET same == {c \in set : Buckets[c].sku = k}
   IN [sku |-> k, items |-> same, onHand |-> OnHand(items, same), available |-> AvailableOn(items, same),
       customers |-> {Buckets[c].customer : c \in same}] : k \in {Buckets[b].sku : b \in set}}

SelectedContainer(nodes, selected) ==
  IF selected.section \in {Section(p) : p \in DOMAIN nodes} /\ Warehouse(selected.section) = selected.warehouse
     /\ selected.container \in ContainersOf(nodes, selected.section)
  THEN nodes[selected.container].items ELSE {}

(* A warehouse that is gone takes the selection with it, a section what is  *)
(* in it; in a section the first container is selected, and its first SKU. *)
KeptPlaces(nodes, s) ==
  IF s.warehouse \notin Warehouses(nodes) THEN NoSelection
  ELSE IF s.section \notin SectionsOf(nodes, s.warehouse) THEN [s EXCEPT !.section = None, !.container = None]
  ELSE IF s.container \in ContainersOf(nodes, s.section) THEN s
  ELSE [s EXCEPT !.container = First(ContainersOf(nodes, s.section))]

KeptSku(nodes, s) ==
  LET skus == {Buckets[b].sku : b \in SelectedContainer(nodes, s)}
  IN IF s.sku \in skus THEN s ELSE [s EXCEPT !.sku = First(skus)]

MapEffects(local, items) ==
  [local EXCEPT !.selected = KeptSku(WarehouseMap(items, local.filter),
                                     KeptPlaces(WarehouseMap(items, local.filter), @))]

SceneMode(selected) ==
  IF selected.warehouse = None THEN "warehouse" ELSE IF selected.section = None THEN "section" ELSE "container"

(* The blocks of the stage, which are also the cards of the panel. *)
SceneNodes(nodes, selected) ==
  CASE SceneMode(selected) = "warehouse" -> Warehouses(nodes)
    [] SceneMode(selected) = "section" -> SectionsOf(nodes, selected.warehouse)
    [] OTHER -> ContainersOf(nodes, selected.section)

NodeSelected(selected, node) ==
  CASE SceneMode(selected) = "warehouse" ->
         [selected EXCEPT !.warehouse = node, !.section = None, !.container = None]
    [] SceneMode(selected) = "section" -> [selected EXCEPT !.section = node, !.container = None]
    [] OTHER -> [selected EXCEPT !.container = node]

(* What the page shows. *)
MapView(items, local) ==
  LET nodes == WarehouseMap(items, local.filter)
  IN [total |-> MapNode(items, nodes, DOMAIN nodes), warehouses |-> Cardinality(Warehouses(nodes)),
      nodes |-> SceneNodes(nodes, local.selected),
      container |-> SelectedContainer(nodes, local.selected),
      rows |-> ContainerSkuRows(items, SelectedContainer(nodes, local.selected))]
=============================================================================
