------------------------------ MODULE PageRoutes ------------------------------
(***************************************************************************)
(* Where the pages of the workspace are: the paths of routes.ts, the menus *)
(* and parents of App.tsx, who may see a page, and what one page leaves in *)
(* the browser's session for the page it leads to (the launch contexts).   *)
(*                                                                         *)
(* A path is a pair of its fixed words and of the values it carries; the   *)
(* root is the path of the dashboard.                                      *)
(***************************************************************************)
EXTENDS Sequences, Functions, TLC

Path(words, values) == <<words, values>>

(* Pages with a path of their own, and the page of a path with values. *)
OwnPath ==
  {"dashboard", "daily-operations", "billing", "export-center", "reports", "all-activity", "container-contents",
   "container-lifecycle", "customers", "audit-logs", "user-management", "inventory-summary", "warehouse-map",
   "adjustments", "transfers", "cycle-counts", "sku-master", "storage-management", "inbound-management",
   "outbound-management", "settings"}

PlainPages ==
  [p \in OwnPath \cup {"inbound-management/new", "outbound-management/new", "storage-management/new", "admin",
                      "stock-by-location"} |->
     CASE p = "inbound-management/new" -> "receipt-editor"
       [] p = "outbound-management/new" -> "shipment-editor"
       [] p = "storage-management/new" -> "storage-location-editor"
       [] p = "admin" -> "dashboard" [] p = "stock-by-location" -> "inventory-summary"
       [] OTHER -> p]

ScopedPages ==
  "daily-operations" :> "daily-operations" @@ "billing/container" :> "billing-container-detail"
    @@ "billing/invoices" :> "billing-invoice-editor" @@ "container-lifecycle" :> "container-lifecycle"
    @@ "container-contents" :> "container-detail" @@ "inbound-management/edit" :> "receipt-editor"
    @@ "inbound-management" :> "inbound-detail" @@ "outbound-management/edit" :> "shipment-editor"
    @@ "storage-management" :> "storage-location-editor"

(* What no page knows is the dashboard. *)
PageAt(words, pages) == IF words \in DOMAIN pages THEN pages[words] ELSE "dashboard"
PageOf(path) == PageAt(path[1], IF path[2] = <<>> THEN PlainPages ELSE ScopedPages)

(* A page that needs values has the path of the list it belongs to. *)
PagePath(page) ==
  Path(IF page \in OwnPath THEN page
       ELSE CASE page = "container-detail" -> "container-contents"
              [] page = "inbound-detail" -> "inbound-management"
              [] page = "receipt-editor" -> "inbound-management/new"
              [] page = "shipment-editor" -> "outbound-management/new"
              [] page = "storage-location-editor" -> "storage-management/new"
              [] page = "billing-container-detail" -> "billing/container"
              [] OTHER -> "billing/invoices", <<>>)

-----------------------------------------------------------------------------
(* Paths with values, and what is read of them again; 0 is no document. *)

NoValue == 0
ToDay(day) == Path("daily-operations", IF day = NoValue THEN <<>> ELSE <<day>>)
ToWarehouse(name) == Path("storage-management", <<name>>)
ToNewWarehouse == Path("storage-management/new", <<>>)
ToDetail(id) == Path("inbound-management", <<id>>)
ToReceipt(id) == IF id = NoValue THEN Path("inbound-management/new", <<>>) ELSE Path("inbound-management/edit", <<id>>)
ToShipment(id) ==
  IF id = NoValue THEN Path("outbound-management/new", <<>>) ELSE Path("outbound-management/edit", <<id>>)
ToContainer(customer, container) == Path("container-contents", <<customer, container>>)
ToLifecycle(customer, container) == Path("container-lifecycle", <<customer, container>>)

(* The value that a path of these words carries. *)
ValueOf(path, words, otherwise) == IF path[1] = words /\ path[2] # <<>> THEN path[2][1] ELSE otherwise
DayOf(path, today) == ValueOf(path, "daily-operations", today)
DetailOf(path) == ValueOf(path, "inbound-management", NoValue)
ReceiptOf(path, none) == ValueOf(path, "inbound-management/edit", none)
WarehouseOf(path, none) == ValueOf(path, "storage-management", none)
ContainerOf(path, none) == IF path[1] = "container-contents" /\ path[2] # <<>> THEN path[2] ELSE none
LifecycleOf(path, none) == IF path[1] = "container-lifecycle" /\ path[2] # <<>> THEN path[2] ELSE none

-----------------------------------------------------------------------------
(* Who sees what *)

OnlyAdmins == {"audit-logs", "user-management"}
Shows(page, role) == page \notin OnlyAdmins \/ role = "admin"
(* Slip: the address is only checked by the menu. *)
UncheckedPath(path, role) == path
(* A page that the role may not see gives way to the dashboard. *)
Permitted(path, role) == IF Shows(PageOf(path), role) THEN path ELSE PagePath("dashboard")

Primary == {"dashboard", "inbound-management", "outbound-management", "transfers"}
Sections ==
  [inventory |-> {"container-contents", "inventory-summary", "container-lifecycle"}, finance |-> {"billing"},
   master |-> {"customers", "sku-master", "storage-management"}, reports |-> {"reports", "export-center"},
   administration |-> {"audit-logs", "user-management", "settings"}]

Menu(role) == {p \in Primary \cup UNION {Sections[s] : s \in DOMAIN Sections} : Shows(p, role)}

ParentPages ==
  "daily-operations" :> "dashboard" @@ "billing-container-detail" :> "billing"
    @@ "billing-invoice-editor" :> "billing" @@ "inbound-detail" :> "inbound-management"
    @@ "receipt-editor" :> "inbound-management" @@ "shipment-editor" :> "outbound-management"
    @@ "container-detail" :> "container-contents" @@ "container-lifecycle" :> "container-contents"
    @@ "warehouse-map" :> "inventory-summary" @@ "all-activity" :> "inventory-summary"
    @@ "adjustments" :> "inventory-summary" @@ "transfers" :> "outbound-management"
    @@ "cycle-counts" :> "inventory-summary" @@ "storage-location-editor" :> "storage-management"

(* The back button, which the two editors have on their own. *)
BackPages(page) ==
  {ParentPages[p] : p \in {page} \cap (DOMAIN ParentPages \ {"receipt-editor", "shipment-editor"})}

-----------------------------------------------------------------------------
(* Launch contexts: one for each page that takes one, until it is taken *)

Pending(contexts, page, context) == page :> context @@ contexts
Taken(contexts, page) == Restrict(contexts, DOMAIN contexts \ {page})
=============================================================================
