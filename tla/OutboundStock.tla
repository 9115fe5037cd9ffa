--------------------------- MODULE OutboundStock ---------------------------
(***************************************************************************)
(* Outbound shipments of one customer against the stock balances they      *)
(* draw on: src/backend/internal/service/outbound_document_store.go,       *)
(* outbound_allocation_store.go and the balance writer they share with     *)
(* receipts, adjustments, counts and transfers, inventory_ledger_store.go. *)
(*                                                                         *)
(* A bucket is one row of inventory_items: a UPC in a container, a         *)
(* warehouse and a storage section.  Every bucket here has a container     *)
(* number and belongs to the one customer, warehouse and UPC of the        *)
(* document lines, so that the buckets are exactly the FIFO candidates of  *)
(* a line.  A document has one line, and at most one allocation row per    *)
(* bucket (normalizeOutboundPickAllocations merges duplicates).            *)
(*                                                                         *)
(* Each action is one committed transaction: every transaction holds the   *)
(* customer's row lock and updates the buckets it reads FOR UPDATE.  A     *)
(* refused or rolled back request is a stuttering step; the refusals that  *)
(* depend on dates and invoices (the billing freeze) are stuttering here.  *)
(* damaged_qty, hold_qty and allocated_pallets are written by no served    *)
(* operation and stay 0.                                                   *)
(***************************************************************************)
EXTENDS Integers, FiniteSets, Sums

CONSTANTS
    Docs,           \* outbound document ids
    Buckets,        \* inventory_items rows
    Containers,     \* containers rows
    ContainerOf,    \* the container each bucket belongs to
    FifoRank,       \* the position of each bucket in the FIFO order
    MaxQuantity,    \* bound: cartons of one order, and of a bucket's stock, shipped or not
    MaxPallets      \* bound: pallets of a bucket's stock, shipped or not

ASSUME ConstantsAssumption ==
    /\ IsFiniteSet(Docs)
    /\ IsFiniteSet(Buckets)
    /\ ContainerOf \in [Buckets -> Containers]
    /\ FifoRank \in [Buckets -> Nat]
    /\ \A b, c \in Buckets : FifoRank[b] = FifoRank[c] => b = c
    /\ MaxQuantity \in Nat
    /\ MaxPallets \in Nat

VARIABLES
    quantity,          \* inventory_items.quantity
    allocated,         \* inventory_items.allocated_qty
    pallets,           \* inventory_items.pallets
    document,          \* outbound_documents with its line and allocation rows
    stockLedger,       \* per bucket: the net of the stock_ledger rows of every other source
    shipLedger,        \* per document: its SHIP rows of stock_ledger
    containerStatus    \* containers.status

vars == <<quantity, allocated, pallets, document, stockLedger, shipLedger, containerStatus>>

-----------------------------------------------------------------------------
(* Documents *)

Tracking == {"SCHEDULED", "PICKING", "PACKED", "SHIPPED", "BO_RECEIVED"}
Shipped == {"SHIPPED", "BO_RECEIVED"}

outboundTrackingRank(t) ==
    CASE t = "SCHEDULED" -> 1
      [] t = "PICKING" -> 2
      [] t = "PACKED" -> 3
      [] t = "SHIPPED" -> 4
      [] t = "BO_RECEIVED" -> 5


validateOutboundTrackingTransition(current, target) ==
    outboundTrackingRank(target) >= outboundTrackingRank(current)

\* Slip: PACKED documents are forgotten.
requiresReservationWhilePickingOnly(t) == t = "PICKING"

outboundTrackingRequiresActiveReservation(t) == t \in {"PICKING", "PACKED"}

resolveConfirmedOutboundTrackingStatus(t) ==
    IF t = "BO_RECEIVED" THEN "BO_RECEIVED" ELSE "SHIPPED"

Nothing == [b \in Buckets |-> 0]

\* The allocation rows of a line: cartons and inventory pallets per bucket.
NoRows == [pick |-> Nothing, used |-> Nothing]

NoDocument ==
    [status |-> "ABSENT", tracking |-> "SCHEDULED", actual |-> 0,
     rows |-> "NONE", pick |-> Nothing, used |-> Nothing]

Documents ==
    [status : {"ABSENT", "DRAFT", "CONFIRMED"}, tracking : Tracking,
     actual : 0..MaxQuantity, rows : {"NONE", "PLANNED", "RESERVED", "SHIPPED"},
     pick : [Buckets -> 0..MaxQuantity], used : [Buckets -> Nat]]

\* What a request may ask for: an order with no pick allocations, which the
\* server allocates itself, or one that names its buckets and their pallets.
\* An order for nothing is a planned-only line.
AutoOrders == {[actual |-> n, pick |-> Nothing, used |-> Nothing] : n \in 0..MaxQuantity}
PickedOrders ==
    {[actual |-> Sum(p), pick |-> p, used |-> u] :
        p \in {p \in [Buckets -> 0..MaxQuantity] : Sum(p) \in 1..MaxQuantity},
        u \in [Buckets -> 0..MaxPallets]}
Orders ==
    AutoOrders \cup
    {o \in PickedOrders : \A b \in Buckets : o.used[b] > 0 => o.pick[b] > 0}

Picked(order) == \E b \in Buckets : order.pick[b] > 0

-----------------------------------------------------------------------------
(* Reserving stock.  Held(d) is the allocated_qty column once document d    *)
(* has released its RESERVED rows, which it does when its tracking says     *)
(* that it holds some.                                                      *)

Held(d) ==
    IF /\ outboundTrackingRequiresActiveReservation(document[d].tracking)
       /\ document[d].rows = "RESERVED"
    THEN [b \in Buckets |-> IF allocated[b] >= document[d].pick[b]
                            THEN allocated[b] - document[d].pick[b] ELSE 0]
    ELSE allocated

\* Slip: what other documents hold is not set aside.
AvailableToEveryone(held, b) == quantity[b]

Available(held, b) == quantity[b] - held[b]

\* The pallets an automatic allocation releases: its share, rounded up, but
\* never the last pallet unless it takes everything available.
automaticInventoryPalletsForAllocation(availableQty, availablePallets, allocatedQty) ==
    IF availableQty <= 0 \/ availablePallets <= 0 \/ allocatedQty <= 0 THEN 0
    ELSE IF allocatedQty >= availableQty THEN availablePallets
    ELSE LET share == (availablePallets * allocatedQty + availableQty - 1) \div availableQty
         IN  IF share > availablePallets - 1 THEN availablePallets - 1 ELSE share

AutoPicks(n, held) ==
    {p \in [Buckets -> 0..n] :
        /\ Sum(p) = n
        /\ \A b \in Buckets : p[b] <= Available(held, b)
        /\ \A b, c \in Buckets :
              FifoRank[b] < FifoRank[c] /\ p[c] > 0 => p[b] = Available(held, b)}

allocateOutboundLine(n, held) ==
    {[pick |-> p,
      used |-> [b \in Buckets |->
                  automaticInventoryPalletsForAllocation(Available(held, b), pallets[b], p[b])]] :
        p \in AutoPicks(n, held)}

\* The allocation rows reserveOutboundDocumentLinesTx writes: those the order
\* names, when each bucket still has the cartons, or else a fresh allocation.
reserveOutboundDocumentLines(order, held) ==
    IF order.actual = 0 THEN {NoRows}
    ELSE IF Picked(order)
    THEN {r \in {[pick |-> order.pick, used |-> order.used]} :
            \A b \in Buckets : r.pick[b] <= Available(held, b)}
    ELSE allocateOutboundLine(order.actual, held)

\* What creating or editing a draft checks, without reserving anything.
Draftable(order, held) ==
    IF Picked(order)
    THEN \A b \in Buckets : order.pick[b] > 0 =>
            /\ order.pick[b] <= Available(held, b)
            /\ order.used[b] <= pallets[b]
    ELSE order.actual <= Sum([b \in Buckets |-> Available(held, b)])

\* The final check of an allocation: the pallets it releases are there, and
\* a bucket keeps a pallet exactly as long as it keeps a carton.
validateOutboundFinalPalletBalance(r) ==
    \A b \in Buckets : r.pick[b] > 0 =>
        /\ r.used[b] <= pallets[b]
        /\ r.pick[b] = quantity[b] <=> r.used[b] = pallets[b]

-----------------------------------------------------------------------------
(* The container projection, recomputed after every ledger row.            *)

resolveContainerInventoryStatus(hasActiveInventory, hasUnreversedOutbound) ==
    CASE hasActiveInventory /\ hasUnreversedOutbound -> "PARTIALLY_OUTBOUND"
      [] hasActiveInventory /\ ~hasUnreversedOutbound -> "IN_STOCK"
      [] ~hasActiveInventory /\ hasUnreversedOutbound -> "SHIPPED"
      [] ~hasActiveInventory /\ ~hasUnreversedOutbound -> "DEPLETED"

ContainerStatuses == {"IN_STOCK", "PARTIALLY_OUTBOUND", "SHIPPED", "DEPLETED"}

ProjectedStatus(c, qty, plt, ledger) ==
    LET inside == {b \in Buckets : ContainerOf[b] = c}
    IN  resolveContainerInventoryStatus(
            \E b \in inside : qty[b] > 0 \/ plt[b] > 0,
            \E d \in Docs, b \in inside : ledger[d].pick[b] > 0 \/ ledger[d].used[b] > 0)

\* Slip: the projection is recomputed before the ledger row is written.
recomputeTooEarly(touched) ==
    containerStatus' = [c \in Containers |->
        IF \E b \in touched : ContainerOf[b] = c
        THEN ProjectedStatus(c, quantity', pallets', shipLedger)
        ELSE containerStatus[c]]

recomputeContainerProjection(touched) ==
    containerStatus' = [c \in Containers |->
        IF \E b \in touched : ContainerOf[b] = c
        THEN ProjectedStatus(c, quantity', pallets', shipLedger')
        ELSE containerStatus[c]]

-----------------------------------------------------------------------------
(* A ledger row changes the balance of its bucket: pallets = GREATEST(...,  *)
(* 0).  change has what the rows of a transaction add, per bucket.          *)

applyContainerInventoryLedgerDelta(change) ==
    /\ quantity' = [b \in Buckets |-> quantity[b] + change[b].cartons]
    /\ pallets' = [b \in Buckets |->
            IF pallets[b] + change[b].pallets < 0 THEN 0 ELSE pallets[b] + change[b].pallets]

\* SHIP rows, and REVERSAL rows.
Out(rows) == [b \in Buckets |-> [cartons |-> -rows.pick[b], pallets |-> -rows.used[b]]]
Back(rows) == [b \in Buckets |-> [cartons |-> rows.pick[b], pallets |-> rows.used[b]]]

-----------------------------------------------------------------------------
(* Documents: one action per transaction of the document endpoints.        *)

Draft(order, tracking) ==
    [status |-> "DRAFT", tracking |-> tracking, actual |-> order.actual,
     rows |-> IF Picked(order) THEN "PLANNED" ELSE "NONE",
     pick |-> order.pick, used |-> order.used]

\* A draft plans its allocations and reserves nothing.
CreateDraft(d, order) ==
    /\ document[d] = NoDocument
    /\ Draftable(order, allocated)
    /\ document' = [document EXCEPT ![d] = Draft(order, "SCHEDULED")]
    /\ UNCHANGED <<quantity, allocated, pallets, stockLedger, shipLedger, containerStatus>>

\* A copy asks for the same cartons and names no buckets.
CopyOutboundDocument(d, copy) ==
    /\ document[d] # NoDocument
    /\ document[copy] = NoDocument
    /\ document' = [document EXCEPT ![copy] =
            Draft([actual |-> document[d].actual, pick |-> Nothing, used |-> Nothing],
                  "SCHEDULED")]
    /\ UNCHANGED <<quantity, allocated, pallets, stockLedger, shipLedger, containerStatus>>

\* Confirmation: release the document's own reservation, reserve afresh,
\* check the pallets, then consume the reservation with SHIP rows.
confirmOutboundDocument(d, order, tracking) ==
    \E r \in reserveOutboundDocumentLines(order, Held(d)) :
        /\ validateOutboundFinalPalletBalance(r)
        /\ applyContainerInventoryLedgerDelta(Out(r))
        /\ allocated' = Held(d)
        /\ shipLedger' = [shipLedger EXCEPT ![d] = r]
        /\ document' = [document EXCEPT ![d] =
                [status |-> "CONFIRMED", tracking |-> tracking, actual |-> order.actual,
                 rows |-> IF order.actual = 0 THEN "NONE" ELSE "SHIPPED",
                 pick |-> r.pick, used |-> r.used]]
        /\ recomputeContainerProjection({b \in Buckets : r.pick[b] > 0})
        /\ UNCHANGED stockLedger

CreateConfirmed(d, order, tracking) ==
    /\ document[d] = NoDocument
    /\ tracking \in Shipped
    /\ Draftable(order, allocated)
    /\ confirmOutboundDocument(d, order, tracking)

\* The reserving transition of a draft, from a new order or from its own.
Reserve(d, order, tracking) ==
    \E r \in reserveOutboundDocumentLines(order, Held(d)) :
        /\ allocated' = [b \in Buckets |-> Held(d)[b] + r.pick[b]]
        /\ document' = [document EXCEPT ![d] =
                [status |-> "DRAFT", tracking |-> tracking, actual |-> order.actual,
                 rows |-> IF order.actual = 0 THEN "NONE" ELSE "RESERVED",
                 pick |-> r.pick, used |-> r.used]]
        /\ UNCHANGED <<quantity, pallets, stockLedger, shipLedger, containerStatus>>

UpdateReserved(d, order, tracking) ==
    /\ document[d].status = "DRAFT"
    /\ validateOutboundTrackingTransition(document[d].tracking, tracking)
    /\ outboundTrackingRequiresActiveReservation(tracking)
    /\ Draftable(order, Held(d))
    /\ Reserve(d, order, tracking)

\* Slip: a confirmed document can be edited like a draft.
UpdateAnyStatus(d, order, tracking) ==
    /\ document[d] # NoDocument
    /\ ~outboundTrackingRequiresActiveReservation(tracking)
    /\ Draftable(order, Held(d))
    /\ allocated' = Held(d)
    /\ document' = [document EXCEPT ![d] = Draft(order, tracking)]
    /\ UNCHANGED <<quantity, pallets, stockLedger, shipLedger, containerStatus>>

\* A draft may be saved with any tracking status that is not backwards, so
\* also SHIPPED or BO_RECEIVED: it stays a draft and holds no stock.
UpdateUnreserved(d, order, tracking) ==
    /\ document[d].status = "DRAFT"
    /\ validateOutboundTrackingTransition(document[d].tracking, tracking)
    /\ ~outboundTrackingRequiresActiveReservation(tracking)
    /\ Draftable(order, Held(d))
    /\ allocated' = Held(d)
    /\ document' = [document EXCEPT ![d] = Draft(order, tracking)]
    /\ UNCHANGED <<quantity, pallets, stockLedger, shipLedger, containerStatus>>

\* Saving with status CONFIRMED skips the tracking check.
UpdateConfirmed(d, order, tracking) ==
    /\ document[d].status = "DRAFT"
    /\ tracking \in Shipped
    /\ Draftable(order, Held(d))
    /\ confirmOutboundDocument(d, order, tracking)

ConfirmOutboundDocument(d) ==
    /\ document[d].status = "DRAFT"
    /\ confirmOutboundDocument(d, document[d],
            resolveConfirmedOutboundTrackingStatus(document[d].tracking))

\* UpdateOutboundDocumentTrackingStatus, in its four outcomes.
StartPicking(d, tracking) ==
    /\ document[d].status = "DRAFT"
    /\ document[d].tracking = "SCHEDULED"
    /\ outboundTrackingRequiresActiveReservation(tracking)
    /\ Reserve(d, document[d], tracking)

MarkPacked(d) ==
    /\ document[d].status = "DRAFT"
    /\ document[d].tracking = "PICKING"
    /\ document' = [document EXCEPT ![d].tracking = "PACKED"]
    /\ UNCHANGED <<quantity, allocated, pallets, stockLedger, shipLedger, containerStatus>>

MarkShipped(d, tracking) ==
    /\ document[d].status = "DRAFT"
    /\ tracking \in Shipped
    /\ validateOutboundTrackingTransition(document[d].tracking, tracking)
    /\ confirmOutboundDocument(d, document[d], tracking)

MarkBOReceived(d) ==
    /\ document[d].status = "CONFIRMED"
    /\ document[d].tracking = "SHIPPED"
    /\ document' = [document EXCEPT ![d].tracking = "BO_RECEIVED"]
    /\ UNCHANGED <<quantity, allocated, pallets, stockLedger, shipLedger, containerStatus>>

\* Slip: the reservation of a cancelled draft is not given back.
CancelDraftKeepingReservation(d) ==
    /\ document[d].status = "DRAFT"
    /\ document' = [document EXCEPT ![d] = NoDocument]
    /\ UNCHANGED <<quantity, allocated, pallets, stockLedger, shipLedger, containerStatus>>

\* Slip: the rows are deleted without the REVERSAL that gives the stock back.
CancelWithoutReversal(d) ==
    /\ document[d].status = "CONFIRMED"
    /\ shipLedger' = [shipLedger EXCEPT ![d] = NoRows]
    /\ document' = [document EXCEPT ![d] = NoDocument]
    /\ UNCHANGED <<quantity, allocated, pallets, stockLedger, containerStatus>>

\* Slip: the ledger rows of the cancelled document stay.
CancelKeepingLedger(d) ==
    /\ document[d].status = "CONFIRMED"
    /\ document' = [document EXCEPT ![d] = NoDocument]
    /\ UNCHANGED <<quantity, allocated, pallets, stockLedger, shipLedger, containerStatus>>

\* Cancelling deletes the document, its lines, its allocation rows and its
\* ledger rows: after giving back a reservation ...
CancelDraft(d) ==
    /\ document[d].status = "DRAFT"
    /\ allocated' = Held(d)
    /\ document' = [document EXCEPT ![d] = NoDocument]
    /\ UNCHANGED <<quantity, pallets, stockLedger, shipLedger, containerStatus>>

\* ... or after a REVERSAL row for every SHIPPED allocation.
CancelConfirmed(d) ==
    /\ document[d].status = "CONFIRMED"
    /\ applyContainerInventoryLedgerDelta(Back(document[d]))
    /\ shipLedger' = [shipLedger EXCEPT ![d] = NoRows]
    /\ document' = [document EXCEPT ![d] = NoDocument]
    /\ recomputeContainerProjection({b \in Buckets : document[d].pick[b] > 0})
    /\ UNCHANGED <<allocated, stockLedger>>

-----------------------------------------------------------------------------
(* The other writers of the balances.                                      *)

\* createStockLedgerEntryTx for a document of another source.
PostLedger(change) ==
    /\ \A b \in Buckets :
          /\ stockLedger[b].cartons + change[b].cartons <= MaxQuantity    \* bound
          /\ stockLedger[b].pallets + change[b].pallets <= MaxPallets     \* bound
    /\ applyContainerInventoryLedgerDelta(change)
    /\ stockLedger' = [b \in Buckets |->
            [cartons |-> stockLedger[b].cartons + change[b].cartons,
             pallets |-> stockLedger[b].pallets + change[b].pallets]]
    /\ UNCHANGED <<allocated, document, shipLedger>>
    /\ recomputeContainerProjection({b \in Buckets : change[b] # [cartons |-> 0, pallets |-> 0]})

At(b, n, p) == [c \in Buckets |-> IF c = b THEN [cartons |-> n, pallets |-> p]
                                           ELSE [cartons |-> 0, pallets |-> 0]]

\* A confirmed receipt.
ReceiveStock(b, n, p) == PostLedger(At(b, n, p))

\* Slip: the new balance is only checked against zero.
SetBalanceIgnoringReservations(b, n, p) ==
    /\ <<n, p>> # <<quantity[b], pallets[b]>>
    /\ PostLedger(At(b, n - quantity[b], p - pallets[b]))

\* An adjustment, or a count with a variance: to balances that still cover
\* the reservations.
SetBalance(b, n, p) ==
    /\ n >= allocated[b]
    /\ <<n, p>> # <<quantity[b], pallets[b]>>
    /\ PostLedger(At(b, n - quantity[b], p - pallets[b]))

AdjustStock(b, n, p) == SetBalance(b, n, p)
CountStock(b, n, p) == SetBalance(b, n, p)

\* Slip: a transfer is not checked against the source balance.
TransferUnchecked(b, c, n, from, to) ==
    /\ b # c
    /\ ContainerOf[b] = ContainerOf[c]
    /\ n + from + to > 0
    /\ PostLedger([At(b, -n, -from) EXCEPT ![c] = [cartons |-> n, pallets |-> to]])

\* A transfer line between two sections of a container: what is not reserved.
TransferStock(b, c, n, from, to) ==
    /\ b # c
    /\ ContainerOf[b] = ContainerOf[c]
    /\ n + from + to > 0
    /\ n <= Available(allocated, b)
    /\ from <= pallets[b]
    /\ PostLedger([At(b, -n, -from) EXCEPT ![c] = [cartons |-> n, pallets |-> to]])

-----------------------------------------------------------------------------
Init ==
    /\ quantity = Nothing
    /\ allocated = Nothing
    /\ pallets = Nothing
    /\ document = [d \in Docs |-> NoDocument]
    /\ stockLedger = [b \in Buckets |-> [cartons |-> 0, pallets |-> 0]]
    /\ shipLedger = [d \in Docs |-> NoRows]
    /\ containerStatus = [c \in Containers |-> "DEPLETED"]

DocumentStep(d) ==
    \/ \E order \in Orders :
        \/ CreateDraft(d, order)
        \/ \E t \in Tracking :
            \/ CreateConfirmed(d, order, t)
            \/ UpdateReserved(d, order, t)
            \/ UpdateUnreserved(d, order, t)
            \/ UpdateConfirmed(d, order, t)
    \/ \E copy \in Docs : CopyOutboundDocument(d, copy)
    \/ \E t \in Tracking : StartPicking(d, t) \/ MarkShipped(d, t)
    \/ ConfirmOutboundDocument(d)
    \/ MarkPacked(d)
    \/ MarkBOReceived(d)
    \/ CancelDraft(d)
    \/ CancelConfirmed(d)

StockStep(b) ==
    \E n \in 0..MaxQuantity, p \in 0..MaxPallets :
        \/ ReceiveStock(b, n, p)
        \/ AdjustStock(b, n, p)
        \/ CountStock(b, n, p)
        \/ \E c \in Buckets, to \in 0..MaxPallets : TransferStock(b, c, n, p, to)

Next == (\E d \in Docs : DocumentStep(d)) \/ (\E b \in Buckets : StockStep(b))

Spec == Init /\ [][Next]_vars

-----------------------------------------------------------------------------
(* Properties                                                              *)

\* Every variable holds values the tables can hold.
TypeOK ==
    /\ quantity \in [Buckets -> Nat]
    /\ allocated \in [Buckets -> Nat]
    /\ pallets \in [Buckets -> Nat]
    /\ document \in [Docs -> Documents]
    /\ stockLedger \in [Buckets -> [cartons : Int, pallets : Int]]
    /\ shipLedger \in [Docs -> [pick : [Buckets -> 0..MaxQuantity], used : [Buckets -> Nat]]]
    /\ containerStatus \in [Containers -> ContainerStatuses]

\* The counter allocated_qty of each balance is the sum of its RESERVED
\* allocation rows, whatever edits, confirmations and cancellations have
\* happened: the code keeps the two in step by hand in every transaction.
Reserved(d, b) == IF document[d].rows = "RESERVED" THEN document[d].pick[b] ELSE 0

ReservationsMatchRows ==
    \A b \in Buckets : allocated[b] = Sum([d \in Docs |-> Reserved(d, b)])

\* Stock is never promised twice: the reservations of a bucket never exceed
\* what is in it, also after stock is adjusted, counted or moved away.
NeverOversold == \A b \in Buckets : allocated[b] <= quantity[b]

\* The balance of each bucket is what the ledger adds up to, cartons and
\* pallets: no shipment, cancellation or clamped update (GREATEST(pallets +
\* change, 0)) makes the two drift apart.
LedgerMatchesBalance ==
    \A b \in Buckets :
        /\ quantity[b] = stockLedger[b].cartons - Sum([d \in Docs |-> shipLedger[d].pick[b]])
        /\ pallets[b] = stockLedger[b].pallets - Sum([d \in Docs |-> shipLedger[d].used[b]])

\* The status of a container says what its balances and its unreversed
\* shipments say, although only ledger rows recompute it.
ContainerStatusCurrent ==
    \A c \in Containers :
        containerStatus[c] = ProjectedStatus(c, quantity, pallets, shipLedger)

\* A document being picked or packed holds its whole quantity, and no other
\* document holds any: also not a draft saved as SHIPPED.
PickingHoldsStock ==
    \A d \in Docs :
        LET doc == document[d]
            picking == doc.status = "DRAFT" /\ doc.tracking \in {"PICKING", "PACKED"}
        IN  /\ doc.rows = "RESERVED" <=> picking /\ doc.actual > 0
            /\ doc.rows \in {"RESERVED", "SHIPPED"} => Sum(doc.pick) = doc.actual

\* The ledger says a document shipped exactly what its allocations say, if it
\* is confirmed, and nothing if it is not.
LedgerMatchesShipments ==
    \A d \in Docs :
        shipLedger[d] = IF document[d].status = "CONFIRMED"
                        THEN [pick |-> document[d].pick, used |-> document[d].used]
                        ELSE NoRows

\* A confirmed shipment is immutable until it is cancelled: nothing but the
\* BO_RECEIVED mark changes it, and its ledger rows stay.
ConfirmedImmutable ==
    [][\A d \in Docs : document[d].status = "CONFIRMED" /\ document'[d] # NoDocument =>
          /\ document'[d] = [document[d] EXCEPT !.tracking = document'[d].tracking]
          /\ document'[d].tracking \in {document[d].tracking, "BO_RECEIVED"}
          /\ shipLedger'[d] = shipLedger[d]]_vars

\* What is promised about outbound stock, whatever the documents go through:
\* reservations are promises, SHIP rows are deliveries.
Promised == [d \in Docs |-> [b \in Buckets |-> Reserved(d, b)]]
Delivered == [d \in Docs |-> shipLedger[d].pick]

Promises == INSTANCE StockPromises WITH
    onHand <- quantity, promised <- Promised, delivered <- Delivered

\* Every step keeps the promises made to the other documents and delivers or
\* takes back whole shipments, once.
PromisesKept == Promises!Spec

\* The comment in automaticInventoryPalletsForAllocation: "A partial carton
\* pick cannot release the last physical inventory pallet: the remaining
\* cartons still occupy that pallet."
PartialPickKeepsPallet ==
    [][\A d \in Docs, t \in Tracking : StartPicking(d, t) /\ ~Picked(document[d]) =>
          \A b \in Buckets :
              LET row == [n |-> document'[d].pick[b], p |-> document'[d].used[b]]
              IN  row.n < quantity[b] /\ row.p > 0 => row.p < pallets[b]]_vars

\* TestOutboundTrackingBOReceivedIsTerminal: nothing takes a shipment out of
\* BO_RECEIVED, unless it is cancelled.
BOReceivedIsTerminal ==
    [][\A d \in Docs : document[d].tracking = "BO_RECEIVED" =>
          document'[d] = NoDocument \/ document'[d].tracking = "BO_RECEIVED"]_vars
=============================================================================
