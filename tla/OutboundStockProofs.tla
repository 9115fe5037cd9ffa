------------------------ MODULE OutboundStockProofs ------------------------
(***************************************************************************)
(* Proofs about OutboundStock, for any finite set of documents and of      *)
(* buckets and any bounds; at last, that the status of containers is       *)
(* current.                                                                *)
(***************************************************************************)
EXTENDS OutboundStock, SumTheorems

-----------------------------------------------------------------------------
(* The inductive invariant                                                 *)

\* What an order asks for, or a document's rows say.
OrderSound(order) ==
    /\ order.actual \in 0..MaxQuantity
    /\ order.pick \in [Buckets -> 0..MaxQuantity]
    /\ order.used \in [Buckets -> Nat]
    /\ \A b \in Buckets : order.pick[b] = 0 => order.used[b] = 0
    /\ Picked(order) => Sum(order.pick) = order.actual

\* A document's tracking says whether it holds stock, which is what the code
\* goes by when it gives the reservation back.
DocumentSound(doc) ==
    /\ doc.rows = "RESERVED" <=>
          /\ doc.status = "DRAFT"
          /\ doc.tracking \in {"PICKING", "PACKED"}
          /\ doc.actual > 0
    /\ \A b \in Buckets : doc.pick[b] = 0 => doc.used[b] = 0
    /\ Picked(doc) => Sum(doc.pick) = doc.actual
    /\ doc.rows \in {"RESERVED", "SHIPPED"} => Sum(doc.pick) = doc.actual

DocumentsSound == \A d \in Docs : DocumentSound(document[d])

IInv ==
    /\ TypeOK
    /\ ReservationsMatchRows
    /\ NeverOversold
    /\ LedgerMatchesShipments
    /\ LedgerMatchesBalance
    /\ DocumentsSound

\* The rows that a reservation or a confirmation writes.
RowsSound(r, order, held) ==
    /\ r \in [pick : [Buckets -> 0..MaxQuantity], used : [Buckets -> Nat]]
    /\ \A b \in Buckets : r.pick[b] <= Available(held, b)
    /\ \A b \in Buckets : r.pick[b] = 0 => r.used[b] = 0
    /\ Sum(r.pick) = order.actual

-----------------------------------------------------------------------------
(* The operators                                                           *)

\* automaticInventoryPalletsForAllocation returns a number of pallets.
LEMMA AutomaticPallets ==
  ASSUME NEW q \in Int, NEW p \in Int, NEW n \in Int
  PROVE  /\ automaticInventoryPalletsForAllocation(q, p, n) \in Nat
         /\ n = 0 => automaticInventoryPalletsForAllocation(q, p, n) = 0
<1>1. CASE q <= 0 \/ p <= 0 \/ n <= 0
  BY <1>1 DEF automaticInventoryPalletsForAllocation
<1>2. CASE ~(q <= 0 \/ p <= 0 \/ n <= 0)
  <2>1. p * n \in Nat
    BY <1>2
  <2> DEFINE x == p * n
  <2>2. x \in Nat
    BY <2>1
  <2> HIDE DEF x
  <2>3. (x + q - 1) \div q \in Nat
    BY <1>2, <2>2
  <2> QED
    BY <1>2, <2>3 DEF automaticInventoryPalletsForAllocation, x
<1> QED
  BY <1>1, <1>2

\* Requests ask for sound orders.
LEMMA OrdersAreSound ==
  ASSUME NEW order \in Orders
  PROVE  OrderSound(order)
<1>0. MaxQuantity \in Nat /\ MaxPallets \in Nat
  BY ConstantsAssumption
<1>1. CASE order \in AutoOrders
  BY <1>0, <1>1 DEF AutoOrders, OrderSound, Picked, Nothing
<1>2. CASE order \in PickedOrders /\ \A b \in Buckets : order.used[b] > 0 => order.pick[b] > 0
  <2>1. PICK p \in [Buckets -> 0..MaxQuantity], u \in [Buckets -> 0..MaxPallets] :
            /\ order = [actual |-> Sum(p), pick |-> p, used |-> u]
            /\ Sum(p) \in 1..MaxQuantity
    BY <1>2 DEF PickedOrders
  <2>2. order.pick = p /\ order.used = u /\ order.actual = Sum(p)
    BY <2>1
  <2>3. u \in [Buckets -> Nat]
    BY <1>0
  <2>4. \A b \in Buckets : order.pick[b] = 0 => order.used[b] = 0
    BY <1>0, <1>2, <2>2
  <2> QED
    BY <1>0, <2>1, <2>2, <2>3, <2>4 DEF OrderSound
<1> QED
  BY <1>1, <1>2 DEF Orders

\* So do documents, taken as their own orders.
LEMMA DocumentsAreOrders ==
  ASSUME IInv, NEW d \in Docs
  PROVE  OrderSound(document[d])
BY DEF IInv, TypeOK, Documents, DocumentsSound, DocumentSound, OrderSound

\* Once a document has given back its reservation, the column holds exactly
\* what the others have reserved.
LEMMA HeldByOthers ==
  ASSUME IInv, NEW d \in Docs
  PROVE  /\ Held(d) \in [Buckets -> Nat]
         /\ \A b \in Buckets :
               /\ Reserved(d, b) \in Nat
               /\ Held(d)[b] = allocated[b] - Reserved(d, b)
               /\ Held(d)[b] <= quantity[b]
<1> DEFINE reserved(b) == [e \in Docs |-> Reserved(e, b)]
<1>0. IsFiniteSet(Docs) /\ MaxQuantity \in Nat
  BY ConstantsAssumption
<1>1. ASSUME NEW b \in Buckets
      PROVE  /\ allocated[b] \in Nat
             /\ quantity[b] \in Nat
             /\ Reserved(d, b) \in Nat
             /\ Reserved(d, b) <= allocated[b]
             /\ allocated[b] <= quantity[b]
  <2>1. reserved(b) \in [Docs -> Nat]
    BY <1>0 DEF IInv, TypeOK, Documents, Reserved
  <2>2. reserved(b)[d] <= Sum(reserved(b))
    BY <1>0, <2>1, SumBound
  <2>3. allocated[b] = Sum(reserved(b))
    BY DEF IInv, ReservationsMatchRows
  <2> HIDE DEF reserved
  <2>4. reserved(b)[d] = Reserved(d, b) /\ Reserved(d, b) \in Nat
    BY <2>1 DEF reserved
  <2> QED
    BY <2>2, <2>3, <2>4 DEF IInv, TypeOK, NeverOversold
<1>2. CASE document[d].rows = "RESERVED"
  <2>1. document[d].tracking \in {"PICKING", "PACKED"}
    BY <1>2 DEF IInv, DocumentsSound, DocumentSound
  <2>2. \A b \in Buckets : Reserved(d, b) = document[d].pick[b]
    BY <1>2 DEF Reserved
  <2>3. Held(d) = [b \in Buckets |-> allocated[b] - Reserved(d, b)]
    BY <1>1, <1>2, <2>1, <2>2 DEF Held, outboundTrackingRequiresActiveReservation
  <2> QED
    BY <1>1, <2>3
<1>3. CASE document[d].rows # "RESERVED"
  <2>1. \A b \in Buckets : Reserved(d, b) = 0
    BY <1>3 DEF Reserved
  <2>2. Held(d) = allocated
    BY <1>3 DEF Held
  <2> QED
    BY <1>1, <2>1, <2>2 DEF IInv, TypeOK
<1> QED
  BY <1>2, <1>3

\* The rows that are reserved or shipped are what was ordered, from stock that
\* no other document holds.
LEMMA RowsAreSound ==
  ASSUME IInv, NEW d \in Docs, NEW order, OrderSound(order),
         NEW r \in reserveOutboundDocumentLines(order, Held(d))
  PROVE  RowsSound(r, order, Held(d))
<1>0. MaxQuantity \in Nat
  BY ConstantsAssumption
<1>1. \A b \in Buckets : Available(Held(d), b) \in Nat
  BY HeldByOthers DEF Available, IInv, TypeOK
<1>2. CASE order.actual = 0
  <2>1. r = NoRows
    BY <1>2 DEF reserveOutboundDocumentLines
  <2>2. Sum(Nothing) = 0
    BY SumZero DEF Nothing
  <2> QED
    BY <1>0, <1>1, <1>2, <2>1, <2>2 DEF RowsSound, NoRows, Nothing
<1>3. CASE order.actual # 0 /\ Picked(order)
  <2>1. /\ r = [pick |-> order.pick, used |-> order.used]
        /\ \A b \in Buckets : r.pick[b] <= Available(Held(d), b)
    BY <1>3 DEF reserveOutboundDocumentLines
  <2> QED
    BY <1>3, <2>1 DEF RowsSound, OrderSound
<1>4. CASE order.actual # 0 /\ ~Picked(order)
  <2>1. r \in allocateOutboundLine(order.actual, Held(d))
    BY <1>4 DEF reserveOutboundDocumentLines
  <2>2. PICK p \in AutoPicks(order.actual, Held(d)) :
            r = [pick |-> p,
                 used |-> [b \in Buckets |-> automaticInventoryPalletsForAllocation(
                              Available(Held(d), b), pallets[b], p[b])]]
    BY <2>1 DEF allocateOutboundLine
  <2>3. /\ p \in [Buckets -> 0..order.actual]
        /\ Sum(p) = order.actual
        /\ \A b \in Buckets : p[b] <= Available(Held(d), b)
    BY DEF AutoPicks
  <2>4. order.actual \in 0..MaxQuantity
    BY DEF OrderSound
  <2>5. \A b \in Buckets : p[b] \in Int /\ pallets[b] \in Int
    BY <2>3, <2>4 DEF IInv, TypeOK
  <2>6. r.used \in [Buckets -> Nat] /\ \A b \in Buckets : p[b] = 0 => r.used[b] = 0
    BY <1>1, <2>2, <2>5, AutomaticPallets
  <2>7. p \in [Buckets -> 0..MaxQuantity]
    BY <1>0, <2>3, <2>4
  <2> QED
    BY <2>2, <2>3, <2>6, <2>7 DEF RowsSound
<1> QED
  BY <1>2, <1>3, <1>4

-----------------------------------------------------------------------------
(* What a step does to the documents and their reservations                *)

\* One document changes, and the column by what its reservation changes.
LEMMA DocumentChanges ==
  ASSUME IInv, NEW d \in Docs, NEW x \in Documents, DocumentSound(x),
         document' = [document EXCEPT ![d] = x],
         allocated' \in [Buckets -> Nat],
         \A b \in Buckets : allocated'[b] =
             Held(d)[b] + (IF x.rows = "RESERVED" THEN x.pick[b] ELSE 0)
  PROVE  /\ document' \in [Docs -> Documents]
         /\ ReservationsMatchRows'
         /\ DocumentsSound'
<1> DEFINE reserved(b) == [e \in Docs |-> Reserved(e, b)]
<1>0. IsFiniteSet(Docs) /\ MaxQuantity \in Nat
  BY ConstantsAssumption
<1>1. document \in [Docs -> Documents]
  BY DEF IInv, TypeOK
<1>2. document' \in [Docs -> Documents]
  BY <1>1
<1>3. DocumentsSound'
  BY <1>1 DEF IInv, DocumentsSound
<1>4. ASSUME NEW b \in Buckets
      PROVE  allocated'[b] = Sum([e \in Docs |-> Reserved(e, b)'])
  <2> DEFINE reserved1 == [e \in Docs |-> Reserved(e, b)']
  <2>1. reserved(b) \in [Docs -> Nat]
    BY <1>0, <1>1 DEF Documents, Reserved
  <2>2. reserved1 \in [Docs -> Nat]
    BY <1>0, <1>2 DEF Documents, Reserved
  <2>3. \A e \in Docs \ {d} : reserved1[e] = reserved(b)[e]
    BY <1>1 DEF Reserved
  <2>4. Sum(reserved1) = Sum(reserved(b)) - reserved(b)[d] + reserved1[d]
    <3> HIDE DEF reserved, reserved1
    <3> QED
      BY <1>0, <2>1, <2>2, <2>3, SumUpdate
  <2>5. reserved(b)[d] = Reserved(d, b)
    OBVIOUS
  <2>6. reserved1[d] = IF x.rows = "RESERVED" THEN x.pick[b] ELSE 0
    BY <1>1 DEF Reserved
  <2>7. Sum(reserved(b)) = allocated[b]
    BY DEF IInv, ReservationsMatchRows
  <2>8. Held(d)[b] = allocated[b] - Reserved(d, b)
    BY HeldByOthers
  <2>9. allocated[b] \in Int /\ Reserved(d, b) \in Int /\ reserved1[d] \in Int
    BY <2>2, HeldByOthers DEF IInv, TypeOK
  <2> HIDE DEF reserved, reserved1
  <2>10. allocated'[b] = Sum(reserved1)
    BY <2>4, <2>5, <2>6, <2>7, <2>8, <2>9
  <2> QED
    BY <2>10 DEF reserved1
<1>5. ReservationsMatchRows'
  BY <1>4 DEF ReservationsMatchRows
<1> QED
  BY <1>2, <1>3, <1>5

\* A step that changes one document that is not confirmed into another, and
\* no balance, as the steps of drafts do.
LEMMA DraftStep ==
  ASSUME IInv, NEW d \in Docs, NEW x \in Documents, DocumentSound(x),
         document[d].status # "CONFIRMED", x.status # "CONFIRMED",
         document' = [document EXCEPT ![d] = x],
         allocated' \in [Buckets -> Nat],
         \A b \in Buckets : allocated'[b] =
             Held(d)[b] + (IF x.rows = "RESERVED" THEN x.pick[b] ELSE 0),
         \A b \in Buckets : allocated'[b] <= quantity[b],
         UNCHANGED <<quantity, pallets, stockLedger, shipLedger, containerStatus>>
  PROVE  IInv'
<1>1. /\ document' \in [Docs -> Documents]
      /\ ReservationsMatchRows'
      /\ DocumentsSound'
  BY DocumentChanges
<1>2. TypeOK'
  BY <1>1 DEF IInv, TypeOK
<1>3. NeverOversold'
  BY DEF NeverOversold
<1>4. LedgerMatchesShipments'
  BY DEF IInv, TypeOK, LedgerMatchesShipments, NoRows, Nothing
<1>5. LedgerMatchesBalance'
  BY DEF IInv, LedgerMatchesBalance
<1> QED
  BY <1>1, <1>2, <1>3, <1>4, <1>5 DEF IInv

\* Reserving keeps the invariant.
LEMMA ReserveStep ==
  ASSUME IInv, NEW d \in Docs, NEW order, OrderSound(order),
         NEW tracking \in {"PICKING", "PACKED"}, document[d].status = "DRAFT",
         Reserve(d, order, tracking)
  PROVE  IInv'
<1>1. PICK r \in reserveOutboundDocumentLines(order, Held(d)) :
        /\ allocated' = [b \in Buckets |-> Held(d)[b] + r.pick[b]]
        /\ document' = [document EXCEPT ![d] =
                [status |-> "DRAFT", tracking |-> tracking, actual |-> order.actual,
                 rows |-> IF order.actual = 0 THEN "NONE" ELSE "RESERVED",
                 pick |-> r.pick, used |-> r.used]]
        /\ UNCHANGED <<quantity, pallets, stockLedger, shipLedger, containerStatus>>
  BY DEF Reserve
<1> DEFINE x == [status |-> "DRAFT", tracking |-> tracking, actual |-> order.actual,
                 rows |-> IF order.actual = 0 THEN "NONE" ELSE "RESERVED",
                 pick |-> r.pick, used |-> r.used]
<1>2. RowsSound(r, order, Held(d))
  BY RowsAreSound
<1>3. x \in Documents
  BY <1>2 DEF Documents, RowsSound, OrderSound, Tracking
<1>4. DocumentSound(x)
  BY <1>2, ConstantsAssumption DEF DocumentSound, RowsSound, OrderSound
<1>5. \A b \in Buckets : x.rows # "RESERVED" => r.pick[b] = 0
  BY DEF reserveOutboundDocumentLines, NoRows, Nothing
<1>6. \A b \in Buckets :
        /\ allocated'[b] = Held(d)[b] + (IF x.rows = "RESERVED" THEN x.pick[b] ELSE 0)
        /\ allocated'[b] <= quantity[b]
        /\ allocated'[b] \in Nat
  <2> TAKE b \in Buckets
  <2>1. Held(d)[b] \in Nat /\ quantity[b] \in Nat
    BY HeldByOthers DEF IInv, TypeOK
  <2>2. r.pick[b] \in Nat /\ r.pick[b] <= quantity[b] - Held(d)[b]
    BY <1>2, ConstantsAssumption DEF RowsSound, Available
  <2>3. allocated'[b] = Held(d)[b] + r.pick[b]
    BY <1>1
  <2>4. r.pick[b] = IF x.rows = "RESERVED" THEN x.pick[b] ELSE 0
    BY <1>5
  <2> HIDE DEF x
  <2> QED
    BY <2>1, <2>2, <2>3, <2>4
<1>7. allocated' \in [Buckets -> Nat]
  BY <1>1, <1>6
<1>8. x.status # "CONFIRMED" /\ document' = [document EXCEPT ![d] = x]
  BY <1>1
<1> HIDE DEF x
<1> QED
  BY <1>1, <1>3, <1>4, <1>6, <1>7, <1>8, DraftStep

\* The recomputed status of a container is one of its statuses.
LEMMA ContainerStatusType ==
  ASSUME containerStatus \in [Containers -> ContainerStatuses], NEW touched,
         recomputeContainerProjection(touched)
  PROVE  containerStatus' \in [Containers -> ContainerStatuses]
<1>1. \A stock, shipped \in BOOLEAN :
        resolveContainerInventoryStatus(stock, shipped) \in ContainerStatuses
  BY DEF resolveContainerInventoryStatus, ContainerStatuses
<1>2. \A c \in Containers :
        ProjectedStatus(c, quantity', pallets', shipLedger') \in ContainerStatuses
  BY <1>1 DEF ProjectedStatus
<1> QED
  BY <1>2 DEF recomputeContainerProjection

\* A document ships rows, or takes back what it shipped: its ledger rows and
\* the balances change by the same cartons and pallets.
LEMMA LedgerStep ==
  ASSUME IInv, NEW d \in Docs,
         NEW r \in [pick : [Buckets -> 0..MaxQuantity], used : [Buckets -> Nat]],
         shipLedger' = [shipLedger EXCEPT ![d] = r],
         quantity' = [b \in Buckets |-> quantity[b] + shipLedger[d].pick[b] - r.pick[b]],
         pallets' = [b \in Buckets |-> pallets[b] + shipLedger[d].used[b] - r.used[b]],
         UNCHANGED stockLedger
  PROVE  LedgerMatchesBalance'
<1>0. IsFiniteSet(Docs) /\ MaxQuantity \in Nat
  BY ConstantsAssumption
<1>1. /\ shipLedger \in [Docs -> [pick : [Buckets -> 0..MaxQuantity], used : [Buckets -> Nat]]]
      /\ shipLedger' \in [Docs -> [pick : [Buckets -> 0..MaxQuantity], used : [Buckets -> Nat]]]
  BY DEF IInv, TypeOK
<1>2. ASSUME NEW b \in Buckets
      PROVE  quantity'[b] = stockLedger'[b].cartons
                              - Sum([e \in Docs |-> shipLedger'[e].pick[b]])
  <2> DEFINE n == [e \in Docs |-> shipLedger[e].pick[b]]
             m == [e \in Docs |-> shipLedger'[e].pick[b]]
  <2>1. n \in [Docs -> Nat] /\ m \in [Docs -> Nat]
    BY <1>0, <1>1
  <2>2. (\A e \in Docs \ {d} : m[e] = n[e]) /\ n[d] = shipLedger[d].pick[b] /\ m[d] = r.pick[b]
    BY <1>1
  <2>3. quantity[b] = stockLedger[b].cartons - Sum(n)
    BY DEF IInv, LedgerMatchesBalance
  <2>4. quantity'[b] = quantity[b] + n[d] - m[d] /\ stockLedger'[b] = stockLedger[b]
    BY <2>2
  <2>5. stockLedger[b].cartons \in Int
    BY DEF IInv, TypeOK
  <2> HIDE DEF n, m
  <2>6. Sum(m) = Sum(n) - n[d] + m[d] /\ Sum(n) \in Nat
    BY <1>0, <2>1, <2>2, SumUpdate, SumType
  <2>7. n[d] \in Nat /\ m[d] \in Nat
    BY <2>1
  <2>8. quantity'[b] = stockLedger'[b].cartons - Sum(m)
    BY <2>3, <2>4, <2>5, <2>6, <2>7
  <2> QED
    BY <2>8 DEF m
<1>3. ASSUME NEW b \in Buckets
      PROVE  pallets'[b] = stockLedger'[b].pallets
                             - Sum([e \in Docs |-> shipLedger'[e].used[b]])
  <2> DEFINE n == [e \in Docs |-> shipLedger[e].used[b]]
             m == [e \in Docs |-> shipLedger'[e].used[b]]
  <2>1. n \in [Docs -> Nat] /\ m \in [Docs -> Nat]
    BY <1>1
  <2>2. (\A e \in Docs \ {d} : m[e] = n[e]) /\ n[d] = shipLedger[d].used[b] /\ m[d] = r.used[b]
    BY <1>1
  <2>3. pallets[b] = stockLedger[b].pallets - Sum(n)
    BY DEF IInv, LedgerMatchesBalance
  <2>4. pallets'[b] = pallets[b] + n[d] - m[d] /\ stockLedger'[b] = stockLedger[b]
    BY <2>2
  <2>5. stockLedger[b].pallets \in Int
    BY DEF IInv, TypeOK
  <2> HIDE DEF n, m
  <2>6. Sum(m) = Sum(n) - n[d] + m[d] /\ Sum(n) \in Nat
    BY <1>0, <2>1, <2>2, SumUpdate, SumType
  <2>7. n[d] \in Nat /\ m[d] \in Nat
    BY <2>1
  <2>8. pallets'[b] = stockLedger'[b].pallets - Sum(m)
    BY <2>3, <2>4, <2>5, <2>6, <2>7
  <2> QED
    BY <2>8 DEF m
<1> QED
  BY <1>2, <1>3 DEF LedgerMatchesBalance

\* Without the clamp of GREATEST, when a change takes no pallet that is not
\* there.
LEMMA UnclampedDelta ==
  ASSUME pallets \in [Buckets -> Nat],
         NEW change \in [Buckets -> [cartons : Int, pallets : Int]],
         \A b \in Buckets : pallets[b] + change[b].pallets >= 0,
         applyContainerInventoryLedgerDelta(change)
  PROVE  /\ quantity' = [b \in Buckets |-> quantity[b] + change[b].cartons]
         /\ pallets' = [b \in Buckets |-> pallets[b] + change[b].pallets]
<1>1. \A b \in Buckets : ~(pallets[b] + change[b].pallets < 0)
  OBVIOUS
<1> QED
  BY <1>1 DEF applyContainerInventoryLedgerDelta

\* Confirming keeps the invariant.
LEMMA ConfirmStep ==
  ASSUME IInv, NEW d \in Docs, NEW order, OrderSound(order), NEW tracking \in Shipped,
         document[d].status # "CONFIRMED",
         confirmOutboundDocument(d, order, tracking)
  PROVE  IInv'
<1>1. PICK r \in reserveOutboundDocumentLines(order, Held(d)) :
        /\ validateOutboundFinalPalletBalance(r)
        /\ applyContainerInventoryLedgerDelta(Out(r))
        /\ allocated' = Held(d)
        /\ shipLedger' = [shipLedger EXCEPT ![d] = r]
        /\ document' = [document EXCEPT ![d] =
                [status |-> "CONFIRMED", tracking |-> tracking, actual |-> order.actual,
                 rows |-> IF order.actual = 0 THEN "NONE" ELSE "SHIPPED",
                 pick |-> r.pick, used |-> r.used]]
        /\ recomputeContainerProjection({b \in Buckets : r.pick[b] > 0})
        /\ UNCHANGED stockLedger
  BY DEF confirmOutboundDocument
<1> DEFINE x == [status |-> "CONFIRMED", tracking |-> tracking, actual |-> order.actual,
                 rows |-> IF order.actual = 0 THEN "NONE" ELSE "SHIPPED",
                 pick |-> r.pick, used |-> r.used]
<1>2. RowsSound(r, order, Held(d))
  BY RowsAreSound
<1>3. x \in Documents
  BY <1>2 DEF Documents, RowsSound, OrderSound, Tracking, Shipped
<1>4. DocumentSound(x)
  BY <1>2 DEF DocumentSound, RowsSound
<1>5. /\ document' \in [Docs -> Documents]
      /\ ReservationsMatchRows'
      /\ DocumentsSound'
  <2>1. \A b \in Buckets : allocated'[b] = Held(d)[b] + 0
    BY <1>1, HeldByOthers
  <2>2. allocated' \in [Buckets -> Nat]
    BY <1>1, HeldByOthers
  <2>3. document' = [document EXCEPT ![d] = x] /\ x.rows # "RESERVED"
    BY <1>1
  <2> HIDE DEF x
  <2> QED
    BY <1>3, <1>4, <2>1, <2>2, <2>3, DocumentChanges
<1>6. ASSUME NEW b \in Buckets
      PROVE  /\ quantity[b] \in Nat /\ pallets[b] \in Nat
             /\ Held(d)[b] \in Nat
             /\ r.pick[b] \in Nat /\ r.used[b] \in Nat
             /\ r.pick[b] <= quantity[b] - Held(d)[b]
             /\ r.used[b] <= pallets[b]
  <2>1. /\ quantity[b] \in Nat /\ pallets[b] \in Nat
        /\ Held(d)[b] \in Nat
        /\ r.pick[b] \in Nat /\ r.used[b] \in Nat
        /\ r.pick[b] <= quantity[b] - Held(d)[b]
    BY <1>2, HeldByOthers, ConstantsAssumption DEF IInv, TypeOK, RowsSound, Available
  <2>2. r.used[b] <= pallets[b]
    BY <1>1, <1>2, <2>1 DEF validateOutboundFinalPalletBalance, RowsSound
  <2> QED
    BY <2>1, <2>2
<1>7. /\ quantity' = [b \in Buckets |-> quantity[b] - r.pick[b]]
      /\ pallets' = [b \in Buckets |-> pallets[b] - r.used[b]]
  <2>1. Out(r) \in [Buckets -> [cartons : Int, pallets : Int]]
    BY <1>6 DEF Out
  <2>2. \A b \in Buckets : pallets[b] + Out(r)[b].pallets >= 0
    BY <1>6 DEF Out
  <2>3. /\ quantity' = [b \in Buckets |-> quantity[b] + Out(r)[b].cartons]
        /\ pallets' = [b \in Buckets |-> pallets[b] + Out(r)[b].pallets]
    BY <1>1, <2>1, <2>2, UnclampedDelta DEF IInv, TypeOK
  <2>4. \A b \in Buckets : /\ quantity[b] + Out(r)[b].cartons = quantity[b] - r.pick[b]
                           /\ pallets[b] + Out(r)[b].pallets = pallets[b] - r.used[b]
    BY <1>6 DEF Out
  <2> QED
    BY <2>3, <2>4
<1>8. \A b \in Buckets :
        /\ quantity'[b] \in Nat
        /\ allocated'[b] <= quantity'[b]
        /\ pallets'[b] \in Nat
  BY <1>1, <1>6, <1>7
<1>9. shipLedger[d] = NoRows
  BY DEF IInv, LedgerMatchesShipments
<1>10. r \in [pick : [Buckets -> 0..MaxQuantity], used : [Buckets -> Nat]]
  BY <1>2 DEF RowsSound
<1>11. LedgerMatchesBalance'
  <2>1. \A b \in Buckets :
          /\ quantity[b] - r.pick[b] = quantity[b] + shipLedger[d].pick[b] - r.pick[b]
          /\ pallets[b] - r.used[b] = pallets[b] + shipLedger[d].used[b] - r.used[b]
    <3> TAKE b \in Buckets
    <3>1. shipLedger[d].pick[b] = 0 /\ shipLedger[d].used[b] = 0
      BY <1>9 DEF NoRows, Nothing
    <3> QED
      BY <1>6, <3>1
  <2>2. /\ quantity' = [b \in Buckets |-> quantity[b] + shipLedger[d].pick[b] - r.pick[b]]
        /\ pallets' = [b \in Buckets |-> pallets[b] + shipLedger[d].used[b] - r.used[b]]
    BY <1>7, <2>1
  <2> QED
    BY <1>1, <1>10, <2>2, LedgerStep
<1>12. LedgerMatchesShipments'
  <2>1. r = [pick |-> r.pick, used |-> r.used]
    BY <1>10
  <2> QED
    BY <1>1, <2>1 DEF IInv, TypeOK, LedgerMatchesShipments
<1>13. TypeOK'
  <2>1. containerStatus' \in [Containers -> ContainerStatuses]
    BY <1>1, ContainerStatusType DEF IInv, TypeOK
  <2>2. shipLedger' \in [Docs -> [pick : [Buckets -> 0..MaxQuantity], used : [Buckets -> Nat]]]
    BY <1>1, <1>10 DEF IInv, TypeOK
  <2>3. quantity' \in [Buckets -> Nat] /\ pallets' \in [Buckets -> Nat]
    BY <1>7, <1>8
  <2> QED
    BY <1>1, <1>5, <2>1, <2>2, <2>3, HeldByOthers DEF IInv, TypeOK
<1> QED
  BY <1>5, <1>8, <1>11, <1>12, <1>13 DEF IInv, NeverOversold

\* Cancelling a confirmed document keeps the invariant.
LEMMA CancelConfirmedStep ==
  ASSUME IInv, NEW d \in Docs, CancelConfirmed(d)
  PROVE  IInv'
<1>0. MaxQuantity \in Nat
  BY ConstantsAssumption
<1>1. /\ document[d].status = "CONFIRMED"
      /\ applyContainerInventoryLedgerDelta(Back(document[d]))
      /\ shipLedger' = [shipLedger EXCEPT ![d] = NoRows]
      /\ document' = [document EXCEPT ![d] = NoDocument]
      /\ recomputeContainerProjection({b \in Buckets : document[d].pick[b] > 0})
      /\ UNCHANGED <<allocated, stockLedger>>
  BY DEF CancelConfirmed
<1>2. document[d].rows # "RESERVED"
  BY <1>1 DEF IInv, DocumentsSound, DocumentSound
<1>3. NoDocument \in Documents /\ DocumentSound(NoDocument)
  BY <1>0 DEF NoDocument, Documents, DocumentSound, Nothing, Tracking, Picked
<1>4. /\ document' \in [Docs -> Documents]
      /\ ReservationsMatchRows'
      /\ DocumentsSound'
  <2>1. Held(d) = allocated
    BY <1>2 DEF Held
  <2>2. \A b \in Buckets : allocated'[b] = Held(d)[b] + 0
    BY <1>1, <2>1, HeldByOthers
  <2>3. allocated' \in [Buckets -> Nat]
    BY <1>1 DEF IInv, TypeOK
  <2>4. NoDocument.rows # "RESERVED"
    BY DEF NoDocument
  <2> QED
    BY <1>1, <1>3, <2>2, <2>3, <2>4, DocumentChanges
<1>5. /\ document[d].pick \in [Buckets -> 0..MaxQuantity]
      /\ document[d].used \in [Buckets -> Nat]
  BY DEF IInv, TypeOK, Documents
<1>6. ASSUME NEW b \in Buckets
      PROVE  /\ quantity[b] \in Nat /\ pallets[b] \in Nat /\ allocated[b] \in Nat
             /\ allocated[b] <= quantity[b]
             /\ document[d].pick[b] \in Nat /\ document[d].used[b] \in Nat
  BY <1>0, <1>5 DEF IInv, TypeOK, NeverOversold
<1>7. /\ quantity' = [b \in Buckets |-> quantity[b] + document[d].pick[b]]
      /\ pallets' = [b \in Buckets |-> pallets[b] + document[d].used[b]]
  <2>1. Back(document[d]) \in [Buckets -> [cartons : Int, pallets : Int]]
    BY <1>6 DEF Back
  <2>2. \A b \in Buckets : pallets[b] + Back(document[d])[b].pallets >= 0
    BY <1>6 DEF Back
  <2>3. /\ quantity' = [b \in Buckets |-> quantity[b] + Back(document[d])[b].cartons]
        /\ pallets' = [b \in Buckets |-> pallets[b] + Back(document[d])[b].pallets]
    BY <1>1, <2>1, <2>2, UnclampedDelta DEF IInv, TypeOK
  <2> QED
    BY <2>3 DEF Back
<1>8. \A b \in Buckets :
        /\ quantity'[b] \in Nat
        /\ allocated'[b] <= quantity'[b]
        /\ pallets'[b] \in Nat
  BY <1>1, <1>6, <1>7
<1>9. NoRows \in [pick : [Buckets -> 0..MaxQuantity], used : [Buckets -> Nat]]
  BY <1>0 DEF NoRows, Nothing
<1>10. LedgerMatchesBalance'
  <2>1. /\ shipLedger[d].pick = document[d].pick
        /\ shipLedger[d].used = document[d].used
    <3>1. shipLedger[d] = [pick |-> document[d].pick, used |-> document[d].used]
      BY <1>1 DEF IInv, LedgerMatchesShipments
    <3> QED
      BY <3>1
  <2>2. \A b \in Buckets :
          /\ quantity[b] + document[d].pick[b]
               = quantity[b] + shipLedger[d].pick[b] - NoRows.pick[b]
          /\ pallets[b] + document[d].used[b]
               = pallets[b] + shipLedger[d].used[b] - NoRows.used[b]
    BY <1>0, <1>5, <2>1 DEF NoRows, Nothing, IInv, TypeOK
  <2>3. /\ quantity' = [b \in Buckets |-> quantity[b] + shipLedger[d].pick[b] - NoRows.pick[b]]
        /\ pallets' = [b \in Buckets |-> pallets[b] + shipLedger[d].used[b] - NoRows.used[b]]
    BY <1>7, <2>2
  <2> QED
    BY <1>1, <1>9, <2>3, LedgerStep
<1>11. LedgerMatchesShipments'
  BY <1>1 DEF IInv, TypeOK, LedgerMatchesShipments, NoDocument
<1>12. TypeOK'
  <2>1. containerStatus' \in [Containers -> ContainerStatuses]
    BY <1>1, ContainerStatusType DEF IInv, TypeOK
  <2>2. shipLedger' \in [Docs -> [pick : [Buckets -> 0..MaxQuantity], used : [Buckets -> Nat]]]
    BY <1>1, <1>9 DEF IInv, TypeOK
  <2>3. quantity' \in [Buckets -> Nat] /\ pallets' \in [Buckets -> Nat]
    BY <1>7, <1>8
  <2> QED
    BY <1>1, <1>4, <2>1, <2>2, <2>3 DEF IInv, TypeOK
<1> QED
  BY <1>4, <1>8, <1>10, <1>11, <1>12 DEF IInv, NeverOversold

\* A row of the stock ledger from another source keeps the invariant, if it
\* leaves what is reserved and takes no pallet that is not there.
LEMMA PostLedgerStep ==
  ASSUME IInv, NEW change \in [Buckets -> [cartons : Int, pallets : Int]],
         \A b \in Buckets : quantity[b] + change[b].cartons >= allocated[b],
         \A b \in Buckets : pallets[b] + change[b].pallets >= 0,
         PostLedger(change)
  PROVE  IInv'
<1>0. /\ quantity' = [b \in Buckets |-> quantity[b] + change[b].cartons]
      /\ pallets' = [b \in Buckets |-> pallets[b] + change[b].pallets]
  BY UnclampedDelta DEF PostLedger, IInv, TypeOK
<1>1. /\ stockLedger' = [b \in Buckets |->
            [cartons |-> stockLedger[b].cartons + change[b].cartons,
             pallets |-> stockLedger[b].pallets + change[b].pallets]]
      /\ UNCHANGED <<allocated, document, shipLedger>>
      /\ recomputeContainerProjection({b \in Buckets : change[b] # [cartons |-> 0, pallets |-> 0]})
  BY DEF PostLedger
<1>2. ASSUME NEW b \in Buckets
      PROVE  /\ quantity'[b] \in Nat
             /\ pallets'[b] \in Nat
             /\ stockLedger'[b] \in [cartons : Int, pallets : Int]
             /\ allocated'[b] <= quantity'[b]
             /\ quantity'[b] = quantity[b] + change[b].cartons
             /\ pallets'[b] = pallets[b] + change[b].pallets
  <2>1. /\ change[b].cartons \in Int /\ change[b].pallets \in Int
        /\ quantity[b] \in Nat /\ pallets[b] \in Nat /\ allocated[b] \in Nat
        /\ stockLedger[b].cartons \in Int /\ stockLedger[b].pallets \in Int
    BY DEF IInv, TypeOK
  <2> QED
    BY <1>0, <1>1, <2>1
<1>3. TypeOK'
  <2>1. containerStatus' \in [Containers -> ContainerStatuses]
    BY <1>1, ContainerStatusType DEF IInv, TypeOK
  <2>2. /\ quantity' \in [Buckets -> Nat]
        /\ pallets' \in [Buckets -> Nat]
        /\ stockLedger' \in [Buckets -> [cartons : Int, pallets : Int]]
    BY <1>0, <1>1, <1>2
  <2> QED
    BY <1>1, <2>1, <2>2 DEF IInv, TypeOK
<1>4. ReservationsMatchRows'
  BY <1>1 DEF IInv, ReservationsMatchRows, Reserved
<1>5. LedgerMatchesBalance'
  <2>1. ASSUME NEW b \in Buckets
        PROVE  /\ quantity'[b] = stockLedger'[b].cartons
                                   - Sum([d \in Docs |-> shipLedger'[d].pick[b]])
               /\ pallets'[b] = stockLedger'[b].pallets
                                  - Sum([d \in Docs |-> shipLedger'[d].used[b]])
    <3> DEFINE n == [d \in Docs |-> shipLedger[d].pick[b]]
               u == [d \in Docs |-> shipLedger[d].used[b]]
    <3>1. n \in [Docs -> Nat] /\ u \in [Docs -> Nat]
      BY ConstantsAssumption DEF IInv, TypeOK
    <3>2. /\ quantity[b] = stockLedger[b].cartons - Sum(n)
          /\ pallets[b] = stockLedger[b].pallets - Sum(u)
      BY DEF IInv, LedgerMatchesBalance
    <3>3. /\ stockLedger[b].cartons \in Int /\ stockLedger[b].pallets \in Int
          /\ change[b].cartons \in Int /\ change[b].pallets \in Int
      BY DEF IInv, TypeOK
    <3>4. /\ stockLedger'[b].cartons = stockLedger[b].cartons + change[b].cartons
          /\ stockLedger'[b].pallets = stockLedger[b].pallets + change[b].pallets
      BY <1>1
    <3>5. shipLedger' = shipLedger
      BY <1>1
    <3> HIDE DEF n, u
    <3>6. Sum(n) \in Nat /\ Sum(u) \in Nat
      BY <3>1, SumType, ConstantsAssumption
    <3>7. /\ quantity'[b] = stockLedger'[b].cartons - Sum(n)
          /\ pallets'[b] = stockLedger'[b].pallets - Sum(u)
      BY <1>2, <3>2, <3>3, <3>4, <3>6
    <3> QED
      BY <3>5, <3>7 DEF n, u
  <2> QED
    BY <2>1 DEF LedgerMatchesBalance
<1>6. LedgerMatchesShipments' /\ DocumentsSound'
  BY <1>1 DEF IInv, LedgerMatchesShipments, DocumentsSound
<1> QED
  BY <1>2, <1>3, <1>4, <1>5, <1>6 DEF IInv, NeverOversold

\* Adjusting, counting and receiving one bucket.
LEMMA BucketStep ==
  ASSUME IInv, NEW b \in Buckets, NEW n \in Int, NEW p \in Int,
         quantity[b] + n >= allocated[b], pallets[b] + p >= 0,
         PostLedger(At(b, n, p))
  PROVE  IInv'
<1>1. At(b, n, p) \in [Buckets -> [cartons : Int, pallets : Int]]
  BY DEF At
<1>2. \A c \in Buckets :
        /\ quantity[c] \in Nat /\ allocated[c] \in Nat /\ allocated[c] <= quantity[c]
        /\ pallets[c] \in Nat
  BY DEF IInv, TypeOK, NeverOversold
<1>3. \A c \in Buckets : /\ quantity[c] + At(b, n, p)[c].cartons >= allocated[c]
                         /\ pallets[c] + At(b, n, p)[c].pallets >= 0
  BY <1>2 DEF At
<1> QED
  BY <1>1, <1>3, PostLedgerStep

\* Transferring between two buckets.
LEMMA TransferStep ==
  ASSUME IInv, NEW b \in Buckets, NEW c \in Buckets, NEW n \in Nat,
         NEW from \in Nat, NEW to \in Nat, TransferStock(b, c, n, from, to)
  PROVE  IInv'
<1> DEFINE change == [At(b, -n, -from) EXCEPT ![c] = [cartons |-> n, pallets |-> to]]
<1>1. /\ b # c
      /\ n <= quantity[b] - allocated[b]
      /\ from <= pallets[b]
      /\ PostLedger(change)
  BY DEF TransferStock, Available
<1>2. change \in [Buckets -> [cartons : Int, pallets : Int]]
  BY DEF At
<1>3. \A x \in Buckets :
        change[x] = IF x = c THEN [cartons |-> n, pallets |-> to]
                    ELSE IF x = b THEN [cartons |-> -n, pallets |-> -from]
                    ELSE [cartons |-> 0, pallets |-> 0]
  BY DEF At
<1>4. \A x \in Buckets :
        /\ quantity[x] \in Nat /\ allocated[x] \in Nat /\ allocated[x] <= quantity[x]
        /\ pallets[x] \in Nat
  BY DEF IInv, TypeOK, NeverOversold
<1> HIDE DEF change
<1>5. \A x \in Buckets : /\ quantity[x] + change[x].cartons >= allocated[x]
                         /\ pallets[x] + change[x].pallets >= 0
  BY <1>1, <1>3, <1>4
<1> QED
  BY <1>1, <1>2, <1>5, PostLedgerStep

-----------------------------------------------------------------------------
(* The invariant                                                           *)

\* The empty warehouse satisfies the invariant.
LEMMA InitIInv == Init => IInv
<1> SUFFICES ASSUME Init PROVE IInv
  OBVIOUS
<1>0. MaxQuantity \in Nat
  BY ConstantsAssumption
<1>1. TypeOK
  BY <1>0 DEF Init, TypeOK, Nothing, NoRows, NoDocument, Documents, Tracking, ContainerStatuses
<1>2. ReservationsMatchRows
  <2> SUFFICES ASSUME NEW b \in Buckets
               PROVE  allocated[b] = Sum([d \in Docs |-> Reserved(d, b)])
    BY DEF ReservationsMatchRows
  <2>1. [d \in Docs |-> Reserved(d, b)] = [d \in Docs |-> 0]
    BY DEF Init, Reserved, NoDocument
  <2> QED
    BY <2>1, SumZero DEF Init, Nothing
<1>3. NeverOversold
  BY DEF Init, NeverOversold, Nothing
<1>4. LedgerMatchesShipments
  BY DEF Init, LedgerMatchesShipments, NoDocument
<1>5. LedgerMatchesBalance
  <2> SUFFICES ASSUME NEW b \in Buckets
               PROVE  /\ quantity[b] = stockLedger[b].cartons
                                         - Sum([d \in Docs |-> shipLedger[d].pick[b]])
                      /\ pallets[b] = stockLedger[b].pallets
                                        - Sum([d \in Docs |-> shipLedger[d].used[b]])
    BY DEF LedgerMatchesBalance
  <2>1. /\ [d \in Docs |-> shipLedger[d].pick[b]] = [d \in Docs |-> 0]
        /\ [d \in Docs |-> shipLedger[d].used[b]] = [d \in Docs |-> 0]
    BY DEF Init, NoRows, Nothing
  <2>2. Sum([d \in Docs |-> 0]) = 0
    BY SumZero
  <2> QED
    BY <2>1, <2>2 DEF Init, Nothing
<1>6. DocumentsSound
  BY DEF Init, DocumentsSound, DocumentSound, NoDocument, Nothing, Picked
<1> QED
  BY <1>1, <1>2, <1>3, <1>4, <1>5, <1>6 DEF IInv

\* Saving a document as a draft that holds no stock keeps the invariant.
LEMMA UnreservedStep ==
  ASSUME IInv, NEW d \in Docs, NEW x \in Documents, DocumentSound(x),
         document[d].status # "CONFIRMED", x.status # "CONFIRMED", x.rows # "RESERVED",
         document' = [document EXCEPT ![d] = x],
         allocated' = Held(d),
         UNCHANGED <<quantity, pallets, stockLedger, shipLedger, containerStatus>>
  PROVE  IInv'
<1>1. \A b \in Buckets :
        /\ allocated'[b] = Held(d)[b] + (IF x.rows = "RESERVED" THEN x.pick[b] ELSE 0)
        /\ allocated'[b] <= quantity[b]
  BY HeldByOthers
<1>2. allocated' \in [Buckets -> Nat]
  BY HeldByOthers
<1> QED
  BY <1>1, <1>2, DraftStep

\* An order saved as a draft, in a status that holds no stock, is sound.
LEMMA DraftSound ==
  ASSUME NEW order, OrderSound(order), NEW t \in Tracking \ {"PICKING", "PACKED"}
  PROVE  /\ Draft(order, t) \in Documents
         /\ DocumentSound(Draft(order, t))
BY DEF Draft, Documents, DocumentSound, OrderSound, Picked

\* The empty document is sound.
LEMMA NoDocumentSound == NoDocument \in Documents /\ DocumentSound(NoDocument)
BY ConstantsAssumption DEF NoDocument, Documents, DocumentSound, Nothing, Tracking, Picked

\* A document stays one whatever its tracking becomes.
LEMMA TrackedDocument ==
  ASSUME NEW doc \in Documents, NEW t \in Tracking
  PROVE  [doc EXCEPT !.tracking = t] \in Documents
BY DEF Documents

\* Every step of a document keeps the invariant.
LEMMA DocumentStepIInv ==
  ASSUME IInv, NEW d \in Docs, DocumentStep(d)
  PROVE  IInv'
<1>1. ASSUME NEW order \in Orders, CreateDraft(d, order)
      PROVE  IInv'
  <2>1. Held(d) = allocated /\ document[d].status # "CONFIRMED"
    BY <1>1 DEF CreateDraft, NoDocument, Held
  <2>2. Draft(order, "SCHEDULED") \in Documents /\ DocumentSound(Draft(order, "SCHEDULED"))
    BY OrdersAreSound, DraftSound DEF Tracking
  <2> QED
    BY <1>1, <2>1, <2>2, UnreservedStep DEF CreateDraft, Draft
<1>2. ASSUME NEW order \in Orders, NEW t \in Tracking, CreateConfirmed(d, order, t)
      PROVE  IInv'
  BY <1>2, OrdersAreSound, ConfirmStep DEF CreateConfirmed, NoDocument
<1>3. ASSUME NEW order \in Orders, NEW t \in Tracking, UpdateReserved(d, order, t)
      PROVE  IInv'
  BY <1>3, OrdersAreSound, ReserveStep DEF UpdateReserved, outboundTrackingRequiresActiveReservation
<1>4. ASSUME NEW order \in Orders, NEW t \in Tracking, UpdateUnreserved(d, order, t)
      PROVE  IInv'
  <2>1. t \in Tracking \ {"PICKING", "PACKED"}
    BY <1>4 DEF UpdateUnreserved, outboundTrackingRequiresActiveReservation
  <2>2. Draft(order, t) \in Documents /\ DocumentSound(Draft(order, t))
    BY <2>1, OrdersAreSound, DraftSound
  <2> QED
    BY <1>4, <2>2, UnreservedStep DEF UpdateUnreserved, Draft
<1>5. ASSUME NEW order \in Orders, NEW t \in Tracking, UpdateConfirmed(d, order, t)
      PROVE  IInv'
  BY <1>5, OrdersAreSound, ConfirmStep DEF UpdateConfirmed
<1>6. ASSUME NEW copy \in Docs, CopyOutboundDocument(d, copy)
      PROVE  IInv'
  <2> DEFINE order == [actual |-> document[d].actual, pick |-> Nothing, used |-> Nothing]
  <2>1. /\ document[copy] = NoDocument
        /\ document' = [document EXCEPT ![copy] = Draft(order, "SCHEDULED")]
    BY <1>6 DEF CopyOutboundDocument
  <2>2. Held(copy) = allocated /\ document[copy].status # "CONFIRMED"
    BY <2>1 DEF NoDocument, Held
  <2>3. document[d].actual \in 0..MaxQuantity
    BY DEF IInv, TypeOK, Documents
  <2>4. OrderSound(order)
    BY <2>3, ConstantsAssumption DEF OrderSound, Nothing, Picked
  <2> HIDE DEF order
  <2>5. /\ Draft(order, "SCHEDULED") \in Documents
        /\ DocumentSound(Draft(order, "SCHEDULED"))
    BY <2>4, DraftSound DEF Tracking
  <2>6. /\ Draft(order, "SCHEDULED").status # "CONFIRMED"
        /\ Draft(order, "SCHEDULED").rows # "RESERVED"
    BY DEF Draft
  <2> QED
    BY <1>6, <2>1, <2>2, <2>5, <2>6, UnreservedStep DEF CopyOutboundDocument
<1>7. ASSUME NEW t \in Tracking, StartPicking(d, t)
      PROVE  IInv'
  BY <1>7, DocumentsAreOrders, ReserveStep DEF StartPicking, outboundTrackingRequiresActiveReservation
<1>8. ASSUME NEW t \in Tracking, MarkShipped(d, t)
      PROVE  IInv'
  BY <1>8, DocumentsAreOrders, ConfirmStep DEF MarkShipped
<1>9. CASE ConfirmOutboundDocument(d)
  <2>1. resolveConfirmedOutboundTrackingStatus(document[d].tracking) \in Shipped
    BY DEF resolveConfirmedOutboundTrackingStatus, Shipped
  <2> QED
    BY <1>9, <2>1, DocumentsAreOrders, ConfirmStep DEF ConfirmOutboundDocument
<1>10. CASE MarkPacked(d)
  <2> DEFINE x == [document[d] EXCEPT !.tracking = "PACKED"]
  <2>1. /\ document[d].status = "DRAFT" /\ document[d].tracking = "PICKING"
        /\ document' = [document EXCEPT ![d] = x]
        /\ UNCHANGED <<quantity, allocated, pallets, stockLedger, shipLedger, containerStatus>>
    BY <1>10 DEF MarkPacked
  <2>2. x \in Documents
    BY TrackedDocument DEF IInv, TypeOK, Tracking
  <2>3. /\ x.tracking = "PACKED" /\ x.status = "DRAFT" /\ x.rows = document[d].rows
        /\ x.pick = document[d].pick /\ x.used = document[d].used
        /\ x.actual = document[d].actual
    BY <2>1 DEF IInv, TypeOK, Documents
  <2> HIDE DEF x
  <2>4. DocumentSound(x)
    BY <2>1, <2>3 DEF IInv, DocumentsSound, DocumentSound, Picked
  <2>5. \A b \in Buckets :
          /\ allocated'[b] = Held(d)[b] + (IF x.rows = "RESERVED" THEN x.pick[b] ELSE 0)
          /\ allocated'[b] <= quantity[b]
    <3> TAKE b \in Buckets
    <3>1. /\ Held(d)[b] = allocated[b] - Reserved(d, b)
          /\ Reserved(d, b) \in Nat
          /\ Held(d)[b] <= quantity[b]
      BY HeldByOthers
    <3>2. Reserved(d, b) = IF x.rows = "RESERVED" THEN x.pick[b] ELSE 0
      BY <2>3 DEF Reserved
    <3>3. allocated[b] \in Nat /\ allocated[b] <= quantity[b] /\ allocated'[b] = allocated[b]
      BY <2>1 DEF IInv, TypeOK, NeverOversold
    <3> QED
      BY <3>1, <3>2, <3>3
  <2>6. allocated' \in [Buckets -> Nat]
    BY <2>1 DEF IInv, TypeOK
  <2>7. document[d].status # "CONFIRMED" /\ x.status # "CONFIRMED"
    BY <2>1, <2>3
  <2> QED
    BY <2>1, <2>2, <2>4, <2>5, <2>6, <2>7, DraftStep
<1>11. CASE MarkBOReceived(d)
  <2> DEFINE x == [document[d] EXCEPT !.tracking = "BO_RECEIVED"]
  <2>1. /\ document[d].status = "CONFIRMED" /\ document[d].tracking = "SHIPPED"
        /\ document' = [document EXCEPT ![d] = x]
        /\ UNCHANGED <<quantity, allocated, pallets, stockLedger, shipLedger, containerStatus>>
    BY <1>11 DEF MarkBOReceived
  <2>2. x \in Documents
    BY TrackedDocument DEF IInv, TypeOK, Tracking
  <2>3. /\ x.tracking = "BO_RECEIVED" /\ x.status = "CONFIRMED" /\ x.rows = document[d].rows
        /\ x.pick = document[d].pick /\ x.used = document[d].used
        /\ x.actual = document[d].actual
    BY <2>1 DEF IInv, TypeOK, Documents
  <2> HIDE DEF x
  <2>4. DocumentSound(x) /\ x.rows # "RESERVED"
    BY <2>1, <2>3 DEF IInv, DocumentsSound, DocumentSound, Picked
  <2>5. Held(d) = allocated
    BY <2>3, <2>4 DEF Held
  <2>6. \A b \in Buckets : allocated'[b] = Held(d)[b] + 0
    BY <2>1, <2>5, HeldByOthers
  <2>7. allocated' \in [Buckets -> Nat]
    BY <2>1 DEF IInv, TypeOK
  <2>8. /\ document' \in [Docs -> Documents]
        /\ ReservationsMatchRows'
        /\ DocumentsSound'
    BY <2>1, <2>2, <2>4, <2>6, <2>7, DocumentChanges
  <2>9. LedgerMatchesShipments'
    BY <2>1, <2>3 DEF IInv, TypeOK, LedgerMatchesShipments
  <2>10. NeverOversold' /\ LedgerMatchesBalance'
    BY <2>1 DEF IInv, NeverOversold, LedgerMatchesBalance
  <2>11. TypeOK'
    BY <2>1, <2>8 DEF IInv, TypeOK
  <2> QED
    BY <2>8, <2>9, <2>10, <2>11 DEF IInv
<1>12. CASE CancelDraft(d)
  <2>1. NoDocument.status # "CONFIRMED" /\ NoDocument.rows # "RESERVED"
    BY DEF NoDocument
  <2> QED
    BY <1>12, <2>1, NoDocumentSound, UnreservedStep DEF CancelDraft
<1>13. CASE CancelConfirmed(d)
  BY <1>13, CancelConfirmedStep
<1> QED
  BY <1>1, <1>2, <1>3, <1>4, <1>5, <1>6, <1>7, <1>8, <1>9, <1>10, <1>11, <1>12, <1>13
  DEF DocumentStep

\* Every step of another writer of the balances keeps the invariant.
LEMMA StockStepIInv ==
  ASSUME IInv, NEW b \in Buckets, StockStep(b)
  PROVE  IInv'
<1>0. /\ MaxQuantity \in Nat /\ MaxPallets \in Nat
      /\ quantity[b] \in Nat /\ allocated[b] \in Nat /\ pallets[b] \in Nat
      /\ allocated[b] <= quantity[b]
  BY ConstantsAssumption DEF IInv, TypeOK, NeverOversold
<1>1. PICK n \in 0..MaxQuantity, p \in 0..MaxPallets :
        \/ ReceiveStock(b, n, p)
        \/ AdjustStock(b, n, p)
        \/ CountStock(b, n, p)
        \/ \E c \in Buckets, to \in 0..MaxPallets : TransferStock(b, c, n, p, to)
  BY DEF StockStep
<1>2. n \in Nat /\ p \in Nat
  BY <1>0
<1>3. CASE ReceiveStock(b, n, p)
  BY <1>0, <1>2, <1>3, BucketStep DEF ReceiveStock
<1>4. CASE SetBalance(b, n, p)
  <2>1. /\ n >= allocated[b]
        /\ PostLedger(At(b, n - quantity[b], p - pallets[b]))
    BY <1>4 DEF SetBalance
  <2>2. /\ n - quantity[b] \in Int /\ p - pallets[b] \in Int
        /\ quantity[b] + (n - quantity[b]) >= allocated[b]
        /\ pallets[b] + (p - pallets[b]) >= 0
    BY <1>0, <1>2, <2>1
  <2> QED
    BY <2>1, <2>2, BucketStep
<1>5. ASSUME NEW c \in Buckets, NEW to \in 0..MaxPallets, TransferStock(b, c, n, p, to)
      PROVE  IInv'
  BY <1>0, <1>2, <1>5, TransferStep
<1> QED
  BY <1>1, <1>3, <1>4, <1>5 DEF AdjustStock, CountStock

\* The invariant is inductive.
THEOREM InductiveInvariant == Spec => []IInv
<1>1. Init => IInv
  BY InitIInv
<1>2. IInv /\ [Next]_vars => IInv'
  <2> SUFFICES ASSUME IInv, [Next]_vars PROVE IInv'
    OBVIOUS
  <2>1. CASE UNCHANGED vars
    BY <2>1 DEF vars, IInv, TypeOK, ReservationsMatchRows, Reserved, NeverOversold,
                LedgerMatchesShipments, LedgerMatchesBalance, DocumentsSound
  <2>2. CASE Next
    BY <2>2, DocumentStepIInv, StockStepIInv DEF Next
  <2> QED
    BY <2>1, <2>2
<1> QED
  BY <1>1, <1>2, PTL DEF Spec

-----------------------------------------------------------------------------
(* What follows                                                            *)

\* Every table holds values of its types: no balance, reservation or pallet
\* count of any bucket ever becomes negative.
THEOREM TypeCorrect == Spec => []TypeOK
<1>1. IInv => TypeOK
  BY DEF IInv
<1> QED
  BY <1>1, InductiveInvariant, PTL

\* allocated_qty always is the sum of the RESERVED rows.
THEOREM ReservationsCorrect == Spec => []ReservationsMatchRows
<1>1. IInv => ReservationsMatchRows
  BY DEF IInv
<1> QED
  BY <1>1, InductiveInvariant, PTL

\* No bucket is ever oversold.
THEOREM NoOverselling == Spec => []NeverOversold
<1>1. IInv => NeverOversold
  BY DEF IInv
<1> QED
  BY <1>1, InductiveInvariant, PTL

\* The balances are what the ledger adds up to, cartons and pallets.
THEOREM LedgerCorrect == Spec => []LedgerMatchesBalance
<1>1. IInv => LedgerMatchesBalance
  BY DEF IInv
<1> QED
  BY <1>1, InductiveInvariant, PTL

\* The ledger says of every document what its allocations say.
THEOREM ShipmentsCorrect == Spec => []LedgerMatchesShipments
<1>1. IInv => LedgerMatchesShipments
  BY DEF IInv
<1> QED
  BY <1>1, InductiveInvariant, PTL

\* A document being picked or packed holds its whole quantity, and no other
\* document holds any.
THEOREM PickingCorrect == Spec => []PickingHoldsStock
<1>1. IInv => PickingHoldsStock
  <2> SUFFICES ASSUME IInv, NEW d \in Docs
               PROVE  /\ document[d].rows = "RESERVED" <=>
                           /\ document[d].status = "DRAFT"
                           /\ document[d].tracking \in {"PICKING", "PACKED"}
                           /\ document[d].actual > 0
                      /\ document[d].rows \in {"RESERVED", "SHIPPED"} =>
                           Sum(document[d].pick) = document[d].actual
    BY DEF PickingHoldsStock
  <2> QED
    BY DEF IInv, DocumentsSound, DocumentSound
<1> QED
  BY <1>1, InductiveInvariant, PTL

\* The other writers of the balances leave documents alone.
LEMMA StockStepPosts ==
  ASSUME NEW b \in Buckets, StockStep(b)
  PROVE  UNCHANGED <<allocated, document, shipLedger>>
<1>1. \A change : PostLedger(change) => UNCHANGED <<allocated, document, shipLedger>>
  BY DEF PostLedger
<1> QED
  BY <1>1 DEF StockStep, ReceiveStock, AdjustStock, CountStock, SetBalance, TransferStock

\* A confirmed shipment is immutable until it is cancelled.
THEOREM ConfirmedStays == Spec => ConfirmedImmutable
<1>1. ASSUME IInv, [Next]_vars, NEW d \in Docs,
             document[d].status = "CONFIRMED", document'[d] # NoDocument
      PROVE  /\ document'[d] = [document[d] EXCEPT !.tracking = document'[d].tracking]
             /\ document'[d].tracking \in {document[d].tracking, "BO_RECEIVED"}
             /\ shipLedger'[d] = shipLedger[d]
  <2>1. /\ document \in [Docs -> Documents]
        /\ document[d] \in Documents
        /\ shipLedger \in [Docs -> [pick : [Buckets -> 0..MaxQuantity], used : [Buckets -> Nat]]]
    BY <1>1 DEF IInv, TypeOK
  <2>2. document[d] = [document[d] EXCEPT !.tracking = document[d].tracking]
    BY <2>1 DEF Documents
  <2>3. CASE document'[d] = document[d] /\ shipLedger'[d] = shipLedger[d]
    BY <2>2, <2>3
  <2>4. CASE MarkBOReceived(d)
    <3>1. document'[d] = [document[d] EXCEPT !.tracking = "BO_RECEIVED"]
      BY <2>1, <2>4 DEF MarkBOReceived
    <3>2. document'[d].tracking = "BO_RECEIVED"
      BY <2>1, <3>1 DEF Documents
    <3> QED
      BY <2>4, <3>1, <3>2 DEF MarkBOReceived
  <2>5. CASE CancelConfirmed(d)
    BY <1>1, <2>1, <2>5 DEF CancelConfirmed
  <2>6. ASSUME NEW e \in Docs, DocumentStep(e)
        PROVE  \/ document'[d] = document[d] /\ shipLedger'[d] = shipLedger[d]
               \/ MarkBOReceived(d)
               \/ CancelConfirmed(d)
    <3>1. ASSUME NEW order, NEW t, confirmOutboundDocument(e, order, t), e # d
          PROVE  document'[d] = document[d] /\ shipLedger'[d] = shipLedger[d]
      BY <2>1, <3>1 DEF confirmOutboundDocument
    <3>2. ASSUME NEW order, NEW t, Reserve(e, order, t), e # d
          PROVE  document'[d] = document[d] /\ shipLedger'[d] = shipLedger[d]
      BY <2>1, <3>2 DEF Reserve
    <3>3. document[d] # NoDocument
      BY <1>1 DEF NoDocument
    <3>4. ASSUME NEW order \in Orders, CreateDraft(e, order)
          PROVE  document'[d] = document[d] /\ shipLedger'[d] = shipLedger[d]
      BY <2>1, <3>3, <3>4 DEF CreateDraft
    <3>5. ASSUME NEW order \in Orders, NEW t \in Tracking,
                 \/ CreateConfirmed(e, order, t)
                 \/ UpdateReserved(e, order, t)
                 \/ UpdateUnreserved(e, order, t)
                 \/ UpdateConfirmed(e, order, t)
          PROVE  document'[d] = document[d] /\ shipLedger'[d] = shipLedger[d]
      <4>1. e # d
        BY <1>1, <3>3, <3>5 DEF CreateConfirmed, UpdateReserved, UpdateUnreserved, UpdateConfirmed
      <4>2. CASE UpdateUnreserved(e, order, t)
        BY <2>1, <4>1, <4>2 DEF UpdateUnreserved
      <4> QED
        BY <3>1, <3>2, <3>5, <4>1, <4>2 DEF CreateConfirmed, UpdateReserved, UpdateConfirmed
    <3>6. ASSUME NEW copy \in Docs, CopyOutboundDocument(e, copy)
          PROVE  document'[d] = document[d] /\ shipLedger'[d] = shipLedger[d]
      BY <2>1, <3>3, <3>6 DEF CopyOutboundDocument
    <3>7. ASSUME NEW t \in Tracking, StartPicking(e, t) \/ MarkShipped(e, t)
          PROVE  document'[d] = document[d] /\ shipLedger'[d] = shipLedger[d]
      <4>1. e # d
        BY <1>1, <3>7 DEF StartPicking, MarkShipped
      <4> QED
        BY <3>1, <3>2, <3>7, <4>1 DEF StartPicking, MarkShipped
    <3>8. CASE ConfirmOutboundDocument(e)
      <4>1. e # d
        BY <1>1, <3>8 DEF ConfirmOutboundDocument
      <4> QED
        BY <3>1, <3>8, <4>1 DEF ConfirmOutboundDocument
    <3>9. CASE MarkPacked(e) \/ CancelDraft(e)
      BY <1>1, <2>1, <3>9 DEF MarkPacked, CancelDraft
    <3>10. CASE MarkBOReceived(e)
      BY <2>1, <3>10 DEF MarkBOReceived
    <3>11. CASE CancelConfirmed(e)
      BY <2>1, <3>11 DEF CancelConfirmed
    <3> QED
      BY <2>6, <3>4, <3>5, <3>6, <3>7, <3>8, <3>9, <3>10, <3>11 DEF DocumentStep
  <2>7. ASSUME NEW b \in Buckets, StockStep(b)
        PROVE  document'[d] = document[d] /\ shipLedger'[d] = shipLedger[d]
    BY <2>7, StockStepPosts
  <2>8. CASE UNCHANGED vars
    BY <2>3, <2>8 DEF vars
  <2> QED
    BY <1>1, <2>3, <2>4, <2>5, <2>6, <2>7, <2>8 DEF Next
<1>2. IInv /\ [Next]_vars =>
        [\A d \in Docs : document[d].status = "CONFIRMED" /\ document'[d] # NoDocument =>
            /\ document'[d] = [document[d] EXCEPT !.tracking = document'[d].tracking]
            /\ document'[d].tracking \in {document[d].tracking, "BO_RECEIVED"}
            /\ shipLedger'[d] = shipLedger[d]]_vars
  BY <1>1
<1> QED
  BY <1>2, InductiveInvariant, PTL DEF Spec, ConfirmedImmutable

-----------------------------------------------------------------------------
(* The status of a container is current, though a transaction only          *)
(* recomputes the containers whose buckets it wrote ledger rows for.       *)

\* The projection of a container depends on the balances and the ledger rows
\* of its buckets only.
LEMMA ProjectionOfBuckets ==
  ASSUME NEW c \in Containers, NEW q, NEW p, NEW s, NEW q1, NEW p1, NEW s1,
         \A b \in Buckets : ContainerOf[b] = c =>
            /\ q1[b] = q[b] /\ p1[b] = p[b]
            /\ \A d \in Docs : s1[d].pick[b] = s[d].pick[b] /\ s1[d].used[b] = s[d].used[b]
  PROVE  ProjectedStatus(c, q1, p1, s1) = ProjectedStatus(c, q, p, s)
<1> DEFINE inside == {b \in Buckets : ContainerOf[b] = c}
           stock(qty, plt) == \E b \in inside : qty[b] > 0 \/ plt[b] > 0
           shipped(ledger) ==
               \E d \in Docs, b \in inside : ledger[d].pick[b] > 0 \/ ledger[d].used[b] > 0
<1>1. stock(q1, p1) = stock(q, p)
  OBVIOUS
<1>2. shipped(s1) = shipped(s)
  OBVIOUS
<1>3. /\ ProjectedStatus(c, q, p, s) =
             resolveContainerInventoryStatus(stock(q, p), shipped(s))
      /\ ProjectedStatus(c, q1, p1, s1) =
             resolveContainerInventoryStatus(stock(q1, p1), shipped(s1))
  BY DEF ProjectedStatus
<1> HIDE DEF stock, shipped
<1> QED
  BY <1>1, <1>2, <1>3

\* A step that recomputes the containers of every bucket it touches leaves
\* every status current.
LEMMA RecomputedCurrent ==
  ASSUME ContainerStatusCurrent, containerStatus \in [Containers -> ContainerStatuses],
         NEW touched, recomputeContainerProjection(touched),
         \A b \in Buckets \ touched :
            /\ quantity'[b] = quantity[b] /\ pallets'[b] = pallets[b]
            /\ \A d \in Docs : /\ shipLedger'[d].pick[b] = shipLedger[d].pick[b]
                               /\ shipLedger'[d].used[b] = shipLedger[d].used[b]
  PROVE  ContainerStatusCurrent'
<1> SUFFICES ASSUME NEW c \in Containers
             PROVE  containerStatus'[c] = ProjectedStatus(c, quantity', pallets', shipLedger')
  BY DEF ContainerStatusCurrent, ProjectedStatus
<1>1. CASE \E b \in touched : ContainerOf[b] = c
  BY <1>1 DEF recomputeContainerProjection
<1>2. CASE ~\E b \in touched : ContainerOf[b] = c
  <2>1. containerStatus'[c] = ProjectedStatus(c, quantity, pallets, shipLedger)
    BY <1>2 DEF recomputeContainerProjection, ContainerStatusCurrent
  <2>2. \A b \in Buckets : ContainerOf[b] = c =>
            /\ quantity'[b] = quantity[b] /\ pallets'[b] = pallets[b]
            /\ \A d \in Docs : /\ shipLedger'[d].pick[b] = shipLedger[d].pick[b]
                               /\ shipLedger'[d].used[b] = shipLedger[d].used[b]
    BY <1>2
  <2>3. ProjectedStatus(c, quantity', pallets', shipLedger')
          = ProjectedStatus(c, quantity, pallets, shipLedger)
    BY <2>2, ProjectionOfBuckets
  <2> QED
    BY <2>1, <2>3
<1> QED
  BY <1>1, <1>2

\* A step that writes no ledger row leaves every status current.
LEMMA UntouchedCurrent ==
  ASSUME ContainerStatusCurrent,
         UNCHANGED <<quantity, pallets, shipLedger, containerStatus>>
  PROVE  ContainerStatusCurrent'
BY DEF ContainerStatusCurrent, ProjectedStatus

-----------------------------------------------------------------------------
(* The steps                                                               *)

\* Confirming touches the buckets it ships from: a row without cartons has no
\* pallets.
LEMMA ConfirmCurrent ==
  ASSUME IInv, ContainerStatusCurrent,
         NEW d \in Docs, NEW order, OrderSound(order), NEW tracking,
         document[d].status # "CONFIRMED",
         confirmOutboundDocument(d, order, tracking)
  PROVE  ContainerStatusCurrent'
<1>1. PICK r \in reserveOutboundDocumentLines(order, Held(d)) :
        /\ applyContainerInventoryLedgerDelta(Out(r))
        /\ shipLedger' = [shipLedger EXCEPT ![d] = r]
        /\ recomputeContainerProjection({b \in Buckets : r.pick[b] > 0})
  BY DEF confirmOutboundDocument
<1>2. RowsSound(r, order, Held(d))
  BY RowsAreSound
<1>3. shipLedger[d] = NoRows
  BY DEF IInv, LedgerMatchesShipments
<1>4. ASSUME NEW b \in Buckets, ~(r.pick[b] > 0)
      PROVE  /\ quantity'[b] = quantity[b] /\ pallets'[b] = pallets[b]
             /\ \A e \in Docs : /\ shipLedger'[e].pick[b] = shipLedger[e].pick[b]
                                /\ shipLedger'[e].used[b] = shipLedger[e].used[b]
  <2>1. r.pick[b] = 0 /\ r.used[b] = 0
    BY <1>2, <1>4, ConstantsAssumption DEF RowsSound
  <2>2. quantity[b] \in Nat /\ pallets[b] \in Nat
    BY DEF IInv, TypeOK
  <2>3. quantity'[b] = quantity[b] /\ pallets'[b] = pallets[b]
    BY <1>1, <2>1, <2>2 DEF applyContainerInventoryLedgerDelta, Out
  <2>4. shipLedger[d].pick[b] = 0 /\ shipLedger[d].used[b] = 0
    BY <1>3 DEF NoRows, Nothing
  <2>5. \A e \in Docs : /\ shipLedger'[e].pick[b] = shipLedger[e].pick[b]
                        /\ shipLedger'[e].used[b] = shipLedger[e].used[b]
    BY <1>1, <2>1, <2>4 DEF IInv, TypeOK
  <2> QED
    BY <2>3, <2>5
<1> QED
  BY <1>1, <1>4, RecomputedCurrent DEF IInv, TypeOK

\* Cancelling touches the buckets it gives back to.
LEMMA CancelCurrent ==
  ASSUME IInv, ContainerStatusCurrent, NEW d \in Docs, CancelConfirmed(d)
  PROVE  ContainerStatusCurrent'
<1>1. /\ document[d].status = "CONFIRMED"
      /\ applyContainerInventoryLedgerDelta(Back(document[d]))
      /\ shipLedger' = [shipLedger EXCEPT ![d] = NoRows]
      /\ recomputeContainerProjection({b \in Buckets : document[d].pick[b] > 0})
  BY DEF CancelConfirmed
<1>2. shipLedger[d] = [pick |-> document[d].pick, used |-> document[d].used]
  BY <1>1 DEF IInv, LedgerMatchesShipments
<1>3. ASSUME NEW b \in Buckets, ~(document[d].pick[b] > 0)
      PROVE  /\ quantity'[b] = quantity[b] /\ pallets'[b] = pallets[b]
             /\ \A e \in Docs : /\ shipLedger'[e].pick[b] = shipLedger[e].pick[b]
                                /\ shipLedger'[e].used[b] = shipLedger[e].used[b]
  <2>1. document[d].pick[b] = 0 /\ document[d].used[b] = 0
    BY <1>3, ConstantsAssumption DEF IInv, TypeOK, Documents, DocumentsSound, DocumentSound
  <2>2. quantity[b] \in Nat /\ pallets[b] \in Nat
    BY DEF IInv, TypeOK
  <2>3. quantity'[b] = quantity[b] /\ pallets'[b] = pallets[b]
    BY <1>1, <2>1, <2>2 DEF applyContainerInventoryLedgerDelta, Back
  <2>4. NoRows.pick[b] = 0 /\ NoRows.used[b] = 0
    BY DEF NoRows, Nothing
  <2>5. \A e \in Docs : /\ shipLedger'[e].pick[b] = shipLedger[e].pick[b]
                        /\ shipLedger'[e].used[b] = shipLedger[e].used[b]
    BY <1>1, <1>2, <2>1, <2>4 DEF IInv, TypeOK
  <2> QED
    BY <2>3, <2>5
<1> QED
  BY <1>1, <1>3, RecomputedCurrent DEF IInv, TypeOK

\* The other writers touch the buckets whose balance they change.
LEMMA PostLedgerCurrent ==
  ASSUME IInv, ContainerStatusCurrent, NEW change, PostLedger(change)
  PROVE  ContainerStatusCurrent'
<1>1. /\ applyContainerInventoryLedgerDelta(change)
      /\ UNCHANGED shipLedger
      /\ recomputeContainerProjection({b \in Buckets : change[b] # [cartons |-> 0, pallets |-> 0]})
  BY DEF PostLedger
<1>2. ASSUME NEW b \in Buckets, change[b] = [cartons |-> 0, pallets |-> 0]
      PROVE  quantity'[b] = quantity[b] /\ pallets'[b] = pallets[b]
  <2>1. quantity[b] \in Nat /\ pallets[b] \in Nat
    BY DEF IInv, TypeOK
  <2> QED
    BY <1>1, <1>2, <2>1 DEF applyContainerInventoryLedgerDelta
<1> QED
  BY <1>1, <1>2, RecomputedCurrent DEF IInv, TypeOK

\* Every step of a document leaves the statuses current.
LEMMA DocumentStepCurrent ==
  ASSUME IInv, ContainerStatusCurrent, NEW d \in Docs, DocumentStep(d)
  PROVE  ContainerStatusCurrent'
<1>1. ASSUME NEW order, NEW t, Reserve(d, order, t)
      PROVE  ContainerStatusCurrent'
  BY <1>1, UntouchedCurrent DEF Reserve
<1>2. ASSUME NEW order \in Orders, CreateDraft(d, order)
      PROVE  ContainerStatusCurrent'
  BY <1>2, UntouchedCurrent DEF CreateDraft
<1>3. ASSUME NEW order \in Orders, NEW t \in Tracking,
             CreateConfirmed(d, order, t) \/ UpdateConfirmed(d, order, t)
      PROVE  ContainerStatusCurrent'
  <2>1. document[d].status # "CONFIRMED" /\ confirmOutboundDocument(d, order, t)
    BY <1>3 DEF CreateConfirmed, UpdateConfirmed, NoDocument
  <2> QED
    BY <2>1, OrdersAreSound, ConfirmCurrent
<1>4. ASSUME NEW order \in Orders, NEW t \in Tracking,
             UpdateReserved(d, order, t) \/ UpdateUnreserved(d, order, t)
      PROVE  ContainerStatusCurrent'
  BY <1>1, <1>4, UntouchedCurrent DEF UpdateReserved, UpdateUnreserved
<1>5. ASSUME NEW copy \in Docs, CopyOutboundDocument(d, copy)
      PROVE  ContainerStatusCurrent'
  BY <1>5, UntouchedCurrent DEF CopyOutboundDocument
<1>6. ASSUME NEW t \in Tracking, StartPicking(d, t)
      PROVE  ContainerStatusCurrent'
  BY <1>1, <1>6 DEF StartPicking
<1>7. ASSUME NEW t, document[d].status = "DRAFT", confirmOutboundDocument(d, document[d], t)
      PROVE  ContainerStatusCurrent'
  BY <1>7, DocumentsAreOrders, ConfirmCurrent
<1>8. ASSUME NEW t \in Tracking, MarkShipped(d, t)
      PROVE  ContainerStatusCurrent'
  BY <1>7, <1>8 DEF MarkShipped
<1>9. CASE ConfirmOutboundDocument(d)
  BY <1>7, <1>9 DEF ConfirmOutboundDocument
<1>10. CASE MarkPacked(d) \/ MarkBOReceived(d) \/ CancelDraft(d)
  BY <1>10, UntouchedCurrent DEF MarkPacked, MarkBOReceived, CancelDraft
<1>11. CASE CancelConfirmed(d)
  BY <1>11, CancelCurrent
<1> QED
  BY <1>2, <1>3, <1>4, <1>5, <1>6, <1>8, <1>9, <1>10, <1>11 DEF DocumentStep

\* So does every step of another writer of the balances.
LEMMA StockStepCurrent ==
  ASSUME IInv, ContainerStatusCurrent, NEW b \in Buckets, StockStep(b)
  PROVE  ContainerStatusCurrent'
<1>1. \E change : PostLedger(change)
  BY DEF StockStep, ReceiveStock, AdjustStock, CountStock, SetBalance, TransferStock
<1> QED
  BY <1>1, PostLedgerCurrent

\* At first there is no stock and no shipment, and every container is depleted.
LEMMA InitCurrent == Init => ContainerStatusCurrent
BY DEF Init, ContainerStatusCurrent, ProjectedStatus, resolveContainerInventoryStatus,
       Nothing, NoRows

\* The status of every container always says what its balances and its
\* unreversed shipments say.
THEOREM ContainersCorrect == Spec => []ContainerStatusCurrent
<1>1. Init => ContainerStatusCurrent
  BY InitCurrent
<1>2. IInv /\ ContainerStatusCurrent /\ [Next]_vars => ContainerStatusCurrent'
  <2> SUFFICES ASSUME IInv, ContainerStatusCurrent, [Next]_vars
               PROVE  ContainerStatusCurrent'
    OBVIOUS
  <2>1. CASE UNCHANGED vars
    BY <2>1, UntouchedCurrent DEF vars
  <2>2. CASE Next
    BY <2>2, DocumentStepCurrent, StockStepCurrent DEF Next
  <2> QED
    BY <2>1, <2>2
<1> QED
  BY <1>1, <1>2, InductiveInvariant, PTL DEF Spec
=============================================================================
