---------------------- MODULE OutboundStockRefinement ----------------------
(***************************************************************************)
(* OutboundStock implements StockPromises: reservations are promises, SHIP *)
(* ledger rows are deliveries.                                             *)
(***************************************************************************)
EXTENDS OutboundStockProofs

\* What the code has reserved is covered by what is on hand.
LEMMA IInvCovered == IInv => Promises!Covered
<1> SUFFICES ASSUME IInv, NEW b \in Buckets
             PROVE  Sum([d \in Docs |-> Promised[d][b]]) <= quantity[b]
  BY DEF Promises!Covered
<1>1. [d \in Docs |-> Promised[d][b]] = [d \in Docs |-> Reserved(d, b)]
  BY DEF Promised
<1> QED
  BY <1>1 DEF IInv, NeverOversold, ReservationsMatchRows

\* A document that is not confirmed has delivered nothing.
LEMMA NothingDelivered ==
  ASSUME IInv, NEW d \in Docs, document[d].status # "CONFIRMED"
  PROVE  Delivered[d] = Promises!Nothing
<1>1. shipLedger[d] = NoRows
  BY DEF IInv, LedgerMatchesShipments
<1> QED
  BY <1>1 DEF Delivered, NoRows, Nothing, Promises!Nothing

\* A change of one document changes what is promised to that document alone.
LEMMA PromiseChanges ==
  ASSUME NEW d \in Docs, \A e \in Docs \ {d} : document'[e] = document[e]
  PROVE  Promised' = [Promised EXCEPT ![d] = Promised'[d]]
<1>1. \A e \in Docs \ {d} : Promised'[e] = Promised[e]
  BY DEF Promised, Reserved
<1>2. Promised = [e \in Docs |-> Promised[e]] /\ Promised' = [e \in Docs |-> Promised'[e]]
  BY DEF Promised
<1> QED
  BY <1>1, <1>2

\* A step of one draft, whatever it saves, makes a promise.
LEMMA DraftPromises ==
  ASSUME IInv, IInv', NEW d \in Docs, document[d].status # "CONFIRMED",
         \A e \in Docs \ {d} : document'[e] = document[e],
         UNCHANGED <<quantity, shipLedger>>
  PROVE  Promises!Promise(d)
<1>1. Promised' = [Promised EXCEPT ![d] = Promised'[d]]
  BY PromiseChanges
<1>2. Promised'[d] \in Promises!Goods
  <2>1. \A b \in Buckets : Reserved(d, b)' \in 0..MaxQuantity
    BY ConstantsAssumption DEF IInv, TypeOK, Documents, Reserved
  <2> QED
    BY <2>1 DEF Promised, Promises!Goods
<1>3. Delivered[d] = Promises!Nothing
  BY NothingDelivered
<1> QED
  BY <1>1, <1>2, <1>3
  DEF Promises!Promise, Promised, Delivered

\* A confirmation delivers.
LEMMA ConfirmDelivers ==
  ASSUME IInv, IInv', NEW d \in Docs, NEW order, NEW tracking,
         document[d].status # "CONFIRMED",
         confirmOutboundDocument(d, order, tracking)
  PROVE  Promises!Deliver(d)
<1>1. PICK r \in reserveOutboundDocumentLines(order, Held(d)) :
        /\ applyContainerInventoryLedgerDelta(Out(r))
        /\ shipLedger' = [shipLedger EXCEPT ![d] = r]
        /\ document' = [document EXCEPT ![d] =
                [status |-> "CONFIRMED", tracking |-> tracking, actual |-> order.actual,
                 rows |-> IF order.actual = 0 THEN "NONE" ELSE "SHIPPED",
                 pick |-> r.pick, used |-> r.used]]
  BY DEF confirmOutboundDocument
<1>2. document'[d].rows # "RESERVED"
  BY <1>1 DEF IInv, TypeOK
<1>3. Promised'[d] = Promises!Nothing
  BY <1>2 DEF Promised, Reserved, Promises!Nothing
<1>4. Promised' = [Promised EXCEPT ![d] = Promises!Nothing]
  BY <1>1, <1>3, PromiseChanges
<1>5. Delivered' = [Delivered EXCEPT ![d] = r.pick]
  BY <1>1 DEF Delivered, IInv, TypeOK
<1>6. r.pick \in Promises!Goods
  <2>1. shipLedger'[d] = r
    BY <1>1 DEF IInv, TypeOK
  <2> QED
    BY <2>1 DEF IInv, TypeOK, Promises!Goods
<1>7. quantity' = [b \in Buckets |-> quantity[b] - r.pick[b]]
  <2>1. \A b \in Buckets : r.pick[b] \in Int /\ quantity[b] \in Int
    BY <1>6, ConstantsAssumption DEF Promises!Goods, IInv, TypeOK
  <2>2. \A b \in Buckets : Out(r)[b].cartons = -r.pick[b]
    BY DEF Out
  <2> QED
    BY <1>1, <2>1, <2>2 DEF applyContainerInventoryLedgerDelta
<1>8. Delivered[d] = Promises!Nothing
  BY NothingDelivered
<1> QED
  BY <1>1, <1>4, <1>5, <1>6, <1>7, <1>8
  DEF Promises!Deliver, Promised, Delivered

\* Cancelling a confirmed document takes back what it delivered.
LEMMA CancelReturns ==
  ASSUME IInv, NEW d \in Docs, CancelConfirmed(d)
  PROVE  Promises!Return(d)
<1>1. /\ document[d].status = "CONFIRMED"
      /\ quantity' = [b \in Buckets |-> quantity[b] + document[d].pick[b]]
      /\ shipLedger' = [shipLedger EXCEPT ![d] = NoRows]
      /\ document' = [document EXCEPT ![d] = NoDocument]
  <2>1. \A b \in Buckets : Back(document[d])[b].cartons = document[d].pick[b]
    BY DEF Back
  <2> QED
    BY <2>1 DEF CancelConfirmed, applyContainerInventoryLedgerDelta
<1>2. shipLedger[d].pick = document[d].pick
  <2>1. shipLedger[d] = [pick |-> document[d].pick, used |-> document[d].used]
    BY <1>1 DEF IInv, LedgerMatchesShipments
  <2> QED
    BY <2>1
<1>3. Delivered' = [Delivered EXCEPT ![d] = Promises!Nothing]
  BY <1>1 DEF Delivered, IInv, TypeOK, NoRows, Nothing, Promises!Nothing
<1>4. quantity' = [b \in Buckets |-> quantity[b] + Delivered[d][b]]
  BY <1>1, <1>2 DEF Delivered
<1>5. Promised' = Promised
  <2>1. document[d].rows # "RESERVED" /\ document'[d].rows # "RESERVED"
    BY <1>1 DEF IInv, TypeOK, DocumentsSound, DocumentSound, NoDocument
  <2>2. Promised'[d] = Promised[d]
    BY <2>1 DEF Promised, Reserved
  <2>3. \A e \in Docs \ {d} : document'[e] = document[e]
    BY <1>1 DEF IInv, TypeOK
  <2>4. Promised' = [Promised EXCEPT ![d] = Promised[d]]
    BY <2>2, <2>3, PromiseChanges
  <2> QED
    BY <2>4 DEF Promised
<1> QED
  BY <1>3, <1>4, <1>5 DEF Promises!Return, Promised, Delivered

\* A step of a document is an abstract step of it, or of the copy it makes.
LEMMA DocumentStepPromises ==
  ASSUME IInv, IInv', NEW d \in Docs, DocumentStep(d)
  PROVE  \/ \E e \in Docs : Promises!Promise(e) \/ Promises!Deliver(e) \/ Promises!Return(e)
         \/ UNCHANGED <<quantity, Promised, Delivered>>
<1>0. document \in [Docs -> Documents]
  BY DEF IInv, TypeOK
<1>1. ASSUME NEW order \in Orders, CreateDraft(d, order)
      PROVE  Promises!Promise(d)
  BY <1>0, <1>1, DraftPromises DEF CreateDraft, NoDocument
<1>2. ASSUME NEW order \in Orders, NEW t \in Tracking,
             CreateConfirmed(d, order, t) \/ UpdateConfirmed(d, order, t)
      PROVE  Promises!Deliver(d)
  BY <1>2, ConfirmDelivers DEF CreateConfirmed, UpdateConfirmed, NoDocument
<1>3. ASSUME NEW order, NEW t, Reserve(d, order, t), document[d].status = "DRAFT"
      PROVE  Promises!Promise(d)
  <2>1. /\ \A e \in Docs \ {d} : document'[e] = document[e]
        /\ UNCHANGED <<quantity, shipLedger>>
    BY <1>0, <1>3 DEF Reserve
  <2> QED
    BY <1>3, <2>1, DraftPromises
<1>4. ASSUME NEW order \in Orders, NEW t \in Tracking, UpdateReserved(d, order, t)
      PROVE  Promises!Promise(d)
  BY <1>3, <1>4 DEF UpdateReserved
<1>5. ASSUME NEW order \in Orders, NEW t \in Tracking, UpdateUnreserved(d, order, t)
      PROVE  Promises!Promise(d)
  BY <1>0, <1>5, DraftPromises DEF UpdateUnreserved
<1>6. ASSUME NEW copy \in Docs, CopyOutboundDocument(d, copy)
      PROVE  Promises!Promise(copy)
  <2>1. /\ document[copy].status # "CONFIRMED"
        /\ \A e \in Docs \ {copy} : document'[e] = document[e]
        /\ UNCHANGED <<quantity, shipLedger>>
    BY <1>0, <1>6 DEF CopyOutboundDocument, NoDocument
  <2> QED
    BY <2>1, DraftPromises
<1>7. ASSUME NEW t \in Tracking, StartPicking(d, t)
      PROVE  Promises!Promise(d)
  BY <1>3, <1>7 DEF StartPicking
<1>8. ASSUME NEW t \in Tracking, MarkShipped(d, t)
      PROVE  Promises!Deliver(d)
  BY <1>8, ConfirmDelivers DEF MarkShipped
<1>9. ASSUME ConfirmOutboundDocument(d)
      PROVE  Promises!Deliver(d)
  BY <1>9, ConfirmDelivers DEF ConfirmOutboundDocument
<1>10. ASSUME MarkPacked(d) \/ CancelDraft(d)
       PROVE  Promises!Promise(d)
  BY <1>0, <1>10, DraftPromises DEF MarkPacked, CancelDraft
<1>11. ASSUME MarkBOReceived(d)
       PROVE  UNCHANGED <<quantity, Promised, Delivered>>
  <2>1. /\ document' = [document EXCEPT ![d].tracking = "BO_RECEIVED"]
        /\ UNCHANGED <<quantity, shipLedger>>
    BY <1>11 DEF MarkBOReceived
  <2>2. \A e \in Docs, b \in Buckets : Reserved(e, b)' = Reserved(e, b)
    BY <2>1 DEF IInv, TypeOK, Documents, Reserved
  <2> QED
    BY <2>1, <2>2 DEF Promised, Delivered
<1>12. ASSUME CancelConfirmed(d)
       PROVE  Promises!Return(d)
  BY <1>12, CancelReturns
<1> QED
  BY <1>1, <1>2, <1>4, <1>5, <1>6, <1>7, <1>8, <1>9, <1>10, <1>11, <1>12 DEF DocumentStep

\* The documents, balances and ledgers of the code keep the promises of
\* StockPromises: no step leaves a promise uncovered, delivers twice, or takes
\* back a part of a delivery.
THEOREM KeepsPromises == Spec => PromisesKept
<1>1. Init => Promises!Init
  BY DEF Init, Promises!Init, Promised, Delivered, Reserved, NoDocument, NoRows, Nothing,
         Promises!Nothing
<1>2. IInv' => Promises!Covered'
  BY IInvCovered, PTL
<1>3. IInv /\ IInv' /\ [Next]_vars => [Promises!Next]_Promises!vars
  <2> SUFFICES ASSUME IInv, IInv', [Next]_vars
               PROVE  [Promises!Next]_Promises!vars
    OBVIOUS
  <2>1. Promises!Covered'
    BY <1>2
  <2>2. ASSUME NEW d \in Docs, DocumentStep(d)
        PROVE  [Promises!Next]_Promises!vars
    BY <2>1, <2>2, DocumentStepPromises
    DEF Promises!Next, Promises!vars, Promised, Delivered
  <2>3. ASSUME NEW b \in Buckets, StockStep(b)
        PROVE  Promises!Next
    <3>1. UNCHANGED <<document, shipLedger>>
      BY <2>3, StockStepPosts
    <3>2. quantity' \in [Buckets -> Nat]
      BY DEF IInv, TypeOK
    <3> QED
      BY <2>1, <3>1, <3>2 DEF Promises!Next, Promises!Restock, Promised, Delivered, Reserved
  <2>4. CASE UNCHANGED vars
    BY <2>4 DEF vars, Promises!vars, Promised, Delivered, Reserved
  <2> QED
    BY <2>2, <2>3, <2>4 DEF Next
<1> QED
  BY <1>1, <1>3, InductiveInvariant, PTL DEF Spec, PromisesKept, Promises!Spec
=============================================================================
