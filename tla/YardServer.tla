------------------------------ MODULE YardServer ------------------------------
(***************************************************************************)
(* What the server does for the pages of the workspace: from a yard and a  *)
(* request, the answer and the yard that it leaves.  A yard is the         *)
(* documents with the items and the ledger that follow from them, what was *)
(* told of the containers, the type that the record of each keeps, the     *)
(* order in which documents entered the ledger, and the master records.    *)
(*                                                                         *)
(* Shipments of this yard stand in the main warehouse, and drafts carry the *)
(* date they are booked on.  The yard has no invoices, so nothing in it is *)
(* frozen by one.                                                          *)
(***************************************************************************)
EXTENDS StockPages, ContainerLifecycles, ReceiptPage, ReportPages, WarehouseMap

IsConfirmed(documents, i) == i \in Ids(documents) /\ documents[i].status = "CONFIRMED"
ConfirmedIn(documents) == {i \in Ids(documents) : IsConfirmed(documents, i)}
ReceiptsOf(documents, container) == {i \in Of("IN", documents) : documents[i].container = container}

(* A receipt that is confirmed sets the type in its container's record; the *)
(* record goes with the last receipt that is deleted, if nothing of the    *)
(* container is in the ledger either.                                      *)
BoxesAfter(yard, documents, moves) ==
  LET new == {i \in Of("IN", documents) : IsConfirmed(documents, i) /\ ~IsConfirmed(yard.documents, i)}
      deleted == Of("IN", yard.documents) \ Ids(documents)
      traceless == {c \in {yard.documents[i].container : i \in deleted} :
                      ReceiptsOf(documents, c) = {} /\ MovesOf(moves, c) = {}}
      TypeFrom(c) == documents[CHOOSE i \in new : documents[i].container = c].type
      known == Over([c \in {documents[i].container : i \in new} \ {NoContainer} |-> TypeFrom(c)], yard.boxes)
  IN Restrict(known, DOMAIN known \ traceless)

(* A document enters the ledger once, when it is confirmed. *)
ById(ids) == SetToSortSeq(ids, LAMBDA i, j : i < j)
EnteredAfter(yard, documents) ==
  SelectSeq(yard.entered, LAMBDA i : i \in Ids(documents))
    \o ById({i \in ConfirmedIn(documents) : ~IsConfirmed(yard.documents, i)})

Yard(documents, events, boxes, masters) ==
  [documents |-> documents, items |-> Items(documents), movements |-> Movements(documents),
   entered |-> ById(ConfirmedIn(documents)), events |-> events, boxes |-> boxes, masters |-> masters]

OfMoves(yard, documents, moves) ==
  [yard EXCEPT !.documents = documents, !.movements = moves, !.items = ItemsFrom(moves, documents),
               !.boxes = BoxesAfter(yard, documents, moves), !.entered = EnteredAfter(yard, documents)]
WithDocuments(yard, documents) == OfMoves(yard, documents, Movements(documents))

Granted(yard, id) == [ok |-> TRUE, yard |-> yard, id |-> id]
Denied(yard) == [ok |-> FALSE, yard |-> yard, id |-> 0]
Outcome(refused, yard, changed, id) == IF refused THEN Denied(yard) ELSE Granted(changed, id)

LastId(yard) == Max({0} \cup Ids(yard.documents))
NextId(yard) == 1 + LastId(yard)

(* Receipts and shipments; postings are not among them. *)
Papers(yard) == {i \in Ids(yard.documents) : yard.documents[i].kind \in {"IN", "OUT"}}

-----------------------------------------------------------------------------
(* Receipts and shipments *)

AllocationsOf(document) == UNION {ToSet(l.allocations) : l \in ToSet(document.lines)}

(* What is free for the shipment, its own reservation included.  A line     *)
(* without buckets would be picked automatically; none is confirmed here.  *)
AllocatedOf(document, b) == Total(LAMBDA m : -m.change, At(b, LineMovements(document)))
Reservable(yard, document) ==
  \A b \in {m.bucket : m \in LineMovements(document)} :
    /\ b \in DOMAIN yard.items
    /\ AllocatedOf(document, b) <= AvailableOn(yard.items, {b})
                                    + (IF RestoresReservations(document) THEN AllocatedOf(document, b) ELSE 0)

FullyAllocated(document) ==
  \A l \in ToSet(document.lines) : SumOf(LAMBDA a : a.allocated, l.allocations) = Positive(l.quantity)

(* The receipts of a container that are confirmed agree on its type. *)
Established(yard, document) ==
  {yard.documents[i].type : i \in {i \in ReceiptsOf(yard.documents, document.container) :
                                     /\ IsConfirmed(yard.documents, i) /\ i # document.id
                                     /\ yard.documents[i].customer = document.customer}}
TypeRefused(yard, document) ==
  document.container # NoContainer /\ ~(Established(yard, document) \subseteq {document.type})

(* Slip: only the button is kept from a sealed container. *)
ConfirmedSealed(yard, document) == ~IsDraft(document) \/ document.lines = <<>> \/ TypeRefused(yard, document)
InboundConfirmRefused(yard, document) ==
  \/ ~IsDraft(document) \/ document.handling = "SEALED_TRANSIT" \/ document.lines = <<>>
  \/ TypeRefused(yard, document)
OutboundConfirmRefused(yard, document) ==
  ~IsDraft(document) \/ document.lines = <<>> \/ ~FullyAllocated(document) \/ ~Reservable(yard, document)
ConfirmRefused(yard, document) ==
  IF document.kind = "IN" THEN InboundConfirmRefused(yard, document) ELSE OutboundConfirmRefused(yard, document)

Confirmed(document, tracking) == [document EXCEPT !.status = "CONFIRMED", !.tracking = tracking]
FinalTracking(document) == IF document.kind = "IN" THEN "RECEIVED" ELSE "SHIPPED"

Confirm(yard, i) ==
  LET d == yard.documents[i]
  IN Outcome(i \notin Papers(yard) \/ ConfirmRefused(yard, d), yard,
             WithDocuments(yard, [yard.documents EXCEPT ![i] = Confirmed(d, FinalTracking(d))]), i)

(* Tracking never moves back; what ends it confirms the draft, what starts  *)
(* picking holds what the shipment allocates.                              *)
TrackRefused(yard, d, target) ==
  LET step == SelectInSeq(Steps(d), LAMBDA s : s = target)
      ends == target \in {"RECEIVED", "SHIPPED", "BO_RECEIVED"}
  IN \/ step < StepIndex(d)
     \/ d.kind = "IN" /\ target = "RECEIVED" /\ d.handling = "SEALED_TRANSIT"
     \/ ends /\ IsDraft(d) /\ ConfirmRefused(yard, d)
     \/ ~ends /\ ~IsDraft(d)
     \/ d.kind = "OUT" /\ ~ends /\ target # "SCHEDULED" /\ Tracking(d) = "SCHEDULED"
          /\ ~(FullyAllocated(d) /\ Reservable(yard, d))

Tracked(d, target) ==
  IF target \in {"RECEIVED", "SHIPPED", "BO_RECEIVED"} THEN Confirmed(d, target) ELSE [d EXCEPT !.tracking = target]

Track(yard, i, target) ==
  LET d == yard.documents[i]
  IN Outcome(i \notin Papers(yard) \/ TrackRefused(yard, d, target), yard,
             WithDocuments(yard, [yard.documents EXCEPT ![i] = Tracked(d, target)]), i)

(* A copy starts over; a shipment's buckets are not copied with it. *)
CopiedLine(document, line) == IF document.kind = "IN" THEN line ELSE [line EXCEPT !.allocations = <<>>]
CopyOf(document, id) ==
  [document EXCEPT !.id = id, !.status = "DRAFT", !.tracking = "SCHEDULED",
                   !.lines = [j \in DOMAIN @ |-> CopiedLine(document, @[j])]]

Copy(yard, i) ==
  Outcome(i \notin Papers(yard) \/ yard.documents[i].lines = <<>>, yard,
          WithDocuments(yard, With(yard.documents, NextId(yard), CopyOf(yard.documents[i], NextId(yard)))),
          NextId(yard))

(* What a document has to do with in the ledger; of a receipt there is a    *)
(* row for every line, though it counted nothing.                          *)
Touched(document) ==
  IF document.kind = "IN" THEN {<<document.customer, document.container>>}
  ELSE {<<Buckets[m.bucket].customer, Buckets[m.bucket].container>> : m \in LineMovements(document)}
EnteredSince(yard, i) ==
  {yard.entered[k] : k \in {k \in DOMAIN yard.entered : \E n \in 1..(k - 1) : yard.entered[n] = i}}
LaterActivity(yard, document) ==
  /\ document.container # NoContainer
  /\ \E i \in EnteredSince(yard, document.id) :
       <<document.customer, document.container>> \in Touched(yard.documents[i])

(* Deleted documents are gone from every list, with what they moved; of a   *)
(* receipt nothing else may have happened to the container since, and what *)
(* it brought must still stand there, and be free.                         *)
Removable(yard, document) ==
  \A b \in {m.bucket : m \in LineMovements(document)} :
    /\ AvailableOn(yard.items, {b}) >= Total(LAMBDA m : m.change, At(b, LineMovements(document)))
    /\ yard.items[b].pallets >= Total(LAMBDA m : m.pallets, At(b, LineMovements(document)))
ReversalRefused(yard, document) ==
  /\ document.kind = "IN" /\ ~IsDraft(document)
  /\ LaterActivity(yard, document) \/ ~Removable(yard, document)
Discard(yard, i) ==
  Outcome(i \notin Papers(yard) \/ ReversalRefused(yard, yard.documents[i]), yard,
          WithDocuments(yard, Restrict(yard.documents, Ids(yard.documents) \ {i})), i)

Annotate(yard, i, note) ==
  Outcome(i \notin Papers(yard), yard,
          [yard EXCEPT !.documents = [@ EXCEPT ![i].note = note]], i)

(* What validateInboundDocumentInput makes of the status: a confirmed receipt *)
(* is received, a sealed one is neither.                                   *)
TrackingRefused(payload) ==
  \/ payload.status = "CONFIRMED" /\ payload.tracking # "RECEIVED"
  \/ payload.handling = "SEALED_TRANSIT" /\ (payload.status = "CONFIRMED" \/ payload.tracking = "RECEIVED")

(* And of the lines; what they count can come to stand in one of the yard's *)
(* buckets (bound).                                                        *)
LinesRefused(receipt) ==
  \/ receipt.lines = <<>> \/ ~Decoded(receipt.lines)
  \/ \E l \in ToSet(receipt.lines) :
       \/ ~({l.expected, l.received, l.pallets} \subseteq Int)
       \/ l.expected < 0 \/ l.received < 0 \/ l.pallets < 0 \/ l.expected + l.received = 0
       \/ l.received > 0 /\ BucketsOf(receipt.container, receipt.location, l.sku) = {}

(* A receipt is created, or a draft rewritten; a confirmed one is then      *)
(* confirmed as a draft would be, or nothing is saved.                     *)
Written(yard, id, payload) ==
  Over([status |-> "DRAFT", id |-> id, kind |-> "IN",
        type |-> IF id \in Ids(yard.documents) THEN yard.documents[id].type ELSE "NORMAL"], payload)
Saving(yard, id, payload, draft) ==
  LET confirms == payload.status = "CONFIRMED"
      saved == IF confirms THEN Confirmed(draft, "RECEIVED") ELSE draft
  IN Outcome(\/ id \in Ids(yard.documents) /\ ~IsDraft(yard.documents[id])
             \/ TrackingRefused(payload) \/ LinesRefused(draft)
             \/ confirms /\ InboundConfirmRefused(yard, draft),
             yard, WithDocuments(yard, With(yard.documents, id, saved)), id)
SaveReceipt(yard, i, payload) ==
  LET id == IF i = None THEN NextId(yard) ELSE i
  IN IF i # None /\ i \notin Of("IN", yard.documents) THEN Denied(yard)
     ELSE Saving(yard, id, payload, Written(yard, id, payload))

(* All receipts of a selection or none; shipments one by one, by their ids. *)
EachInTurn(Do(_, _), yard, chosen) ==
  Accumulate(LAMBDA y, i : IF i \in chosen THEN Do(y, i).yard ELSE y, yard, [i \in 1..LastId(yard) |-> i])
ConfirmReceipts(yard, chosen) ==
  LET after == EachInTurn(Confirm, yard, chosen)
  IN Outcome(\E i \in chosen : \/ i \notin Of("IN", yard.documents) \/ ~IsDraft(yard.documents[i])
                                \/ IsDraft(after.documents[i]), yard, after, 0)
(* The answer says which of them went through. *)
Settled(yard, after, chosen) ==
  Granted(after, {i \in chosen \cap Ids(yard.documents) :
                    i \in Ids(after.documents) => after.documents[i] # yard.documents[i]})
ConfirmShipments(yard, chosen) == Settled(yard, EachInTurn(Confirm, yard, chosen), chosen)
RemoveShipments(yard, chosen) == Settled(yard, EachInTurn(Discard, yard, chosen), chosen)

-----------------------------------------------------------------------------
(* Stock, containers and master records *)

Posted(yard, lines) ==
  WithDocuments(yard, With(yard.documents, NextId(yard), Posting(NextId(yard), Today, lines)))

PostTransfer(yard, request) ==
  LET parts == request.entire = NoContainerKey
      lines == IF parts THEN Moving(request.lines) ELSE EntireLines(yard.items, request.entire)
      refused == IF parts THEN ~Whole(request.lines) \/ TransferRefused(lines, request.to, yard.items)
                 ELSE EntireRefused(lines, request.to, yard.items)
  IN Outcome(refused, yard, Posted(yard, TransferPosted(lines, request.to)), NextId(yard))

(* Everything that stands in a warehouse, if nothing of it is held back. *)
PostWarehouse(yard, from, to) ==
  LET lines == TransferLines(yard.items, StockOf(yard.items, from), "ENTIRE")
  IN Outcome(from = to \/ EntireRefused(lines, <<to, Temp>>, yard.items), yard,
             Posted(yard, TransferPosted(lines, <<to, Temp>>)), NextId(yard))

PostAdjustment(yard, lines) ==
  Outcome(AdjustmentRefused(lines, yard.items), yard,
          Posted(yard, ChangesPosted("ADJUST", AdjustmentChanges(lines, yard.items))), NextId(yard))

PostCount(yard, lines) ==
  Outcome(CountRefused(Counts(lines), yard.items), yard,
          Posted(yard, ChangesPosted("COUNT", CountChanges(Counts(lines), yard.items))), NextId(yard))

(* The type of a container is that of its record and of all its receipts. *)
SetBoxType(yard, container, type) ==
  [yard EXCEPT !.boxes = With(@, container, type),
               !.documents = [i \in DOMAIN @ |-> IF @[i].kind = "IN" /\ @[i].container = container
                                                 THEN [@[i] EXCEPT !.type = type] ELSE @[i]]]
Retype(yard, i, type) ==
  Outcome(i \notin Papers(yard), yard, SetBoxType(yard, yard.documents[i].container, type), i)
RetypeBox(yard, container, type) ==
  Outcome(container \notin DOMAIN yard.boxes /\ MovesOf(yard.movements, container) = {}, yard,
          SetBoxType(yard, container, type), 0)

Tell(yard, event) ==
  LET id == 1 + Max({0} \cup {e.id : e \in yard.events})
  IN Granted([yard EXCEPT !.events = @ \cup {[event EXCEPT !.id = id]}], id)

(* A record that stock, or a document, refers to cannot be deleted. *)
Named(yard, field) ==
  {Buckets[b][field] : b \in DOMAIN yard.items} \cup {yard.documents[i][field] : i \in Ids(yard.documents)}
InUse(yard, kind, key) ==
  CASE kind = "customers" -> key \in Named(yard, "customer")
    [] kind = "locations" -> key \in Named(yard, "location")
    [] OTHER -> \E b \in DOMAIN yard.items : Buckets[b].sku = key

PutMaster(yard, kind, key, record) ==
  Granted([yard EXCEPT !.masters[kind] = With(@, key, record)], 0)
DropMaster(yard, kind, key) ==
  Outcome(key \notin DOMAIN yard.masters[kind] \/ InUse(yard, kind, key), yard,
          [yard EXCEPT !.masters[kind] = Restrict(@, DOMAIN @ \ {key})], 0)

-----------------------------------------------------------------------------

(* A request names its operation and carries what the page put into it. *)
Serve(yard, request) ==
  CASE request.op = "confirm" -> Confirm(yard, request.id)
    [] request.op = "track" -> Track(yard, request.id, request.target)
    [] request.op = "copy" -> Copy(yard, request.id)
    [] request.op = "remove" -> Discard(yard, request.id)
    [] request.op = "note" -> Annotate(yard, request.id, request.note)
    [] request.op = "receipt" -> SaveReceipt(yard, request.id, request.payload)
    [] request.op = "confirm receipts" -> ConfirmReceipts(yard, request.chosen)
    [] request.op = "confirm shipments" -> ConfirmShipments(yard, request.chosen)
    [] request.op = "remove shipments" -> RemoveShipments(yard, request.chosen)
    [] request.op = "transfer" -> PostTransfer(yard, request.payload)
    [] request.op = "warehouse" -> PostWarehouse(yard, request.from, request.to)
    [] request.op = "adjust" -> PostAdjustment(yard, request.payload)
    [] request.op = "count" -> PostCount(yard, request.payload)
    [] request.op = "retype" -> Retype(yard, request.id, request.type)
    [] request.op = "box" -> RetypeBox(yard, request.container, request.type)
    [] request.op = "tell" -> Tell(yard, request.event)
    [] request.op = "put" -> PutMaster(yard, request.kind, request.key, request.record)
    [] OTHER -> DropMaster(yard, request.kind, request.key)

(* Changes are for operators and administrators, those of the records for   *)
(* administrators alone.                                                   *)
MayAsk(role, request) ==
  role = "admin" \/ (role = "operator" /\ request.op \notin {"put", "drop"})
ServeTo(role, yard, request) == IF MayAsk(role, request) THEN Serve(yard, request) ELSE Denied(yard)
=============================================================================
