--------------------------- MODULE StockPromises ---------------------------
(***************************************************************************)
(* What the warehouse promises about outbound stock, without documents'    *)
(* states, pallets, ledgers or counters: goods are promised to a shipment, *)
(* delivered once, taken back only whole, and no step of anyone leaves a   *)
(* promise uncovered by the goods on hand.  OutboundStock implements it.   *)
(***************************************************************************)
EXTENDS Integers

CONSTANTS
    Docs,
    Buckets,
    MaxQuantity,
    Sum(_)        \* the sum of the values of a function

VARIABLES
    onHand,       \* cartons in each bucket
    promised,     \* per document: cartons promised from each bucket
    delivered     \* per document: cartons taken from each bucket

vars == <<onHand, promised, delivered>>

Nothing == [b \in Buckets |-> 0]
Goods == [Buckets -> 0..MaxQuantity]

\* What is promised from each bucket is there.
Covered == \A b \in Buckets : Sum([d \in Docs |-> promised[d][b]]) <= onHand[b]

\* A promise is made, changed or withdrawn while nothing has been delivered.
Promise(d) ==
    /\ delivered[d] = Nothing
    /\ \E goods \in Goods : promised' = [promised EXCEPT ![d] = goods]
    /\ UNCHANGED <<onHand, delivered>>

\* A delivery ends the promise, whether or not it is for the promised goods.
Deliver(d) ==
    /\ delivered[d] = Nothing
    /\ \E goods \in Goods :
        /\ delivered' = [delivered EXCEPT ![d] = goods]
        /\ onHand' = [b \in Buckets |-> onHand[b] - goods[b]]
    /\ promised' = [promised EXCEPT ![d] = Nothing]

Return(d) ==
    /\ onHand' = [b \in Buckets |-> onHand[b] + delivered[d][b]]
    /\ delivered' = [delivered EXCEPT ![d] = Nothing]
    /\ UNCHANGED promised

\* Goods arrive, move or are written off.
Restock ==
    /\ onHand' \in [Buckets -> Nat]
    /\ UNCHANGED <<promised, delivered>>

Init ==
    /\ onHand = Nothing
    /\ promised = [d \in Docs |-> Nothing]
    /\ delivered = [d \in Docs |-> Nothing]

Next ==
    /\ Restock \/ \E d \in Docs : Promise(d) \/ Deliver(d) \/ Return(d)
    /\ Covered'

Spec == Init /\ [][Next]_vars
=============================================================================
